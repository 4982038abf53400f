# A TLA+ model of the L9 cognitive runtime

The repository compiles a task description and a snapshot of context candidates
into a self-contained execution packet, deterministically, and serves compiled
runs to MCP clients. This directory holds TLA+ modules that model its parts, TLC
configurations that check them on small instances, and TLAPS proofs of the
properties that matter most. Paths below are relative to
`src/l9_cognitive_runtime/` of the repository unless they say otherwise.

## 1. Inventory

| Part | State it keeps | Operations | Interacts with | What makes it correct |
|---|---|---|---|---|
| Run store (`mcp/run_store.py`) | dictionary of runs, recency list, one lock | create, get/require, list, two eviction loops | MCP tools on server threads | structures agree; bounded; only own, live runs are served; a burst evicts its own |
| Supersession (`compiler/task_context.py`) | none; a graph over the claims of one kind | expand references, gate by authority, find cycles, survivors, unknowns | conflict resolution | weak claims cannot touch strong ones; only governed cycles block; order does not matter |
| Conflict resolution (same file) | none | eligibility, deduplication, precedence, authority | every consumer of a snapshot | runs after eligibility; contradictions are never decided arbitrarily |
| Detailed context compiler (same file) | selection, reasons, running cost, unknowns | one pass per requirement, then dispositions | requirement plan, closure | budgets hold; nothing eligible is lost without a record |
| Context closure (`compiler/context_closure.py`) | none | eleven ordered checks | the compiler it judges | accepts every compiled context; notices a defective one |
| Discovery, scope, materiality (`task_context.py`, `task_scope.py`, `architecture_materiality.py`) | none | bounded projection used for routing | activation | excluded references select nothing; memory never routes |
| Requirement planner (`compiler/context_requirements.py`) | none | baseline requirements, kernel needs merged by signature | context compiler | what routed the task is asked for again; a kernel's need is met or visible |
| Dispositions (`task_context.py`, `models/context.py`) | none | what the task needs to be able and allowed to do, against the selected facts | context compiler, closure | absence and doubt are never read as permission |
| Compile spine (`compiler/pipeline.py`, `service.py`) | inputs read once per call | plan, compile, validate | everything | a compile never uses inputs other than the ones its plan was made from |
| Pack loader (`pack/loader.py`) | manifest digests | load, verified read | spine | nothing unverified is used |
| Objective, activation, kernels (`objective.py`, `activation.py`, `kernels.py`) | none | realization mode, route, phases, kernel order and bindings | obligations, execution | what is planned can be compiled; permission for the terminal phase |
| Obligations to handoff (`obligations.py`, `execution.py`, `validation.py`, `handoff.py`, `convergence.py`) | none | derive, then carry obligations through the artifacts, gate and receipt | spine | no obligation is lost; terminal success needs evidence |
| Execution graph (`graph/__init__.py`) | none | derive edges, order | execution contract | acyclic, complete order |
| Liveness ladder (`compiler/liveness.py`) | none | ordered checks of a finished bundle | spine | a bundle that passes is usable |
| HTTP ingress (`mcp/http.py`) | semaphore, queue of waiters | origin, size, timeout, concurrency limit | MCP server | permits are conserved, no wakeup is lost, every request is settled |
| MCP tools, authentication (`mcp/__init__.py`, `mcp/auth.py`) | pack loaded at start, lazy key client and its URI | start-up, verification, tools, run resource, principal resolution | run store | a refused request leaves no run; a run belongs to whoever made it; a failure is not remembered |

Where the difficulty lies:

* concurrency: the run store is called from several threads, and `create()`
  reads the clock before it holds the lock; the ingress has a timeout around a
  timeout, and a permit may be granted to a waiter that is cancelled before it
  runs; the key client is created lazily by threads that share no lock;
* a request that is answered and goes on: the request timeout answers 504 and
  cancels nothing, and a streamed response starts before its tool is done;
* order: supersession, deduplication and conflict resolution are destructive, so
  the order of the three and of eligibility decides what a task sees; the index
  of supersession depends on the input order of copies;
* shared limits: requirements compete for one global budget and may share items,
  and closure reconstructs afterwards where each of them was stopped;
* two sources of truth: the planner reads the routing rules, the execution compiler
  the pipeline, and nothing but the last stage notices when they disagree; an
  activation plan may also be handed in from outside;
* silence: every property of the context pipeline is about something that is
  absent from the result, which a test of the result hardly notices.

## 2. Modules

| Module | Models | Kind |
|---|---|---|
| `RunStore` | `mcp/run_store.py` | state machine, one step per lock operation or loop turn |
| `RunStoreProofs` | | theorems about `RunStore`, and that it implements `RunRegistry` |
| `RunRegistry` | what the run store promises | abstract specification: every call takes effect in one step |
| `Admission` | `ConcurrencyLimitMiddleware` on `asyncio.Semaphore` | actions of one component, composed by `Ingress` |
| `HostedAuth` | `mcp/auth.py`: `JwtTokenVerifier`, `discover_jwks_uri` | actions of one component, one step per read or write of shared state |
| `Ingress` | `mcp/http.py`, `mcp/__init__.py` | state machine; composes `Admission`, `HostedAuth` and `RunRegistry` |
| `IngressProofs` | | theorems about `Ingress` and the components it composes |
| `SupersessionRules` | `_resolve_supersession` and its helpers | operators on an index of claims |
| `Supersession` | a snapshot that grows, with its resolution | state machine over the rules |
| `SupersessionProofs` | | theorems about `Supersession` |
| `ContextResolution` | `matches_requirement`, `_resolve_candidates` | operators on sets of candidates |
| `ContextPlanner` | `task_scope.py`, `ContextDiscoveryCompiler`, `assess_materiality`, `context_requirements.py` | operators from a task and a snapshot to a requirement plan |
| `ContextDispositions` | `_compile_capabilities`, `_compile_authority`, the coverage rules of `models/context.py` | operators on the selected facts |
| `ContextCompiler` | `ContextCompiler.compile`: plan, select, dispose | state machine, one step per candidate; uses the two above |
| `ContextClosure` | `ContextClosureValidator` | predicate on finished contexts, extends the compiler |
| `ContextClosureProofs` | | theorems about the compiler, with its planner, resolution and dispositions |
| `PlanBinding` | `pack/loader.py`, `service.py`, the semantic prefix of `pipeline.py`, `KernelResolver.resolve` | state machine, one step per file read |
| `PlanBindingProofs` | | theorems about `PlanBinding`, and that it implements `PackService` |
| `PackService` | what the service promises about the pack | abstract specification: a call is answered from the manifest of one instant |
| `Activation` | `objective.py`, `architecture_materiality.py`, `activation.py` | operators on a pack and a request |
| `Obligations` | `compiler/obligations.py` | operators on sets of obligations |
| `CompileStages` | the suffix of `CompilePipeline._compile`: `execution.py`, `validation.py`, `handoff.py`, `derive_execution_graph`, `packet.py`, `validate_packet`, `liveness.py` | state machine, one step per stage; composes `Activation` and `Obligations` |
| `CompileStagesProofs` | | theorems about `CompileStages` |
| `ExecutionGraph` | `topological_order`, `validate_execution_graph_mapping` | state machine, one step per loop turn |
| `ExecutionGraphProofs` | | theorems about `ExecutionGraph` |
| `TerminalGate` | `compiler/convergence.py` | state machine with the executor as environment |
| `TerminalGateProofs` | | theorems about `TerminalGate` |
| `MCRunStore`, `MCIngress`, `MCSupersession`, `MCContextClosure`, `MCPlanBinding`, `MCCompileStages`, `MCExecutionGraph`, `MCTerminalGate` | | instances for TLC |

### Run store

`items` and `order` are `_items` and `_order`; `lock`, `pc` and `call` are the
lock and the threads' program counters and locals. `BeginCreate` reads the clock
and draws the id outside the lock, as the code does; `Acquire` gives readers the
time they see inside it. `EvictExpired` and `Trim` are single turns of the two
loops. The lock is reentrant in the code, but no operation takes it twice.
`issued` makes precise that `secrets.token_urlsafe` never repeats an id.
`FinishCreate` returns the record itself, as `create()` does.

Assumed: the clock does not run backwards. The code uses `time.time()`, which
can be set back; runs then live longer. No property covers that.

`RunRegistry` says what a caller may rely on without knowing about the lock: a
call is made (`Ask`), takes effect in one step (`Create`, `Serve`, `Deny`,
`Enumerate`) and is answered; a due run may leave at any time after it is due. The
refinement mapping is at the end of `RunStore`: the visible table is `items` and
`order`, except while `create()` is trimming a table over its bound, when the new
run is not visible yet. A create therefore takes effect at its insertion when there
is room, and when its victim is removed otherwise. Such a table is seen by nobody,
as the lock is held. `Ingress` uses `RunRegistry` as its store.

### Server

`Ingress` follows a request through the stack: origin, body size, request timeout,
concurrency limit, bearer check, tool. Two things are kept apart for every request:
what its client was answered (`answer`) and how far the application is with it
(`pc`). `RequestTimeout` changes the first and not the second, because the
middleware answers 504 without cancelling the task below. `Respond` is the start of
a response: `call_next` returns there and the `finally` clause releases the permit.
A tool whose response is streamed goes on after that (`StartStream`), so the limit
bounds the requests whose response has not started, not the tools at work.

`Admission` spells out `asyncio.Semaphore` (external), since the hazard is in it: a
release resolves a waiter's future, and the waiter runs later. `CancelWait`, the
timeout of `wait_for`, may strike in between ("expired"), and `ResumeRefused` then
has to hand the permit on.

In `HostedAuth` every read and every assignment of `_jwks_client` and `_jwks_uri` is
a step, as verifications run on worker threads and share them. Each fetch may
fail. A token is reduced to what `jwt.decode` and the claims say of it.

`Start` covers `main()` with `resolve_hosted_auth`, the completeness checks of
`HostedAuthConfig` and the loading of the pack. Not in the model: the other tools of
`mcp/__init__.py`, which compute and store nothing, and the rendering of their
results; cancellation of a request by the client's disconnect.

### Supersession

The index `c` of the rules maps item ids to claims, as `by_item` does. The
authority rank, the two kinds of references and the decision status are kept;
texts and sources are not. `Reachable` is the least set closed under the edges,
which is what the work list of `_reachable_set` computes.

In `Supersession` the host supplies claims one at a time. An item id is a digest
of the claim, so it can name only ids that existed before it: `RefsOf(i)`; cycles
arise through domains. The digest leaves out the authority level, so
`SupplyCopy` may add the same item at another level. A decision marked superseded
by its author still retires others, as in the code.

### Context compilation and closure

Candidates and requirements are records; kinds have short names ("law" for
`applicable_law`), and ids and keys are numbers in the order their strings sort
in. `refs = {}` stands for scope mode GLOBAL. `coordinate` stands for the
constraint of `EXACT_REVISION`, `source` for the order of immutable coordinate
and content digest. Candidate ids are distinct here; copies of one item are the
subject of `Supersession`.

A requirement's pass is `BeginRequirement` (resolve, report contradictions), then one
step per candidate, then one of the four endings. `EndBlocked` raises. `todo` is the
set of candidates not yet looked at, and `Upcoming(x)` says that `x` is the first of
them in the order of `_candidate_sort_key`; it is skipped (`SkipUnrequested(x)`), stops
the pass (`StopOnBudget(x, n)`, with `n` the bound that is exceeded) or is taken
(`Admit(x)`). The order is total, as item ids are distinct, so the steps are those of
the sorted list in the code. `RequirementPlan` orders its entries in the same way, by
counting those before each.

A compilation begins from a task (`PlanContext`: scope, discovery, materiality and
`RequirementPlan`, in that order) or from a plan that is given; a snapshot over the
ceilings is refused first (`RefuseSnapshot`). Plans that no planner makes are kept
because `ContextCompiler.compile` takes any, and because the requirements they
combine reach bounds that the planner's do not. A task is what the planner and the
dispositions read of intent, activation and kernels: named, in-scope and excluded
references, realization mode, validation, delivery and terminal flags, whether
mission tokens match, which constraints are mapped to triggers, and the needs of the
bound kernels. `handed` is an activation plan from outside that states its own
materiality. `LegalNeed` is what `_parse_context_needs` lets pass.

After the last requirement `Finish` adds the unknowns of decisions whose own status is
unknown and the dispositions of `ContextDispositions`: which capabilities and
authorities the task requires, and whether the selected facts grant, limit or leave
them open. A grant covers a requirement by subject and, where it names them, by
target; a limit bears on one if it might.

`Accepts(ctx)` is `validate`: the conjunction of the checks listed in the module,
`GapsExplicit` (capabilities and authorities without a disposition) among them.
It resolves its own views and reads nothing of the compiler's state but the
inputs, so it may be asked about contexts the compiler did not produce. `Proven` is
`_budget_stop_independently_proven`: `Frontier` is the set of what the selector was
entitled to look at, `FirstOf` the item of it that comes first in the order of selection
among those not taken, and `Reached` compares the numbers of a witness with those of what
was admitted before. A sum of costs is the number of the bytes of the items (`Bytes`), so
that what is known of cardinalities applies to it.

### Planning and compiling over a changing pack

`PlanBinding` is about what a compile really used. A caller's call is a sequence of
reads: `ReadManifest`, one `VerifyFile` per listed file in any order, `ReadDigest`
(the second read of `MANIFEST.json` in `load()`), then `ReadRules`, `ReadPipeline`
and one `ReadKernel` per activated kernel. Between any two of them the deployment
(`WriteFile`, `WriteManifest`, external to the code) may replace or remove a file
or install another manifest. A file's content stands for its digest, so SHA-256 is
taken to be injective; a manifest is a function from paths to contents, `None` for
a path it does not list. `sources` holds the bytes read in this call, `entries`
and `digest` what the load recorded.

`Discover` is what the eligible part of the host's snapshot determines (the real
projection resolves that part, and nothing else, see `ContextResolution`).
`Activate`, a constant operator, is `ActivationPlanner.plan`, a pure function of
the rules, the pipeline and the discovery. The parts of a `ContextPlan` that are a
function of these and of the caller's fixed request are not repeated in `PlanId`.
The stages of a compile after the plan read no file; they end in `FinishCompile` or
`Refuse`. A host keeps its plan until it is used or refused as stale.
`compile_from_root` reads the same sources without a manifest and says so; its
callers bind no plan, and the entry that is handed an activation plan instead of
routing one is part of `CompileStages`.

`PackService` says what a host may rely on without knowing about files: a call is made
(`Ask`), takes the installed manifest (`Take`), takes the manifest that it will name
(`Label`), and replies in one step, with an answer computed from the manifest taken and
the snapshot (`Answer`), or fails. The refinement mapping is in `PlanBinding`: the place of
a call is seen as one of four, plans and bundles as what they tell the host (discovery,
sources, kernels, label). `ReadManifest` is the instant at which a call takes effect and
`ReadDigest` that of its label, which is why the two may differ (finding 4); writing,
hashing and reading files change nothing that a host can see. A compile at a bare root
takes no manifest: its answer is that of some set of sources.

### From the activation plan to the bundle

`CompileStages` runs the stages after the context has been compiled, each of which
hands its representation on or refuses the compile. A mission is the record of the
word lists it hits, a pack the record of what its rules and its pipeline say (see
`Activation`). Kernels keep their names without directories, phases their first two
letters, and step ids are phases, one to one in `PHASE_STEP_MAP`. The notes of the
caller come with the request, and so does what the later stages read of the compiled
context: its blocking unknowns, and the kinds and keys of its conflict unknowns and of its
selected items. The context is one that closure has accepted. In `Init` the plan is the planner's or, for a bare request, one that is handed in:
made under any of the packs, or with a phase struck out, the phases in reverse or the
terminal permission flipped. `from_mapping` would accept such a plan.

No stage depends on the order of a list of obligations, of the kernels of a step or
of the validation properties, so these are sets. Each obligation carries its place in
the derivation: two blocking unknowns with one id remain two entries, which `_index`
must refuse.

A plan with P7 elsewhere than at its end compiles, whether it was handed in so or planned
from a `phase_order` with P7 inside: the terminal step is allowed and carries convergence,
but is not the terminal node of the graph. `TerminalCrossesConvergence` therefore asks
for that of planned compiles under a `phase_order` that ends with P7.

The loader checks neither pack source against the other. `Coherent` states what they must
agree on: phases with a step, listed once, with files for kernels; routes that unpack,
take source law first and route to kernels of P2; architecture in P3, under a Global
Architect with outputs; Flawless Victory as the only terminal kernel; a pipeline that
states its `pipeline_id` and its `terminal_contract`, without which the execution compiler
raises. The shipped pack is coherent, which TLC evaluates.

`CoherentPacksCompile` asks of every coherent pack that the planner's plans pass all later
stages, with one exception: the ladder may refuse a context in which an item is selected
under the kind and key of a conflict (`Contradicted`, check 21). `Coherent` is sufficient
and close to necessary: of the 17 other packs of the run two are coherent and fifteen are
not, and with `stage = "refused" => Contradicted` in place of the property TLC finds a
refused plan of the planner under each of the fifteen but one, whose route names a
constitutional kernel as its task kernel, which P1 activates anyhow.

The exception is real. Check 21 compares every conflict unknown, those of discovery
included, with every selected item, whichever requirement selected it. Closure asks, of one
requirement at a time, that the conflicts in its view are reported and not selected.
Discovery and a requirement may see different things: let a task target R, and two governed
repository facts of one key and two revisions be supplied, one global and one scoped to R.
Discovery sees both and records a conflict. The requirement, which is bound to R, cannot
match the global fact and selects the other. Closure accepts the context, and the ladder
refuses the compile. The candidates `TwoViews` of `MCContextClosure` are this case:
the selector makes that context and `Accepts` holds of it.

`Live` holds the checks of the ladder that can fail at this point. The other ones:
3, 6, 11 and 14 look at dispositions, digests and consumers that are constants of a
fresh compile. 17 to 20 (the closure report, provenance, a reason for each item, the
kernel bindings) are comparisons closure has just made on the same context, 22 and 23
compare a digest or a copy with the context it was made from. A governed effective
authority order, which replaces the fixed one as text of a step, is left out.

### Execution graph

`ExecutionGraph` takes `topological_order` apart into the turns of its loops: `Start`
builds the maps or raises on an edge without an end, `Seed` fills the deque, `Pop`
and `Release` are the two nested loops, `Finish` compares the lengths. Ids are
numbers in the order in which their strings sort. A graph may have repeated ids, as
a serialized one can. `derive_execution_graph` in `CompileStages` builds the chain,
whose order `ChainKeepsStepOrder` is about.

### Terminal gate

`Evaluate` and `MakeReceipt` are the two functions of `convergence.py`. They are pure
and are given contracts; who changes those contracts is an executor outside the
repository, modelled as it must be for `ObligationDisposition` to make sense: an
obligation is disposed of once, a property may be run again and change its status.
The receipt is made of a report that may be older than the dispositions it lists.

## 3. Runs

| Run | Instance | Shows |
|---|---|---|
| `run_store` | 2 threads, 2 principals, 3 runs, bound 2, time to live 1, clock to 1 | agreement of the two structures, bound, no foreign or expired reply, burst isolation, refinement of `RunRegistry`; every critical section ends |
| `ingress` | 4 requests, limit 2, store of 1 run, 13 worlds (deployment, issuer, traffic) | the queue is sound, permits are conserved, no wakeup is lost, no rejection from a remembered failure, a refused request leaves no run, runs belong to whoever made them; every admitted request is settled |
| `supersession` | 3 ids, 2 domains, a governed and an informative rank, 2 statuses, 1 reference per claim, up to 3 candidates | weak claims are inert, only governed cycles block, retirements rest on claims that stand |
| `context_closure` | any part of 4 laws and 2 pieces of evidence with 63 plans of two requirements; any part of 4 laws with a declared precedence, all of them asked for; any part of 9 candidates of the kinds with rules of their own with 3 plans of four; 7 tasks over any part of one of four further pools (constraints; authorities; capabilities and laws; two facts in conflict of which a requirement sees one); 3 budgets | the compiler passes its own validator but for two named cases, the validator notices a dropped item and a hidden unknown, nothing is lost without an account, what proved materiality is selected or visible, no authority is granted without a governed grant over its subject, a kernel's need is met or visible |
| `plan_binding` | 1 host, 2 kernels, 3 contents (1 malformed), 3 manifests, 2 items (1 eligible), 2 writes | bundles come from one installed manifest, bound compiles use what their plan used, refinement of `PackService`, no spurious replan; once the pack is consistent, a host gets its compile judged on its merits for ever again |
| `compile_stages` | the shipped routes, phases and kernels (K02 for K02 to K05, one kernel for the alike ones of a phase) with requests of every kind; 17 packs that differ from it in one place, with 192 requests each; contexts without conflicts, with conflicts nowhere selected, and with a conflict that is also selected; handed-in plans | under a pack whose rules and pipeline agree whatever the planner answers, every later stage accepts, but for a ladder that refuses a selected contradiction, and under the shipped one an obligation's step runs its owner; every bundle has each obligation on exactly one step, keeps unknowns visible, gates its terminal step and answers for architecture |
| `execution_graph` | all graphs on 4 nodes in two node orders, and on 3 nodes with repeated ids, self-loops, dangling edges | order respects edges, the validator is exact, a chain keeps its order, the loops end |
| `terminal_gate` | 4 obligations, 3 properties, two of them of the architecture obligation | a CONVERGED receipt is closed, the gate converges on evidence |
| `recorded_manifest` | violation | see findings |
| `order_independent` | violation | see findings |
| `only_other_domains` | violation | see findings |
| `truncation_is_recorded` | violation | see findings |

Why the bounds are enough for the interesting cases. In the run store, three runs
and a bound of two overflow the store with either one or two owners, and a time
to live that ends within the clock lets a run expire while a creator waits for the
lock. In supersession, three candidates make a cycle of two with a third claim
before, behind or on it, and a copy of either. In the context runs the pool has a
contradiction, a scoped claim that resolves it, and candidates below the
authority floor; each of the four bounds stops some requirement, before and after
an item is shared. The planner's limits are constants: 2 items and 9 bytes per
requirement, 1 memory item, snapshots of 8 items and 9 bytes stand for 16, 65536, 3,
256 and 1 MiB, so that a planned requirement can be truncated and a snapshot refused.
The tasks have no reference, one, or one of two excluded; kernel needs that merge and
needs that do not; a mission with and without tokens.

In `ingress` two permits and four requests put two waiters behind two holders, which
is what a late grant and a lost wakeup need. The worlds pair the traffic with the
deployment it is interesting for: two verifications racing for the key client, a
forged, an unscoped and a missing token, issuers that publish nothing usable,
a snapshot that must be refused, and four deployments that must not start.

In `plan_binding` one host is enough: callers share only the pack, and no call writes
to it (`CallFrame` in the proofs); two writes replace a file and its manifest within a
single call, or one between the plan and each of two compiles. The theorems cover any
number of writes. `recorded_manifest` has three.

The compile stages are a straight line, so their bounds are about inputs. The shipped
pack has a request for every route, alone and in a tie, every realization mode, every
combination of improvement words, terminal phrase and `include_terminal`, triggers
and signals. Each way in which rules and pipeline can disagree has a
pack: phases missing or repeated, kernels not listed or not there, the terminal phase
in a route, the architecture phase elsewhere. Four nodes hold two disjoint cycles, a
cycle behind or before a path, and a diamond, where a node must wait for the later of
two predecessors.

Deadlock is not checked where the system stops: a snapshot that is full, a
compilation that has returned or raised, an ordered graph, a receipt, a server that
refused to start or whose requests are all done. The run store never stops.

Fairness: `run_store` assumes only that a thread that holds the lock goes on
executing. A waiting thread may starve, since Python's locks promise no order;
nothing is claimed about it. `plan_binding` assumes that a host goes on
calling and a call goes on executing (weak fairness of all its steps together; a
call is a plain sequence of reads in one thread). Nothing is assumed of the
deployment: that the pack is consistent from some time on is the hypothesis of the
property itself.

`ingress` assumes that the event loop and the worker threads go on with every request
(`WF_vars(Work(r))`): ready callbacks are run, a fetch has a timeout of its own, and
a compilation ends. No timer is assumed to fire, so requests are settled without the
timeouts' help, and none is assumed not to. That a streamed response starts before
its tool ends is not assumed either.

`execution_graph` assumes that the function goes on executing (weak fairness of its
only thread of control).

Every property has a mutant: an operator beside the definition it replaces, marked
"Mutant of", under which TLC finds the property violated.

## 4. What is proved

`RunStoreProofs` proves, for any sets of threads, principals and runs, any bound
and any time to live, `TypeOK`, `OrderMatchesItems`, `Bounded`,
`FreshRunSurvives`, `ServesOwnLiveRuns` as invariants and `BurstIsolation` as an
action property. None of them is inductive. The invariant `IInv` adds

* `Exclusive`: a thread is inside the critical section exactly when it holds the
  lock; without it another thread's step could invalidate what a thread has
  checked;
* `FreshIds`: an id belongs to one `create()` and is not in the store before its
  insertion; without it the insertion could repeat an entry of the list;
* `FreshIsLast`: while `create()` trims, its run is the last of the list. With the
  lemma `VictimIsNotLast` (the last run of a list of two or more is never the
  victim: its owner would hold that run only, so everybody would hold at most one,
  and the first run would have been chosen) it gives `FreshRunSurvives`;
* `ClockOrder`: no call works with a time before it began, which turns "not
  expired when the loop ended" into "not expired when the call began".

It also proves `StoreImplementsRegistry`, that is `Spec =>
ImplementsRegistry`, for the same parameters: `IInv` and one lemma per action of the
store, each of which is a step of the registry or leaves its table, its calls and its
answers alone. `OnlyTheHolder` and `NoneInEffect` carry the argument: only the holder of
the lock can be between insertion and removal, so nobody else's step sees a create
that is half in effect. `SameVictim` says that the victim of the trimming loop is the
one the registry chooses, with the new run counted, and `ClockOrder` that a reply was
not due when its call began.

`SupersessionProofs` proves, for snapshots of any size and any references,
`OnlyGovernedBlocks`, `WeakerIsInert` and `RetiredByAStandingClaim`. Along an edge the rank never decreases,
hence not along a path (the set of claims of rank at least `r` is closed under the
edges, and `Reachable` is the least closed set), so all claims of a cycle have one
rank. A claim that is added can reach only claims no stronger than itself; paths
between stronger claims do not pass through it, and neither their cycles nor the
edges into them change. For a retirement (`SomeoneStands`) consider the claims off every
cycle from which the retired one is reachable, and among them one whose set of claims
above it is minimal. A claim off the cycles that retired it would be one of them and have
strictly fewer above it, itself being off the cycles; so nothing retires it. Minimality
needs a finite snapshot, which is the only thing `IInv` adds to the type and to
`outcome` being the resolution of `snapshot`.

`IngressProofs` proves, for any set of requests, any limit, deployments, issuers,
tokens and store bounds, the six safety properties of the `ingress` run. The
inductive invariant has a part for each component and parts that tie them together:

* `SemaphoreOK` is `QueueOK`, `PermitsConserved` and `NoLostWakeup`, which are inductive
  only together: `Charged` gains or loses exactly one request when `value` or the queue
  changes, and that needs a waiter to be in the queue once and never a holder. `WakeUp`
  has lemmas of its own (`Without` and the first pending waiter), since it is used by
  release, by a grant that came too late and by a waiter that goes on;
* `PlaceOK`: a request waits exactly while it is queued and holds a permit only
  inside;
* `VerifierOK`: with `RejectedForCause`, what a verification knows at each of its steps
  of the shared URI. `DiscoveryOK` carries it: of a sound issuer nobody ever stores an
  address that is not HTTPS, so what another thread writes between a check and the use
  cannot make a valid token fail;
* `VerificationOK`, `AdmittedOK`: a verification is of its own request's token, and a
  request at its tool was accepted by it. `RunsAreAttributed` follows with `StoreOK`, which
  says the same of the calls that the store has not carried out yet;
* `AnswerOK`: a request that has reached its tool is answered by the result or the timeout
  only. `RefusedLeavesNoRun` follows.

`CompileStagesProofs` proves, for any packs, kernels, requests and plans, all six
properties of the `compile_stages` run. The invariant says of each representation, from
the stage that makes it, that it is the function of its inputs the stage computes, and of
a bundle that every check before it held; inputs never change. The rest is about the
operators, in three arguments.

* `ObligationsConserved`, `UnknownsStayVisible`, `ArchitectureIsAnswered` and
  `TerminalCrossesConvergence` hold whatever the pack says. An obligation is carried by
  the steps of one phase (`KindPhase`) and the graph's phases are distinct, so it has at
  most one step, and the ladder found one. Its id is required and pending, so packet,
  handoff and validation have it. The architecture obligation is answered for because the
  packet check wants the Global Architect bound and its outputs declared, and the ladder
  each output produced by a step that invokes it. A plan of the planner keeps the order
  of `phase_order`, so P7 is its last phase when it is the last of `phase_order`.
* `OwnersRunTheirObligations` needs a pack that lists the owning kernels where the steps of
  their obligations are (`PlacesOwners`): the resolver has checked that a bound kernel is
  a file, so it is not one of the components that may own an obligation; a task kernel is
  then primary in P2, K01 in P1, the Global Architect in P3. Flawless Victory is the hard one,
  since its obligations go to the last step of a plan without P7: there the ladder
  would find it bound and invoked by no step. `OwnersRunUnderEveryPlan` says the
  same of handed-in plans.
* `CoherentPacksCompile` says that nothing is refused but a contradicted context, and that
  by the ladder, so every other check must be shown to pass. `PlansFit` is what the planner promises: distinct phases of the pipeline with
  P0 to P2 among them and P3 for a material change, P7 exactly if allowed, and every
  activated kernel listed by some planned phase, also after P7 and Flawless Victory are
  struck out. `OnlyContradictedRefused` then takes the stages in turn: owners are registered
  (`OwnersAccepted`), each kind has its step (`KindHasStep`), evidence is asked for exactly
  the required obligations (`EvidenceIsOfRequired`), and so on to the ladder.

The planner works on lists: it filters, deduplicates, flattens, inserts and removes. The
folds of the library are out of the prover's reach, so `Entries` writes a filtered list
as its places counted in order, and a section of lemmas says what that is for each of the
five operations. Their root is `PlacesInOrder`: numbering a finite set of positions from
below reaches each of them once, in order. It is by an induction over the natural numbers in set form
(`NumbersFollow`), since the library's induction theorems take an operator.

`ContextClosureProofs` proves, for snapshots, tasks, plans and budgets of any size, the
seven properties of the `context_closure` run. Four are about what a compilation leaves out:
`NoSilentLoss`, `MaterialityIsCarried`, `NoUnprovenPermission` and `KernelNeedsAreMet`. They
speak of the finished context; `IInv` says how it came about:

* `FromInput`, `Numbers`: the inputs are those of one compilation, and counts and costs are
  naturals, so that a stop is recorded by a witness that cannot be taken for `None`;
* `BoundAreEligible`: an item is selected for a requirement only if the requirement's own
  view has it as eligible;
* `Current`, of the requirement being served: its conflicts are on record, the keys and the
  count it has taken are of items bound to it, and if it wants everything eligible, what is
  not bound to it is still in `todo`; it leaves its pass with `todo` empty or with a stop;
* `Served`, of each requirement behind `turn`: its conflicts and cycles are on record
  (`Recorded`), one that wants everything has it or its stop is on record (`Complete`), and
  one that must say what it lacks is met or says so (`Answered`);
* `Said`: the doubts about capabilities and authorities are on record at the end.

Three groups of lemmas carry the rest. Of the planner (`PlanHoldsEntries`): sorting by
counting loses no entry, since places are distinct (`NeedsAssumption`) and a strict total
order on a finite set counts them 1 to n. Of supersession and conflict resolution: a claim
that does not stand is in a cycle on record, was superseded or is named by a claim of no
less authority (`RemovedForCause`); every candidate has a representative among its copies
(`SomeoneRepresents`), and a group without a conflict has a winner that outweighs it, by rank
or by precedence (`WinnerOutweighs`). Of kinds without rules of their own: what stands in a
view stands in a larger one whose further candidates are weaker (`WeakerCannotTopple`), and
facts under one key of no less authority than one that stands agree with it (`RivalsAgree`).

`NothingIsLostSilently` is `Served` with the lemmas on resolution. The proof asked for more
than the property first said: the rival that displaced a candidate was any under its key.
It now has to outweigh the candidate and to be bound by the requirement itself, and the run
has laws with declared precedence to make that a question. For `SignalsAreCarried`, discovery
saw the governed part of what the detailed requirement sees, so what it found is eligible
again (`WeakerCannotTopple`), and `Complete` says the rest. `PermissionsAreProven` follows a
disposition back to the facts it was read from, and from these, with `RivalsAgree`, to what
their requirement could see. `NeedsAreMetOrSaid` finds the entry of a need in the plan and
applies `Answered` to it.

The other three are about the validator: it accepts what the compiler makes
(`CompiledContextIsClosed`), and refuses it with a binding or a record less
(`DroppedItemIsNoticed`, `HiddenUnknownIsNoticed`). It counts and adds up, and takes a budget
stop only if the numbers of its record are those of the selection as it was then. `IInv`
says nothing of the sort, hence a second invariant, `Ledger`:

* `Totals`: the ids selected are those of the selected items, and the running total is what
  they cost, within the global budget;
* `InTurn`: no requirement behind the present one has selected anything, so that what was
  selected before a requirement's turn (`Earlier`) never changes after it, which is what the
  validator reconstructs from the reasons;
* `Serving`, of the requirement at its turn: the three counters are those of what it got, and
  what it still wants is what is still to be looked at;
* `Settled`, of each requirement served: what it got comes before all it did not get, within
  its ceilings (`Orderly`); it is met or has all there is and nothing is on record, or one
  record says what it lacks, and, if a bound stopped it, the numbers of that bound
  (`Stopped`);
* `Shaped`: there are no other records of a requirement than its contradictions and its one
  shortfall. Without it a hidden record might be made up for by a second one.

`BooksBalance` needs what sets of items cost (`CostAdds`, `CostOfPart`) and that the order of
selection is strict (`OrderIsStrict`). In `CompiledContextCloses`, what a requirement got is
then an initial part of its frontier, the item that stopped it the first one after it
(`FrontierHolds`, `LeaderIsFirst`), and the record is the one the validator computes
(`StoppedIsProven`). In `DropsAreNoticed` the first item of the frontier not taken is the one
that was dropped, and it did fit: with it, all bounds were kept, so no witness of a bound
passes, whatever its numbers (`NotReached`). Of `CompiledContextIsClosed` the proof showed
that it was too strong as it first stood: that a requirement for unverified repository facts
ends in a refusal was a case no instance had reached (see 5).

`PlanBindingProofs` proves, for any number of hosts, any files, manifests, contents
and routing function and any number of writes, `TypeOK`, `VerifiedFromOneManifest`,
`PlanBound` and `RoutedAsRecorded` as invariants and `NoSpuriousReplan` as an action
property. The invariant `IInv` describes a call at each of its points:

* `LoadOK`: a verified call holds the entries of an installed manifest, although the
  manifest on disk may have changed since; an unverified one carries the label;
* `ReadOK`: every source read so far agrees with the entries and parses, the kernels are
  those that rules, pipeline and discovery select, and what was read together with what is
  queued is exactly what they need. Type correctness already rests on it: routing
  must never see rules that were not read;
* `EpochOK`: a call that began after the last write has read what is on disk now. It
  is what makes two calls without a write between them read the same bytes;
* `PlanOK`: the same for the plan a host holds, with its identity;
* `BundleOK`: the three promises about a finished compile.

Each action has a lemma for the caller that takes it; `CallFrame` and `SameKeeps`
deal with all other callers, `DeployKeeps` with the writes. For `NoSpuriousReplan`,
suppose no write and the same discovery: plan and compile read the same rules and
pipeline, so the same kernels are needed, so the same paths were read, with the same
bytes, and the identities are equal.

It also proves `PlanBindingImplementsService`, that is `Spec => ImplementsPackService`, for
the same parameters, with one lemma per visible action. By `ReadyIsAnswer` what a prepared
call has in hand is the answer of `PackService` from one release: the sources agree with the
entries wherever they were read, and exactly the sources that the answer needs were read
(`ReadOK`). By `IdStandsForAnswer` comparing identities is comparing whole answers
(`PlanOK`), so a compile replies, refuses or demands a new plan exactly when the service
does. All other reads are stutters (`HiddenStep`), and every exception is `Fail`.

`ExecutionGraphProofs` proves `OrderRespectsEdges` for every graph, whatever its size,
cycles, repeated ids or dangling edges. `GraphInv` adds that ids waiting to be seeded
have no predecessors, that a predecessor not yet popped is still in the incoming set
(`UnpoppedAreIncoming`), and hence that all predecessors of a node in the deque have
been popped (`ReadyAreFree`). A node popped is therefore behind all of them.

`ValidatorIsExact` and `ChainKeepsStepOrder` are about nodes that are not in the order,
of which the order says nothing. `VerdictInv` adds that no node is forgotten: an incoming
set loses a popped predecessor at its turn and not later (`PoppedAreGone`), and a node
whose set is empty is queued or popped (`EmptyAreQueued`); and that without repeated ids no
node is queued twice, because a successor still has the node being released in its set
while whatever is queued has an empty one (`NoRepeats`, `QueuedAreEmpty`). When the deque
is empty, a node left out thus waits for another node left out, and in an acyclic graph
the least one in a numbering along the edges would not. Conversely the positions in a
complete order are such a numbering. In a chain, the first place where order and
chain differ would hold a node whose predecessor comes later.

`TerminalGateProofs` proves `ConvergedReceiptIsClosed` and the action property
`ConvergesOnEvidence` for any obligations, properties, dispositions and statuses. The
receipt is not made of what the gate saw, so the invariant carries what a converged
report vouched for (`ReportHolds`) through the executor's steps: nothing required was
pending then, and an obligation is disposed of once.

Assumptions: bounds are naturals (the entry bound and the time to live positive),
`None` is not a thread, principal or run, ids are naturals and no domain is an id;
the paths of a pack are distinct, manifests map them to contents, `None` is no
content, plan, bundle or answer, the label of an unverified root is no manifest, and routing yields a
sequence of kernels; graphs have sequences of naturals as ids and pairs of naturals
as edges; every request is a thread of its own to the verifier (`asyncio.to_thread`);
the shipped pack is one of the packs, is coherent and places its owners, `phase_order` is a
list of strings, a mission has a score for every route and the compiled context no two
unknowns with one id (`task_context.py:1105` indexes them by it); properties bind required obligations and the executor records legal
dispositions only, which the validation of the artifact models enforces; snapshots and
kernel needs are finite, requirements are legal (`_validate_requirement`), item ids are
distinct, candidates with one kind, key and claim agree in precedence and state
(`claim_payload` holds both), facts about one capability and only those have one key
(`CapabilityFact.expected_semantic_key`), memory is never governed
(`MemoryContext._authority_ceiling`), and needs of one kind at one place of the plan have one
signature: they are one requirement, whose id the place stands for.
TLC evaluates all of them in the runs above.

Only model-checked is liveness (`LockReleased`, `EveryRequestSettles`, `HostsAreServed`,
`Terminates`), which the prover cannot treat. Every other property of a passing run is
the conclusion of a theorem.

Each inductive invariant was checked by TLC on the instance of its run before it was
proved. `TypeOK` of `RunStore` and of `PlanBinding`, `FreshRunSurvives` and `RoutedAsRecorded` (part
of what `ImplementsPackService` says) are proved and no
longer checked by a run.

## 5. Findings

1. Order dependence (`order_independent`). One item supplied at two authority
   levels passes validation, since the item id does not cover the level. The
   supersession index keeps the copy that comes last in the input, and its level
   decides whether the item may retire another claim. INVARIANTS.md:180 demands
   order independence.
2. Self-reference (`only_other_domains`). INVARIANTS.md:178 allows supersession
   only between different domain identifiers. The code excludes references to
   one's own domain by name, but a reference by item id within the domain counts.
3. Truncation (`truncation_is_recorded`). INVARIANTS.md:285 wants every budget
   truncation recorded. A `semantic_keys` requirement that has an item under each
   of its keys is satisfied, and a bound that stops it before further eligible
   items under those keys leaves no record.
4. Recorded manifest (`recorded_manifest`). `load()` verifies the entries of the
   manifest it read first and records the digest of the file it reads afterwards.
   A manifest installed in between is bound by plans and reported as the verified
   one (docs/CONTEXT_PLANNING_BRIDGE.md:39). `VerifiedFromOneManifest` shows that the
   sources themselves still come from one manifest.

Met while modelling the compile stages, and not stated as properties:

* The comment at `activation.py:117` says that the Global Architect activates from
  materiality. A route with P3 of its own (`l9_engine_build`,
  `architecture_boundary`) activates it with no trigger.
* The comment at `activation.py:166` says that P2's kernels come from the route. The
  execution compiler puts every bound primary kernel of P2 on its step, so the auditor
  that P0 activates is invoked in P2 as well.
* Packets promise a receipt with `validation_summary` and `generated_at`
  (`packet.py:40`); `convergence_receipt` returns neither.
* Kernels are compared by file stem in the ladder (`liveness.py:94`); the shipped
  stems are distinct.
* `PROP.OBL.CONVERGENCE` names the gate as its evaluator (`validation.py:55`), and the
  gate converges only when that property is already recorded as passed. Who records it
  is left to the executor, here as in the code.

* Check 21 of the ladder is named for a conflict that is "silently selected". In the case
  described under "From the activation plan to the bundle" discovery has reported the
  conflict, the requirement that selects the fact sees no conflict, and closure has accepted
  the context; the compile is refused all the same.

Met while modelling the server:

* `_client()` checks `_jwks_uri` and then reads it again to make the client, without a
  lock. All writers store what the issuer publishes, so a race can only replace one
  published URI by another. A URI that is not HTTPS stays until the process restarts.
* `verify_token` falls back to the subject when a token names no client
  (`client_id or str(subject)`), whereas the comment on `_client_id_from_claims` says
  that the subject is deliberately not a fallback. The model follows the code.
* The concurrency limit bounds requests up to the start of their response.
* A request answered 504 may still create a run. It has its proper owner, but its id was
  not sent to anyone.

Met while modelling the context planner and the dispositions:

* The planner's own capability requirement is global. A governed fact that a capability
  is unavailable in the task's scope is seen only when a kernel needs a capability.
  Then, if the capability is available globally, both facts are selected and
  closure refuses the compile. This is `CapabilityIsTorn`, one of the two exceptions
  named in `CompiledContextIsClosed`.
* A kernel may declare a need for repository facts with `minimum_authority: unverified`
  (`_parse_context_needs` lets it pass). The compiler then selects unverified facts, and
  closure, which never accepts these (`context_closure.py:187`), refuses the compile. This
  is `UnverifiedWasAsked`, the other one.
* An optional kernel need with coverage `minimum` compiles to `min_items = 0` and
  selects nothing.
* An informative law with a better declared precedence displaces a governed law under
  the same key, since precedence is compared before authority.

## 6. Not modelled

* Providers and adapters between external and internal records, artifact models and
  codecs (field by field validation and canonical serialization), input parsing (word
  lists and text), rendering: functions of their input with no state, whose content is text.
* The command line and the deployment checks; the validators that CI runs over the
  repository's own files, and the profile loader.
* The effective authority order, the provenance record of a compiled context, and the
  closure checks about them (3, 5 and part of 2): they compare digests of fields
  that the model does not keep.
* A clock that is set back under the run store, and a truncated requirement whose
  selection has an item swapped for one behind the first item not taken: closure
  looks at that first item only (`context_closure.py:560`). No property covers either.

## 7. Plan

Modelled and checked: run store with its abstract specification, server, supersession,
context planning, compilation and closure, the plan and compile handshake with its abstract
specification, the compile stages, the graph and the terminal gate. Next, in this order:

1. The effective authority order and the provenance checks of closure.

----------------------------- MODULE PlanBinding -----------------------------
(***************************************************************************)
(* Planning and compiling over a runtime pack that may change on disk:     *)
(* pack/loader.py, service.py and the semantic prefix of                   *)
(* compiler/pipeline.py with compiler/kernels.py.                          *)
(*                                                                         *)
(* Every call of the service loads the pack anew: it reads MANIFEST.json,  *)
(* hashes every listed file, and reads MANIFEST.json once more for its own *)
(* digest.  Then each semantic source (routing rules, pipeline, activated  *)
(* kernels) is read once, through the digests of that load.  A deployment  *)
(* may write any file between any two of these reads.  PLAN returns an     *)
(* identity of everything it used; COMPILE may be bound to it and answers  *)
(* "replan required" when its own computation gives another identity.      *)
(*                                                                         *)
(* A file's content stands for its digest as well (SHA-256 is taken to be  *)
(* injective), and a manifest maps paths to contents.                      *)
(***************************************************************************)
EXTENDS Naturals, Sequences

CONSTANTS
  Callers,        \* outer hosts, each with one request of its own
  Kernels,        \* paths of kernels
  RULES_REL,      \* path of the routing rules
  PIPELINE_REL,   \* path of the pipeline definition
  Contents,       \* what a file may hold
  Malformed,      \* the contents that do not parse
  Manifests,      \* the manifests a deployment may install
  Items,          \* context items a host may supply
  Eligible,       \* those that discovery may route from
  Activate(_, _, _), \* ActivationPlanner.plan: the kernels for rules, pipeline, discovery
  MaxWrites,      \* bound on the writes of the deployment
  Unverified,     \* UNVERIFIED_ROOT_MANIFEST
  None            \* an absent file, an unlisted path, no plan, no bundle

Paths == Kernels \cup {RULES_REL, PIPELINE_REL}
Files == [Paths -> Contents \cup {None}]

ASSUME PathsAssumption ==
  RULES_REL # PIPELINE_REL /\ Kernels \cap {RULES_REL, PIPELINE_REL} = {}
ASSUME ManifestsAssumption == Manifests \subseteq Files
ASSUME MalformedAssumption == Malformed \subseteq Contents
ASSUME EligibleAssumption == Eligible \subseteq Items
ASSUME MaxWritesAssumption == MaxWrites \in Nat
ASSUME ActivateAssumption ==
  \A r, p \in Contents, d \in SUBSET Eligible : Activate(r, p, d) \in Seq(Kernels)

VARIABLES
  disk,       \* the files of the pack
  manifest,   \* MANIFEST.json
  writes,     \* number of writes so far
  published,  \* every manifest that has been on disk (history)
  pc,         \* where each caller's call is
  op,         \* what it was called for
  begun,      \* the number of writes when it began
  entries,    \* provenance.file_digests
  unchecked,  \* the listed paths that load() has not verified yet
  digest,     \* provenance.manifest_digest
  sources,    \* the bytes that were read
  kernels,    \* activation.active_kernels
  queue,      \* the kernels still to be bound
  snapshot,   \* the governed items the host has gathered
  plan,       \* the plan the host holds
  bundle,     \* what the last finished compile returned
  status      \* how the last call ended

disks == <<disk, manifest, writes, published>>
loads == <<entries, unchecked, digest>>
reads == <<sources, kernels, queue>>
hosts == <<snapshot, plan>>
replies == <<bundle, status>>
vars == <<disks, pc, op, begun, loads, reads, hosts, replies>>

Ops == {"plan", "compile", "root"}
PcValues == {"idle", "manifest", "verify", "rules", "pipeline", "kernels"}
Statuses == {"none", "plan", "bundle", "replan", "refused", "failed"}
NoFiles == [p \in Paths |-> None]

\* ContextDiscoveryCompiler: what the eligible part of a snapshot determines.
Discover(s) == s \cap Eligible

\* ContextPlan without the parts that a caller's request and the others determine.
PlanIds == [discovery : SUBSET Items, sources : Files, manifest : Files \cup {Unverified}]
Plans == [id : PlanIds, begun : Nat, discovery : SUBSET Eligible, sources : Files, kernels : Seq(Kernels)]
Bundles == [bound : Plans \cup {None}, discovery : SUBSET Eligible, sources : Files,
            kernels : Seq(Kernels), entries : Files, manifest : Files \cup {Unverified}]

\* What a host is told of a plan or of a compile.
Answers == [discovery : SUBSET Eligible, sources : Files, kernels : Seq(Kernels),
            label : Files \cup {Unverified}]

ASSUME NoneAssumption == None \notin Contents
ASSUME NoPlanAssumption == None \notin Plans /\ None \notin Bundles /\ None \notin Answers
ASSUME UnverifiedAssumption == Unverified \notin Files

Active(ks) == {ks[i] : i \in DOMAIN ks}

TypeOK ==
  /\ disk \in Files
  /\ manifest \in Manifests
  /\ writes \in 0 .. MaxWrites
  /\ published \subseteq Manifests
  /\ pc \in [Callers -> PcValues]
  /\ op \in [Callers -> Ops]
  /\ begun \in [Callers -> Nat]
  /\ entries \in [Callers -> Files]
  /\ unchecked \in [Callers -> SUBSET Paths]
  /\ digest \in [Callers -> Files \cup {Unverified}]
  /\ sources \in [Callers -> Files]
  /\ kernels \in [Callers -> Seq(Kernels)]
  /\ queue \in [Callers -> Seq(Kernels)]
  /\ snapshot \in [Callers -> SUBSET Items]
  /\ plan \in [Callers -> Plans \cup {None}]
  /\ bundle \in [Callers -> Bundles \cup {None}]
  /\ status \in [Callers -> Statuses]

\* A complete and consistent release: all that a compile needs is listed and intact.
Consistent ==
  \A p \in Paths : manifest[p] \in Contents \ Malformed /\ disk[p] = manifest[p]

Init ==
  /\ manifest \in Manifests
  /\ disk = manifest
  /\ Consistent
  /\ writes = 0
  /\ published = {manifest}
  /\ pc = [c \in Callers |-> "idle"]
  /\ op = [c \in Callers |-> "plan"]
  /\ begun = [c \in Callers |-> 0]
  /\ entries = [c \in Callers |-> NoFiles]
  /\ unchecked = [c \in Callers |-> {}]
  /\ digest = [c \in Callers |-> Unverified]
  /\ sources = [c \in Callers |-> NoFiles]
  /\ kernels = [c \in Callers |-> <<>>]
  /\ queue = [c \in Callers |-> <<>>]
  /\ snapshot = [c \in Callers |-> {}]
  /\ plan = [c \in Callers |-> None]
  /\ bundle = [c \in Callers |-> None]
  /\ status = [c \in Callers |-> "none"]

-----------------------------------------------------------------------------
(* The deployment. *)

\* A file of the pack is replaced or removed.
WriteFile(p, content) ==
  /\ writes < MaxWrites
  /\ content # disk[p]
  /\ disk' = [disk EXCEPT ![p] = content]
  /\ writes' = writes + 1
  /\ UNCHANGED <<manifest, published, pc, op, begun, loads, reads, hosts, replies>>

\* MANIFEST.json is replaced.
WriteManifest(m) ==
  /\ writes < MaxWrites
  /\ m # manifest
  /\ manifest' = m
  /\ published' = published \cup {m}
  /\ writes' = writes + 1
  /\ UNCHANGED <<disk, pc, op, begun, loads, reads, hosts, replies>>

-----------------------------------------------------------------------------
(* Calls. *)

\* A call starts with nothing read.  The two operations of the service load the pack;
\* compile_from_root() goes straight to the sources, and labels what it returns.
Begin(c, o) ==
  /\ pc[c] = "idle"
  /\ op' = [op EXCEPT ![c] = o]
  /\ begun' = [begun EXCEPT ![c] = writes]
  /\ pc' = [pc EXCEPT ![c] = IF o = "root" THEN "rules" ELSE "manifest"]
  /\ entries' = [entries EXCEPT ![c] = NoFiles]
  /\ unchecked' = [unchecked EXCEPT ![c] = {}]
  /\ digest' = [digest EXCEPT ![c] = Unverified]
  /\ sources' = [sources EXCEPT ![c] = NoFiles]
  /\ kernels' = [kernels EXCEPT ![c] = <<>>]
  /\ queue' = [queue EXCEPT ![c] = <<>>]
  /\ bundle' = [bundle EXCEPT ![c] = None]
  /\ UNCHANGED <<disks, status>>

\* plan_context() with the discovery snapshot gathered so far.
BeginPlan(c) ==
  /\ plan[c] = None
  /\ Begin(c, "plan")
  /\ UNCHANGED hosts

\* compile_runtime(): a host that holds a plan fulfils it and binds the compile to it;
\* one that holds none compiles unbound.
BeginCompile(c, more) ==
  /\ Begin(c, "compile")
  /\ snapshot' = [snapshot EXCEPT ![c] = @ \cup more]
  /\ UNCHANGED plan

\* compile_from_root(): a bare repository root, without a manifest.
BeginRoot(c) ==
  /\ plan[c] = None
  /\ Begin(c, "root")
  /\ UNCHANGED hosts

\* An exception ends the call; the host keeps its plan and may call again.
Raise(c) ==
  /\ pc' = [pc EXCEPT ![c] = "idle"]
  /\ status' = [status EXCEPT ![c] = "failed"]
  /\ UNCHANGED <<disks, op, begun, loads, reads, hosts, bundle>>

\* load(): the entries of the manifest.
ReadManifest(c) ==
  /\ pc[c] = "manifest"
  /\ entries' = [entries EXCEPT ![c] = manifest]
  /\ unchecked' = [unchecked EXCEPT ![c] = {p \in Paths : manifest[p] # None}]
  /\ pc' = [pc EXCEPT ![c] = "verify"]
  /\ UNCHANGED <<disks, op, begun, digest, reads, hosts, replies>>

\* load(): one listed file is hashed; a missing or different file raises.
VerifyFile(c, p) ==
  /\ pc[c] = "verify"
  /\ p \in unchecked[c]
  /\ \/ /\ disk[p] = entries[c][p]
        /\ unchecked' = [unchecked EXCEPT ![c] = @ \ {p}]
        /\ UNCHANGED <<disks, pc, op, begun, entries, digest, reads, hosts, replies>>
     \/ /\ disk[p] # entries[c][p]
        /\ Raise(c)

\* load(): the manifest is read a second time, for its own digest.
ReadDigest(c) ==
  /\ pc[c] = "verify"
  /\ unchecked[c] = {}
  /\ digest' = [digest EXCEPT ![c] = manifest]
  /\ pc' = [pc EXCEPT ![c] = "rules"]
  /\ UNCHANGED <<disks, op, begun, entries, unchecked, reads, hosts, replies>>

\* Mutant of Readable: the bytes are not compared with the digests of the load.
ReadableUnchecked(c, p) == disk[p] # None

\* _read_source(), read_verified(): the file is there and, unless the root is
\* unverified, holds exactly what the load verified.
Readable(c, p) ==
  /\ disk[p] # None
  /\ op[c] # "root" => disk[p] = entries[c][p]

\* The routing rules are read first.
ReadRules(c) ==
  /\ pc[c] = "rules"
  /\ \/ /\ Readable(c, RULES_REL)
        /\ sources' = [sources EXCEPT ![c][RULES_REL] = disk[RULES_REL]]
        /\ pc' = [pc EXCEPT ![c] = "pipeline"]
        /\ UNCHANGED <<disks, op, begun, loads, kernels, queue, hosts, replies>>
     \/ ~ Readable(c, RULES_REL) /\ Raise(c)

\* Mutant of Routed: the planner opens the rules again instead of using the bytes read.
RoutedAfresh(c, pipeline) == Activate(disk[RULES_REL], pipeline, Discover(snapshot[c]))

\* ActivationPlanner.plan() on the bytes that were read and the discovery.
Routed(c, pipeline) == Activate(sources[c][RULES_REL], pipeline, Discover(snapshot[c]))

\* The pipeline definition is read; both are parsed, and the kernels selected.
ReadPipeline(c) ==
  /\ pc[c] = "pipeline"
  /\ \/ /\ Readable(c, PIPELINE_REL)
        /\ {sources[c][RULES_REL], disk[PIPELINE_REL]} \cap Malformed = {}
        /\ sources' = [sources EXCEPT ![c][PIPELINE_REL] = disk[PIPELINE_REL]]
        /\ kernels' = [kernels EXCEPT ![c] = Routed(c, disk[PIPELINE_REL])]
        /\ queue' = [queue EXCEPT ![c] = Routed(c, disk[PIPELINE_REL])]
        /\ pc' = [pc EXCEPT ![c] = "kernels"]
        /\ UNCHANGED <<disks, op, begun, loads, hosts, replies>>
     \/ /\ \/ ~ Readable(c, PIPELINE_REL)
           \/ {sources[c][RULES_REL], disk[PIPELINE_REL]} \cap Malformed # {}
        /\ Raise(c)

\* KernelResolver.resolve(): the next kernel; one that is bound already is passed over,
\* but it must still be a file.
ReadKernel(c) ==
  /\ pc[c] = "kernels"
  /\ queue[c] # <<>>
  /\ LET k == Head(queue[c])
         bound == sources[c][k] # None
     IN  \/ /\ IF bound THEN disk[k] # None ELSE Readable(c, k) /\ disk[k] \notin Malformed
            /\ sources' = IF bound THEN sources ELSE [sources EXCEPT ![c][k] = disk[k]]
            /\ queue' = [queue EXCEPT ![c] = Tail(@)]
            /\ UNCHANGED <<disks, pc, op, begun, loads, kernels, hosts, replies>>
         \/ /\ IF bound THEN disk[k] = None ELSE ~ Readable(c, k) \/ disk[k] \in Malformed
            /\ Raise(c)

Prepared(c) == pc[c] = "kernels" /\ queue[c] = <<>>

\* Mutant of PlanId: the manifest's digest is trusted to determine the plan.
PlanIdByManifest(c) == [discovery |-> {}, sources |-> NoFiles, manifest |-> digest[c]]

\* Mutant of PlanId: the whole snapshot is bound, not what discovery made of it.
PlanIdBySnapshot(c) ==
  [discovery |-> snapshot[c], sources |-> sources[c], manifest |-> digest[c]]

\* Mutant of PlanId: the identity depends on the operation that computes it.
PlanIdByOperation(c) ==
  [discovery |-> Discover(snapshot[c]), sources |-> sources[c],
   manifest |-> IF op[c] = "plan" THEN Unverified ELSE digest[c]]

\* ContextPlan._derive_identity.
PlanId(c) ==
  [discovery |-> Discover(snapshot[c]), sources |-> sources[c], manifest |-> digest[c]]

\* plan_context() returns the plan.
FinishPlan(c) ==
  /\ Prepared(c)
  /\ op[c] = "plan"
  /\ plan' = [plan EXCEPT ![c] =
       [id |-> PlanId(c), begun |-> begun[c], discovery |-> Discover(snapshot[c]),
        sources |-> sources[c], kernels |-> kernels[c]]]
  /\ status' = [status EXCEPT ![c] = "plan"]
  /\ pc' = [pc EXCEPT ![c] = "idle"]
  /\ UNCHANGED <<disks, op, begun, loads, reads, snapshot, bundle>>

\* The compile finds that the plan it is bound to no longer holds.
Replan(c) ==
  /\ Prepared(c)
  /\ op[c] # "plan"
  /\ plan[c] # None
  /\ PlanId(c) # plan[c].id
  /\ plan' = [plan EXCEPT ![c] = None]
  /\ status' = [status EXCEPT ![c] = "replan"]
  /\ pc' = [pc EXCEPT ![c] = "idle"]
  /\ UNCHANGED <<disks, op, begun, loads, reads, snapshot, bundle>>

\* The compile returns its bundle, with the plan it was bound to.  The stages after the
\* plan read no files; they may also raise (Refuse).
FinishCompile(c) ==
  /\ Prepared(c)
  /\ op[c] # "plan"
  /\ plan[c] # None => PlanId(c) = plan[c].id
  /\ bundle' = [bundle EXCEPT ![c] =
       [bound |-> plan[c], discovery |-> Discover(snapshot[c]), sources |-> sources[c],
        kernels |-> kernels[c], entries |-> entries[c], manifest |-> digest[c]]]
  /\ status' = [status EXCEPT ![c] = "bundle"]
  /\ plan' = [plan EXCEPT ![c] = None]
  /\ pc' = [pc EXCEPT ![c] = "idle"]
  /\ UNCHANGED <<disks, op, begun, loads, reads, snapshot>>

\* A stage after the plan (closure, conservation, packet, liveness) raises.
Refuse(c) ==
  /\ Prepared(c)
  /\ op[c] # "plan"
  /\ plan[c] # None => PlanId(c) = plan[c].id
  /\ status' = [status EXCEPT ![c] = "refused"]
  /\ pc' = [pc EXCEPT ![c] = "idle"]
  /\ UNCHANGED <<disks, op, begun, loads, reads, hosts, bundle>>

Deploy ==
  \/ \E p \in Paths, content \in Contents \cup {None} : WriteFile(p, content)
  \/ \E m \in Manifests : WriteManifest(m)

Call(c) ==
  \/ BeginPlan(c)
  \/ \E more \in SUBSET Items : BeginCompile(c, more)
  \/ BeginRoot(c)
  \/ ReadManifest(c)
  \/ \E p \in Paths : VerifyFile(c, p)
  \/ ReadDigest(c)
  \/ ReadRules(c)
  \/ ReadPipeline(c)
  \/ ReadKernel(c)
  \/ FinishPlan(c)
  \/ Replan(c)
  \/ FinishCompile(c)
  \/ Refuse(c)

Next == Deploy \/ \E c \in Callers : Call(c)

Spec == Init /\ [][Next]_vars

\* A host that has begun goes on calling; nothing is assumed of the deployment.
FairSpec == Spec /\ \A c \in Callers : WF_vars(Call(c))

-----------------------------------------------------------------------------
(* Properties. *)

\* A bundle that claims a verified pack was compiled from one manifest: there is a single
\* manifest that was installed at some time and lists exactly the bytes of every source
\* used, however the deployment interleaved with load() and read_verified().
VerifiedFromOneManifest ==
  \A c \in Callers : bundle[c] # None =>
    \/ bundle[c].manifest = Unverified
    \/ \E m \in published : \A p \in Paths : bundle[c].sources[p] \in {None, m[p]}

\* A compile bound to a plan used the discovery, the sources and the kernels the plan was
\* made from, although it loaded the pack and read every file again (the comparison of
\* expected_context_plan_id in _compile()).
PlanBound ==
  \A c \in Callers : bundle[c] # None /\ bundle[c].bound # None =>
    /\ bundle[c].discovery = bundle[c].bound.discovery
    /\ bundle[c].sources = bundle[c].bound.sources
    /\ bundle[c].kernels = bundle[c].bound.kernels

\* The sources a bundle records are the ones that selected its kernels, also when the root
\* is unverified, and they contain every one of those kernels and nothing else: a file is
\* read once, and parsed and digested from the same bytes (_prepare_context_plan()).
RoutedAsRecorded ==
  \A c \in Callers : bundle[c] # None =>
    LET b == bundle[c] IN
      /\ b.kernels = Activate(b.sources[RULES_REL], b.sources[PIPELINE_REL], b.discovery)
      /\ {p \in Paths : b.sources[p] # None} = {RULES_REL, PIPELINE_REL} \cup Active(b.kernels)

\* What a plan and a bundle tell the host.
Told(a, manifestLabel) ==
  [discovery |-> a.discovery, sources |-> a.sources, kernels |-> a.kernels, label |-> manifestLabel]

PlanTold(a) == IF a = None THEN None ELSE Told(a, a.id.manifest)

BundleTold(b) ==
  IF b = None THEN None ELSE [bound |-> PlanTold(b.bound), answer |-> Told(b, b.manifest)]

\* Reading the files of the pack is not visible to the host.
Visible(at) ==
  CASE at = "manifest" -> "take"
    [] at = "verify" -> "label"
    [] at \in {"rules", "pipeline", "kernels"} -> "answer"
    [] OTHER -> "idle"

Phases == [c \in Callers |-> Visible(pc[c])]
PlansTold == [c \in Callers |-> PlanTold(plan[c])]
BundlesTold == [c \in Callers |-> BundleTold(bundle[c])]

Service == INSTANCE PackService WITH
  installed <- manifest, phase <- Phases, used <- entries, label <- digest,
  plan <- PlansTold, bundle <- BundlesTold

\* Every plan and every bundle is what one atomic call would have answered: a function of
\* the manifest that was installed at the instant load() read it and of the snapshot,
\* although the manifest is read twice, every source is hashed and read again, and the
\* deployment may write between any two reads (load(), _prepare_context_plan()).  A bare
\* root has no manifest, but its answer, too, is a function of one set of sources.
ImplementsPackService == Service!Spec

\* "Replan required" is never spurious: when it is answered, the pack was written to since
\* the plan began or the host's additions changed the discovery.
NoSpuriousReplan ==
  [][\A c \in Callers : Replan(c) =>
       \/ writes # plan[c].begun
       \/ Discover(snapshot[c]) # plan[c].discovery]_vars

\* A host that plans, fulfils, compiles and replans has its compile judged on its merits
\* again and again, once the pack stays consistent: the additions that change discovery,
\* and with them the plan's identity, run out.
HostsAreServed ==
  <>[]Consistent => \A c \in Callers : []<>(status[c] \in {"bundle", "refused"})

\* docs/CONTEXT_PLANNING_BRIDGE.md: the plan binds the "verified runtime-pack manifest
\* digest".  The digest that load() records is that of the manifest it verified.
RecordedManifestIsVerified ==
  \A c \in Callers : bundle[c] # None =>
    bundle[c].manifest \in {Unverified, bundle[c].entries}
=============================================================================

-------------------------- MODULE PlanBindingProofs --------------------------
(***************************************************************************)
(* Theorems about planning and compiling over a pack that changes on disk, *)
(* for any number of callers, any files, any manifests and any number of   *)
(* writes.                                                                 *)
(***************************************************************************)
EXTENDS PlanBinding, TLAPS

\* A sequence is its head and the rest.
LEMMA ActiveHeadTail ==
  ASSUME NEW S, NEW q \in Seq(S), q # <<>>
  PROVE  /\ Head(q) \in S
         /\ Tail(q) \in Seq(S)
         /\ Active(q) = {Head(q)} \cup Active(Tail(q))
<1>1. Head(q) \in S /\ Tail(q) \in Seq(S)
  OBVIOUS
<1>2. Len(q) \in Nat /\ Len(q) > 0 /\ DOMAIN q = 1 .. Len(q)
  OBVIOUS
<1>3. Len(Tail(q)) = Len(q) - 1 /\ DOMAIN Tail(q) = 1 .. Len(q) - 1
  BY <1>1, <1>2
<1>4. \A i \in 1 .. Len(q) - 1 : Tail(q)[i] = q[i + 1]
  BY <1>2, <1>3
<1>5. Head(q) = q[1]
  BY <1>2
<1>6. ASSUME NEW x \in Active(q) PROVE x \in {Head(q)} \cup Active(Tail(q))
  <2>1. PICK i \in 1 .. Len(q) : x = q[i]
    BY <1>2, <1>6 DEF Active
  <2>2. CASE i = 1
    BY <2>1, <2>2, <1>5
  <2>3. CASE i # 1
    <3>1. i - 1 \in 1 .. Len(q) - 1 /\ q[i] = Tail(q)[i - 1]
      BY <2>1, <2>3, <1>2, <1>4
    <3> QED
      BY <3>1, <2>1, <1>3 DEF Active
  <2> QED
    BY <2>2, <2>3
<1>7. ASSUME NEW x \in {Head(q)} \cup Active(Tail(q)) PROVE x \in Active(q)
  <2>1. CASE x = Head(q)
    BY <2>1, <1>2, <1>5 DEF Active
  <2>2. CASE x \in Active(Tail(q))
    <3>1. PICK i \in 1 .. Len(q) - 1 : x = Tail(q)[i]
      BY <2>2, <1>3 DEF Active
    <3>2. i + 1 \in 1 .. Len(q) /\ x = q[i + 1]
      BY <3>1, <1>2, <1>4
    <3> QED
      BY <3>2, <1>2 DEF Active
  <2> QED
    BY <1>7, <2>1, <2>2
<1> QED
  BY <1>1, <1>6, <1>7

-----------------------------------------------------------------------------
(* Type correctness. *)

\* Discovery selects from the eligible items.
LEMMA DiscoverType == ASSUME NEW s PROVE Discover(s) \in SUBSET Eligible
BY DEF Discover

\* Nothing read is a tree of files too.
LEMMA NoFilesType == NoFiles \in Files
BY DEF NoFiles, Files

\* Reading and writing one path of a tree of files.
LEMMA FilesAt ==
  ASSUME NEW f \in Files, NEW p \in Paths, NEW v \in Contents \cup {None}
  PROVE  f[p] \in Contents \cup {None} /\ [f EXCEPT ![p] = v] \in Files
BY DEF Files

\* The paths of a pack.
LEMMA PathsHas == RULES_REL \in Paths /\ PIPELINE_REL \in Paths /\ Kernels \subseteq Paths
BY DEF Paths

\* Recording what is on disk keeps the type of the sources.
LEMMA ReadType ==
  ASSUME TypeOK, NEW c \in Callers, NEW p \in Paths
  PROVE  [sources EXCEPT ![c][p] = disk[p]] \in [Callers -> Files]
<1>1. disk[p] \in Contents \cup {None}
  BY FilesAt DEF TypeOK
<1>2. [sources[c] EXCEPT ![p] = disk[p]] \in Files
  BY <1>1, FilesAt DEF TypeOK
<1> QED
  BY <1>2 DEF TypeOK

\* The initial state is well typed.
LEMMA TypeInit == Init => TypeOK
<1> SUFFICES ASSUME Init PROVE TypeOK
  OBVIOUS
<1>1. manifest \in Files
  BY ManifestsAssumption DEF Init
<1>2. writes \in 0 .. MaxWrites
  BY MaxWritesAssumption DEF Init
<1> QED
  BY <1>1, <1>2, NoFilesType DEF Init, TypeOK, Ops, PcValues, Statuses

\* So is the state in which a call has begun,
LEMMA TypeBegin ==
  ASSUME TypeOK, NEW c \in Callers, NEW o \in Ops, Begin(c, o),
         snapshot' \in [Callers -> SUBSET Items], plan' = plan
  PROVE  TypeOK'
<1>1. begun' \in [Callers -> Nat]
  BY MaxWritesAssumption DEF TypeOK, Begin
<1> QED
  BY <1>1, NoFilesType DEF TypeOK, Begin, Ops, PcValues, disks

\* and the one in which it was ended by an exception.
LEMMA TypeRaise ==
  ASSUME TypeOK, NEW c \in Callers, Raise(c)
  PROVE  TypeOK'
BY DEF TypeOK, Raise, PcValues, Statuses, disks, loads, reads, hosts

\* A call that has gone past the routing rules has read them.
RulesRead ==
  \A c \in Callers : pc[c] \in {"pipeline", "kernels"} => sources[c][RULES_REL] # None

\* Every step keeps the types, given that routing only sees rules that were read.
LEMMA TypeNext == TypeOK /\ RulesRead /\ [Next]_vars => TypeOK'
<1> SUFFICES ASSUME TypeOK, RulesRead, [Next]_vars PROVE TypeOK'
  OBVIOUS
<1>1. ASSUME NEW p \in Paths, NEW content \in Contents \cup {None}, WriteFile(p, content)
      PROVE  TypeOK'
  <2>1. disk' \in Files
    BY <1>1, FilesAt DEF WriteFile, TypeOK
  <2>2. writes' \in 0 .. MaxWrites
    BY <1>1, MaxWritesAssumption DEF WriteFile, TypeOK
  <2> QED
    BY <1>1, <2>1, <2>2 DEF WriteFile, TypeOK, loads, reads, hosts, replies
<1>2. ASSUME NEW m \in Manifests, WriteManifest(m) PROVE TypeOK'
  <2>1. writes' \in 0 .. MaxWrites
    BY <1>2, MaxWritesAssumption DEF WriteManifest, TypeOK
  <2> QED
    BY <1>2, <2>1 DEF WriteManifest, TypeOK, loads, reads, hosts, replies
<1>3. ASSUME NEW c \in Callers, BeginPlan(c) PROVE TypeOK'
  BY <1>3, TypeBegin DEF BeginPlan, Ops, hosts, TypeOK
<1>4. ASSUME NEW c \in Callers, NEW more \in SUBSET Items, BeginCompile(c, more) PROVE TypeOK'
  <2>1. snapshot' \in [Callers -> SUBSET Items]
    BY <1>4 DEF BeginCompile, TypeOK
  <2> QED
    BY <1>4, <2>1, TypeBegin DEF BeginCompile, Ops
<1>5. ASSUME NEW c \in Callers, BeginRoot(c) PROVE TypeOK'
  BY <1>5, TypeBegin DEF BeginRoot, Ops, hosts, TypeOK
<1>6. ASSUME NEW c \in Callers, ReadManifest(c) PROVE TypeOK'
  BY <1>6, ManifestsAssumption DEF ReadManifest, TypeOK, PcValues, disks, reads, hosts, replies
<1>7. ASSUME NEW c \in Callers, NEW p \in Paths, VerifyFile(c, p) PROVE TypeOK'
  <2>1. CASE Raise(c)
    BY <2>1, TypeRaise
  <2>2. CASE ~ Raise(c)
    BY <1>7, <2>2 DEF VerifyFile, TypeOK, disks, reads, hosts, replies
  <2> QED
    BY <2>1, <2>2
<1>8. ASSUME NEW c \in Callers, ReadDigest(c) PROVE TypeOK'
  BY <1>8, ManifestsAssumption DEF ReadDigest, TypeOK, PcValues, disks, reads, hosts, replies
<1>9. ASSUME NEW c \in Callers, ReadRules(c) PROVE TypeOK'
  <2>1. CASE Raise(c)
    BY <2>1, TypeRaise
  <2>2. CASE ~ Raise(c)
    <3>1. sources' = [sources EXCEPT ![c][RULES_REL] = disk[RULES_REL]]
      BY <1>9, <2>2 DEF ReadRules
    <3>2. sources' \in [Callers -> Files]
      BY <3>1, ReadType, PathsHas
    <3> QED
      BY <1>9, <2>2, <3>2 DEF ReadRules, TypeOK, PcValues, disks, loads, hosts, replies
  <2> QED
    BY <2>1, <2>2
<1>10. ASSUME NEW c \in Callers, ReadPipeline(c) PROVE TypeOK'
  <2>1. CASE Raise(c)
    BY <2>1, TypeRaise
  <2>2. CASE ~ Raise(c)
    <3>1. sources[c][RULES_REL] \in Contents /\ disk[PIPELINE_REL] \in Contents
      BY <1>10, <2>2, FilesAt, PathsHas DEF ReadPipeline, Readable, RulesRead, TypeOK
    <3>2. Routed(c, disk[PIPELINE_REL]) \in Seq(Kernels)
      BY <3>1, ActivateAssumption, DiscoverType DEF Routed
    <3>3. sources' = [sources EXCEPT ![c][PIPELINE_REL] = disk[PIPELINE_REL]]
      BY <1>10, <2>2 DEF ReadPipeline
    <3>4. sources' \in [Callers -> Files]
      BY <3>3, ReadType, PathsHas
    <3>5. /\ kernels' = [kernels EXCEPT ![c] = Routed(c, disk[PIPELINE_REL])]
          /\ queue' = [queue EXCEPT ![c] = Routed(c, disk[PIPELINE_REL])]
          /\ pc' = [pc EXCEPT ![c] = "kernels"]
          /\ UNCHANGED <<disks, op, begun, loads, hosts, replies>>
      BY <1>10, <2>2 DEF ReadPipeline
    <3> QED
      BY <3>2, <3>4, <3>5 DEF TypeOK, PcValues, disks, loads, hosts, replies
  <2> QED
    BY <2>1, <2>2
<1>11. ASSUME NEW c \in Callers, ReadKernel(c) PROVE TypeOK'
  <2>1. CASE Raise(c)
    BY <2>1, TypeRaise
  <2>2. CASE ~ Raise(c)
    <3>1. Head(queue[c]) \in Kernels /\ Tail(queue[c]) \in Seq(Kernels)
      BY <1>11, ActiveHeadTail DEF ReadKernel, TypeOK
    <3>2. \/ sources' = sources
          \/ sources' = [sources EXCEPT ![c][Head(queue[c])] = disk[Head(queue[c])]]
      BY <1>11, <2>2 DEF ReadKernel
    <3>3. sources' \in [Callers -> Files]
      <4>1. CASE sources' = sources
        BY <4>1 DEF TypeOK
      <4>2. CASE sources' = [sources EXCEPT ![c][Head(queue[c])] = disk[Head(queue[c])]]
        BY <3>1, <4>2, ReadType, PathsHas
      <4> QED
        BY <3>2, <4>1, <4>2
    <3>4. queue' = [queue EXCEPT ![c] = Tail(queue[c])]
      BY <1>11, <2>2 DEF ReadKernel
    <3> QED
      BY <1>11, <2>2, <3>1, <3>3, <3>4
      DEF ReadKernel, TypeOK, disks, loads, hosts, replies
  <2> QED
    BY <2>1, <2>2
<1>12. ASSUME NEW c \in Callers, FinishPlan(c) PROVE TypeOK'
  <2>1. PlanId(c) \in PlanIds
    BY DiscoverType, EligibleAssumption DEF PlanId, PlanIds, TypeOK
  <2> QED
    BY <1>12, <2>1, DiscoverType
    DEF FinishPlan, TypeOK, Plans, PcValues, Statuses, disks, loads, reads
<1>13. ASSUME NEW c \in Callers, Replan(c) PROVE TypeOK'
  BY <1>13 DEF Replan, TypeOK, PcValues, Statuses, disks, loads, reads
<1>14. ASSUME NEW c \in Callers, FinishCompile(c) PROVE TypeOK'
  BY <1>14, DiscoverType
  DEF FinishCompile, TypeOK, Bundles, PcValues, Statuses, disks, loads, reads
<1>15. ASSUME NEW c \in Callers, Refuse(c) PROVE TypeOK'
  BY <1>15 DEF Refuse, TypeOK, PcValues, Statuses, disks, loads, reads, hosts
<1>16. CASE UNCHANGED vars
  BY <1>16 DEF vars, TypeOK, disks, loads, reads, hosts, replies
<1> QED
  BY <1>1, <1>2, <1>3, <1>4, <1>5, <1>6, <1>7, <1>8, <1>9, <1>10, <1>11, <1>12, <1>13, <1>14,
     <1>15, <1>16 DEF Next, Deploy, Call

-----------------------------------------------------------------------------
(* The inductive invariant, one part per aspect of a caller's state. *)

WasRead(files) == {p \in Paths : files[p] # None}
Parsed(files) == \A p \in Paths : files[p] \notin Malformed
Needed(ks) == {RULES_REL, PIPELINE_REL} \cup Active(ks)
RoutedBy(files, d) == Activate(files[RULES_REL], files[PIPELINE_REL], d)

\* A verified call holds the entries of an installed manifest; an unverified one says so.
LoadOK(c) ==
  /\ op[c] = "root" => digest[c] = Unverified /\ pc[c] \notin {"manifest", "verify"}
  /\ op[c] # "root" /\ pc[c] \notin {"idle", "manifest"} => entries[c] \in published

\* Sources agree with the entries, and at each point exactly the right ones have been read.
ReadOK(c) ==
  /\ pc[c] \in {"manifest", "verify", "rules"} => sources[c] = NoFiles
  /\ pc[c] = "pipeline" => WasRead(sources[c]) = {RULES_REL}
  /\ pc[c] = "kernels" =>
       /\ {RULES_REL, PIPELINE_REL} \subseteq WasRead(sources[c])
       /\ WasRead(sources[c]) \cup Active(queue[c]) = Needed(kernels[c])
       /\ kernels[c] = RoutedBy(sources[c], Discover(snapshot[c]))
       /\ Parsed(sources[c])
  /\ op[c] # "root" => \A p \in Paths : sources[c][p] \in {None, entries[c][p]}

\* A call that began after the last write has read what is on disk now.
EpochOK(c) ==
  /\ begun[c] \in 0 .. writes
  /\ begun[c] = writes /\ pc[c] # "idle" =>
       /\ \A p \in Paths : sources[c][p] \in {None, disk[p]}
       /\ op[c] # "root" /\ pc[c] \in {"rules", "pipeline", "kernels"} => digest[c] = manifest

\* A plan is complete, its identity covers what it used, and only a compile runs under it.
PlanOK(c) ==
  plan[c] # None =>
    /\ plan[c].id.discovery = plan[c].discovery
    /\ plan[c].id.sources = plan[c].sources
    /\ plan[c].kernels = RoutedBy(plan[c].sources, plan[c].discovery)
    /\ WasRead(plan[c].sources) = Needed(plan[c].kernels)
    /\ plan[c].begun \in 0 .. writes
    /\ pc[c] # "idle" => op[c] = "compile" /\ plan[c].begun \in 0 .. begun[c]
    /\ plan[c].begun = writes =>
         /\ plan[c].id.manifest = manifest
         /\ \A p \in Paths : plan[c].sources[p] \in {None, disk[p]}

\* The three promises about a finished compile.
BundleOK(c) ==
  bundle[c] # None =>
    /\ \/ bundle[c].manifest = Unverified
       \/ \E m \in published : \A p \in Paths : bundle[c].sources[p] \in {None, m[p]}
    /\ bundle[c].bound # None =>
         /\ bundle[c].discovery = bundle[c].bound.discovery
         /\ bundle[c].sources = bundle[c].bound.sources
         /\ bundle[c].kernels = bundle[c].bound.kernels
    /\ bundle[c].kernels = RoutedBy(bundle[c].sources, bundle[c].discovery)
    /\ WasRead(bundle[c].sources) = Needed(bundle[c].kernels)

CallerOK(c) == LoadOK(c) /\ ReadOK(c) /\ EpochOK(c) /\ PlanOK(c) /\ BundleOK(c)

IInv == TypeOK /\ manifest \in published /\ \A c \in Callers : CallerOK(c)

\* IInv holds at the start, where nobody has called.
LEMMA InvInit == Init => IInv
<1> SUFFICES ASSUME Init PROVE IInv
  OBVIOUS
<1>1. TypeOK
  BY TypeInit
<1>2. ASSUME NEW c \in Callers PROVE CallerOK(c)
  <2>1. /\ pc[c] = "idle" /\ op[c] = "plan" /\ begun[c] = 0 /\ sources[c] = NoFiles
        /\ plan[c] = None /\ bundle[c] = None /\ writes = 0
    BY DEF Init
  <2>2. \A p \in Paths : NoFiles[p] = None
    BY DEF NoFiles
  <2> QED
    BY <2>1, <2>2 DEF CallerOK, LoadOK, ReadOK, EpochOK, PlanOK, BundleOK
<1> QED
  BY <1>1, <1>2 DEF IInv, Init

\* The strengthening that the type invariant needs is part of IInv.
LEMMA InvRulesRead == IInv => RulesRead
<1> SUFFICES ASSUME IInv, NEW c \in Callers, pc[c] \in {"pipeline", "kernels"}
             PROVE  sources[c][RULES_REL] # None
  BY DEF RulesRead
<1>1. RULES_REL \in WasRead(sources[c])
  BY DEF IInv, CallerOK, ReadOK
<1> QED
  BY <1>1 DEF WasRead

\* What a step that does not concern caller d leaves alone.
Same(d) ==
  /\ pc'[d] = pc[d] /\ op'[d] = op[d] /\ begun'[d] = begun[d]
  /\ entries'[d] = entries[d] /\ digest'[d] = digest[d]
  /\ sources'[d] = sources[d] /\ kernels'[d] = kernels[d] /\ queue'[d] = queue[d]
  /\ snapshot'[d] = snapshot[d] /\ plan'[d] = plan[d] /\ bundle'[d] = bundle[d]

\* A caller that is left alone keeps its part of the invariant.
LEMMA SameKeeps ==
  ASSUME NEW d \in Callers, CallerOK(d), Same(d), UNCHANGED disks
  PROVE  CallerOK(d)'
<1>1. LoadOK(d)'
  BY DEF CallerOK, LoadOK, Same, disks
<1>2. ReadOK(d)'
  BY DEF CallerOK, ReadOK, Same, disks, Discover
<1>3. EpochOK(d)'
  BY DEF CallerOK, EpochOK, Same, disks
<1>4. PlanOK(d)'
  BY DEF CallerOK, PlanOK, Same, disks
<1>5. BundleOK(d)'
  BY DEF CallerOK, BundleOK, Same, disks
<1> QED
  BY <1>1, <1>2, <1>3, <1>4, <1>5 DEF CallerOK

\* A call touches neither the pack nor another caller's state.
LEMMA CallFrame ==
  ASSUME TypeOK, NEW c \in Callers, Call(c), NEW d \in Callers, d # c
  PROVE  Same(d) /\ UNCHANGED disks
<1>0. /\ pc \in [Callers -> PcValues] /\ op \in [Callers -> Ops] /\ begun \in [Callers -> Nat]
      /\ entries \in [Callers -> Files] /\ digest \in [Callers -> Files \cup {Unverified}]
      /\ sources \in [Callers -> Files] /\ kernels \in [Callers -> Seq(Kernels)]
      /\ queue \in [Callers -> Seq(Kernels)] /\ snapshot \in [Callers -> SUBSET Items]
      /\ plan \in [Callers -> Plans \cup {None}] /\ bundle \in [Callers -> Bundles \cup {None}]
  BY DEF TypeOK
<1>1. ASSUME Raise(c) PROVE Same(d) /\ UNCHANGED disks
  BY <1>0, <1>1 DEF Raise, Same, disks, loads, reads, hosts
<1>2. ASSUME NEW o \in Ops, Begin(c, o), plan' = plan, snapshot'[d] = snapshot[d]
      PROVE  Same(d) /\ UNCHANGED disks
  BY <1>0, <1>2 DEF Begin, Same, disks
<1>3. CASE BeginPlan(c)
  BY <1>2, <1>3 DEF BeginPlan, hosts, Ops
<1>4. ASSUME NEW more \in SUBSET Items, BeginCompile(c, more) PROVE Same(d) /\ UNCHANGED disks
  <2>1. snapshot'[d] = snapshot[d]
    BY <1>0, <1>4 DEF BeginCompile
  <2> QED
    BY <1>2, <1>4, <2>1 DEF BeginCompile, Ops
<1>5. CASE BeginRoot(c)
  BY <1>2, <1>5 DEF BeginRoot, hosts, Ops
<1>6. CASE ReadManifest(c)
  BY <1>0, <1>6 DEF ReadManifest, Same, disks, reads, hosts, replies
<1>7. ASSUME NEW p \in Paths, VerifyFile(c, p) PROVE Same(d) /\ UNCHANGED disks
  BY <1>0, <1>1, <1>7 DEF VerifyFile, Same, disks, reads, hosts, replies
<1>8. CASE ReadDigest(c)
  BY <1>0, <1>8 DEF ReadDigest, Same, disks, reads, hosts, replies
<1>9. CASE ReadRules(c)
  BY <1>0, <1>1, <1>9 DEF ReadRules, Same, disks, loads, hosts, replies
<1>10. CASE ReadPipeline(c)
  BY <1>0, <1>1, <1>10 DEF ReadPipeline, Same, disks, loads, hosts, replies
<1>11. CASE ReadKernel(c)
  BY <1>0, <1>1, <1>11 DEF ReadKernel, Same, disks, loads, hosts, replies
<1>12. CASE FinishPlan(c)
  BY <1>0, <1>12 DEF FinishPlan, Same, disks, loads, reads
<1>13. CASE Replan(c)
  BY <1>0, <1>13 DEF Replan, Same, disks, loads, reads
<1>14. CASE FinishCompile(c)
  BY <1>0, <1>14 DEF FinishCompile, Same, disks, loads, reads
<1>15. CASE Refuse(c)
  BY <1>0, <1>15 DEF Refuse, Same, disks, loads, reads, hosts, replies
<1> QED
  BY <1>3, <1>4, <1>5, <1>6, <1>7, <1>8, <1>9, <1>10, <1>11, <1>12, <1>13, <1>14, <1>15 DEF Call

\* A write of the deployment: the epoch moves on, so no call or plan is of this epoch, and
\* the installed manifests only grow.
LEMMA DeployKeeps ==
  ASSUME IInv, Deploy, NEW d \in Callers
  PROVE  CallerOK(d)'
<1>1. /\ Same(d) /\ writes' = writes + 1 /\ published \subseteq published'
  <2>1. ASSUME NEW p \in Paths, NEW content \in Contents \cup {None}, WriteFile(p, content)
        PROVE  Same(d) /\ writes' = writes + 1 /\ published \subseteq published'
    BY <2>1 DEF WriteFile, Same, loads, reads, hosts, replies
  <2>2. ASSUME NEW m \in Manifests, WriteManifest(m)
        PROVE  Same(d) /\ writes' = writes + 1 /\ published \subseteq published'
    BY <2>2 DEF WriteManifest, Same, loads, reads, hosts, replies
  <2> QED
    BY <2>1, <2>2 DEF Deploy
<1>2. writes \in Nat /\ CallerOK(d)
  BY MaxWritesAssumption DEF IInv, TypeOK
<1>3. LoadOK(d)'
  BY <1>1, <1>2 DEF CallerOK, LoadOK, Same
<1>4. ReadOK(d)'
  BY <1>1, <1>2 DEF CallerOK, ReadOK, Same, Discover
<1>5. EpochOK(d)'
  BY <1>1, <1>2 DEF CallerOK, EpochOK, Same
<1>6. PlanOK(d)'
  BY <1>1, <1>2 DEF CallerOK, PlanOK, Same
<1>7. BundleOK(d)'
  BY <1>1, <1>2 DEF CallerOK, BundleOK, Same
<1> QED
  BY <1>3, <1>4, <1>5, <1>6, <1>7 DEF CallerOK

-----------------------------------------------------------------------------
(* One lemma per action: the caller that takes the step keeps its part of IInv. *)

\* A finished bundle stays as good as it was.
LEMMA BundleKeeps ==
  ASSUME NEW c \in Callers, BundleOK(c), bundle'[c] = bundle[c], UNCHANGED disks
  PROVE  BundleOK(c)'
BY DEF BundleOK, disks

\* So does a plan, while the call goes on or ends.
LEMMA PlanKeeps ==
  ASSUME NEW c \in Callers, PlanOK(c), plan'[c] = plan[c], UNCHANGED disks,
         pc'[c] = "idle" \/ (pc[c] # "idle" /\ op'[c] = op[c] /\ begun'[c] = begun[c])
  PROVE  PlanOK(c)'
BY DEF PlanOK, disks

\* An exception ends the call.
LEMMA RaiseKeeps ==
  ASSUME IInv, NEW c \in Callers, Raise(c), pc[c] # "idle"
  PROVE  CallerOK(c)'
<1>1. CallerOK(c) /\ pc'[c] = "idle" /\ UNCHANGED <<disks, op, begun, loads, reads, hosts, bundle>>
  BY DEF IInv, TypeOK, Raise
<1>2. LoadOK(c)'
  BY <1>1 DEF CallerOK, LoadOK, loads
<1>3. ReadOK(c)'
  BY <1>1 DEF CallerOK, ReadOK, loads, reads
<1>4. EpochOK(c)'
  BY <1>1 DEF CallerOK, EpochOK, disks
<1>5. PlanOK(c)'
  BY <1>1, PlanKeeps DEF CallerOK, hosts
<1>6. BundleOK(c)'
  BY <1>1, BundleKeeps DEF CallerOK
<1> QED
  BY <1>2, <1>3, <1>4, <1>5, <1>6 DEF CallerOK

\* A call begins with nothing read.
LEMMA BeginKeeps ==
  ASSUME IInv, NEW c \in Callers, NEW o \in Ops, Begin(c, o), plan' = plan,
         plan[c] = None \/ o = "compile"
  PROVE  CallerOK(c)'
<1>1. /\ CallerOK(c) /\ writes \in Nat /\ UNCHANGED disks
      /\ pc'[c] = IF o = "root" THEN "rules" ELSE "manifest"
      /\ op'[c] = o /\ begun'[c] = writes /\ digest'[c] = Unverified
      /\ sources'[c] = NoFiles /\ bundle'[c] = None
  BY MaxWritesAssumption DEF IInv, TypeOK, Begin
<1>2. \A p \in Paths : NoFiles[p] = None
  BY DEF NoFiles
<1>3. LoadOK(c)'
  BY <1>1 DEF LoadOK
<1>4. ReadOK(c)'
  BY <1>1, <1>2 DEF ReadOK
<1>5. EpochOK(c)'
  BY <1>1, <1>2 DEF EpochOK, disks
<1>6. PlanOK(c)'
  BY <1>1 DEF CallerOK, PlanOK, disks
<1>7. BundleOK(c)'
  BY <1>1 DEF BundleOK
<1> QED
  BY <1>3, <1>4, <1>5, <1>6, <1>7 DEF CallerOK

\* load() takes the entries of the manifest that is on disk, and so of an installed one.
LEMMA ReadManifestKeeps ==
  ASSUME IInv, NEW c \in Callers, ReadManifest(c)
  PROVE  CallerOK(c)'
<1>1. /\ CallerOK(c) /\ pc[c] = "manifest" /\ pc'[c] = "verify" /\ entries'[c] = manifest
      /\ UNCHANGED <<disks, op, begun, digest, reads, hosts, replies>>
  BY DEF IInv, TypeOK, ReadManifest
<1>2. \A p \in Paths : NoFiles[p] = None
  BY DEF NoFiles
<1>3. sources[c] = NoFiles
  BY <1>1 DEF CallerOK, ReadOK
<1>4. LoadOK(c)'
  BY <1>1 DEF CallerOK, LoadOK, disks, IInv
<1>5. ReadOK(c)'
  BY <1>1, <1>2, <1>3 DEF ReadOK, reads
<1>6. EpochOK(c)'
  BY <1>1 DEF CallerOK, EpochOK, disks, reads
<1>7. PlanOK(c)'
  BY <1>1, PlanKeeps DEF CallerOK, hosts
<1>8. BundleOK(c)'
  BY <1>1, BundleKeeps DEF CallerOK, replies
<1> QED
  BY <1>4, <1>5, <1>6, <1>7, <1>8 DEF CallerOK

\* Verifying a file changes only the list of files still to be verified.
LEMMA VerifyFileKeeps ==
  ASSUME IInv, NEW c \in Callers, NEW p \in Paths, VerifyFile(c, p)
  PROVE  CallerOK(c)'
<1>1. CASE Raise(c)
  BY <1>1, RaiseKeeps DEF VerifyFile
<1>2. CASE ~ Raise(c)
  <2>1. UNCHANGED disks /\ Same(c)
    BY <1>2 DEF VerifyFile, Same, reads, hosts, replies
  <2> QED
    BY <2>1, SameKeeps DEF IInv
<1> QED
  BY <1>1, <1>2

\* The digest is that of the manifest on disk now.
LEMMA ReadDigestKeeps ==
  ASSUME IInv, NEW c \in Callers, ReadDigest(c)
  PROVE  CallerOK(c)'
<1>1. /\ CallerOK(c) /\ pc[c] = "verify" /\ pc'[c] = "rules" /\ digest'[c] = manifest
      /\ UNCHANGED <<disks, op, begun, entries, unchecked, reads, hosts, replies>>
  BY DEF IInv, TypeOK, ReadDigest
<1>2. LoadOK(c)'
  BY <1>1 DEF CallerOK, LoadOK, disks
<1>3. ReadOK(c)'
  BY <1>1 DEF CallerOK, ReadOK, reads
<1>4. EpochOK(c)'
  BY <1>1 DEF CallerOK, EpochOK, disks, reads
<1>5. PlanOK(c)'
  BY <1>1, PlanKeeps DEF CallerOK, hosts
<1>6. BundleOK(c)'
  BY <1>1, BundleKeeps DEF CallerOK, replies
<1> QED
  BY <1>2, <1>3, <1>4, <1>5, <1>6 DEF CallerOK

\* One more source, whose bytes are on disk and, in a verified call, in the entries.
LEMMA SourceKeeps ==
  ASSUME IInv, NEW c \in Callers, NEW p \in Paths, pc[c] # "idle", Readable(c, p),
         sources' = [sources EXCEPT ![c][p] = disk[p]],
         UNCHANGED <<disks, op, begun, loads>>
  PROVE  /\ sources'[c] \in Files
         /\ sources'[c][p] = disk[p]
         /\ \A q \in Paths \ {p} : sources'[c][q] = sources[c][q]
         /\ WasRead(sources'[c]) = WasRead(sources[c]) \cup {p}
         /\ op[c] # "root" => \A q \in Paths : sources'[c][q] \in {None, entries[c][q]}
         /\ begun[c] = writes => \A q \in Paths : sources'[c][q] \in {None, disk[q]}
<1>1. CallerOK(c) /\ sources \in [Callers -> Files] /\ sources[c] \in Files
  BY DEF IInv, TypeOK
<1>2. sources'[c] = [sources[c] EXCEPT ![p] = disk[p]]
  BY <1>1
<1>3. disk[p] \in Contents
  BY FilesAt DEF Readable, IInv, TypeOK
<1>4. sources'[c] \in Files
  BY <1>1, <1>2, <1>3, FilesAt
<1>5. sources'[c][p] = disk[p] /\ \A q \in Paths \ {p} : sources'[c][q] = sources[c][q]
  BY <1>1, <1>2 DEF Files
<1>6. WasRead(sources'[c]) = WasRead(sources[c]) \cup {p}
  BY <1>3, <1>5, NoneAssumption DEF WasRead
<1>7. op[c] # "root" => \A q \in Paths : sources'[c][q] \in {None, entries[c][q]}
  BY <1>1, <1>5 DEF CallerOK, ReadOK, Readable
<1>8. begun[c] = writes => \A q \in Paths : sources'[c][q] \in {None, disk[q]}
  BY <1>1, <1>5 DEF CallerOK, EpochOK
<1> QED
  BY <1>4, <1>5, <1>6, <1>7, <1>8

\* The routing rules.
LEMMA ReadRulesKeeps ==
  ASSUME IInv, NEW c \in Callers, ReadRules(c)
  PROVE  CallerOK(c)'
<1>1. CASE Raise(c)
  BY <1>1, RaiseKeeps DEF ReadRules
<1>2. CASE ~ Raise(c)
  <2>1. /\ CallerOK(c) /\ pc[c] = "rules" /\ pc'[c] = "pipeline" /\ Readable(c, RULES_REL)
        /\ sources' = [sources EXCEPT ![c][RULES_REL] = disk[RULES_REL]]
        /\ UNCHANGED <<disks, op, begun, loads, kernels, queue, hosts, replies>>
    BY <1>2 DEF IInv, TypeOK, ReadRules
  <2>2. WasRead(sources[c]) = {}
    BY <2>1 DEF CallerOK, ReadOK, WasRead, NoFiles
  <2>3. /\ WasRead(sources'[c]) = {RULES_REL}
        /\ op[c] # "root" => \A q \in Paths : sources'[c][q] \in {None, entries[c][q]}
        /\ begun[c] = writes => \A q \in Paths : sources'[c][q] \in {None, disk[q]}
    BY <2>1, <2>2, SourceKeeps, PathsHas
  <2>4. LoadOK(c)'
    BY <2>1 DEF CallerOK, LoadOK, disks, loads
  <2>5. ReadOK(c)'
    BY <2>1, <2>3 DEF ReadOK, loads
  <2>6. EpochOK(c)'
    BY <2>1, <2>3 DEF CallerOK, EpochOK, disks, loads
  <2>7. PlanOK(c)'
    BY <2>1, PlanKeeps DEF CallerOK, hosts
  <2>8. BundleOK(c)'
    BY <2>1, BundleKeeps DEF CallerOK, replies
  <2> QED
    BY <2>4, <2>5, <2>6, <2>7, <2>8 DEF CallerOK
<1> QED
  BY <1>1, <1>2

\* The pipeline, and with it the kernels that the sources select.
LEMMA ReadPipelineKeeps ==
  ASSUME IInv, NEW c \in Callers, ReadPipeline(c)
  PROVE  CallerOK(c)'
<1>1. CASE Raise(c)
  BY <1>1, RaiseKeeps DEF ReadPipeline
<1>2. CASE ~ Raise(c)
  <2>1. /\ CallerOK(c) /\ pc[c] = "pipeline" /\ pc'[c] = "kernels" /\ Readable(c, PIPELINE_REL)
        /\ sources' = [sources EXCEPT ![c][PIPELINE_REL] = disk[PIPELINE_REL]]
        /\ kernels'[c] = Routed(c, disk[PIPELINE_REL])
        /\ queue'[c] = Routed(c, disk[PIPELINE_REL])
        /\ UNCHANGED <<disks, op, begun, loads, hosts, replies>>
    BY <1>2 DEF IInv, TypeOK, ReadPipeline
  <2>2. WasRead(sources[c]) = {RULES_REL}
    BY <2>1 DEF CallerOK, ReadOK
  <2>3. /\ WasRead(sources'[c]) = {RULES_REL, PIPELINE_REL}
        /\ sources'[c][PIPELINE_REL] = disk[PIPELINE_REL]
        /\ sources'[c][RULES_REL] = sources[c][RULES_REL]
        /\ Parsed(sources'[c])
        /\ op[c] # "root" => \A q \in Paths : sources'[c][q] \in {None, entries[c][q]}
        /\ begun[c] = writes => \A q \in Paths : sources'[c][q] \in {None, disk[q]}
    <3>1. /\ WasRead(sources'[c]) = WasRead(sources[c]) \cup {PIPELINE_REL}
          /\ sources'[c][PIPELINE_REL] = disk[PIPELINE_REL]
          /\ \A q \in Paths \ {PIPELINE_REL} : sources'[c][q] = sources[c][q]
          /\ op[c] # "root" => \A q \in Paths : sources'[c][q] \in {None, entries[c][q]}
          /\ begun[c] = writes => \A q \in Paths : sources'[c][q] \in {None, disk[q]}
      BY <2>1, SourceKeeps, PathsHas
    <3>2. RULES_REL \in Paths \ {PIPELINE_REL}
      BY PathsHas, PathsAssumption
    <3>3. sources[c][RULES_REL] \notin Malformed /\ disk[PIPELINE_REL] \notin Malformed
      BY <1>2 DEF ReadPipeline
    <3>4. Parsed(sources'[c])
      BY <2>2, <3>1, <3>2, <3>3, MalformedAssumption, NoneAssumption DEF Parsed, WasRead
    <3> QED
      BY <2>2, <3>1, <3>2, <3>4
  <2>4. kernels'[c] = RoutedBy(sources'[c], Discover(snapshot'[c]))
    BY <2>1, <2>3 DEF Routed, RoutedBy, hosts
  <2>5. LoadOK(c)'
    BY <2>1 DEF CallerOK, LoadOK, disks, loads
  <2>6. ReadOK(c)'
    <3>1. WasRead(sources'[c]) \cup Active(queue'[c]) = Needed(kernels'[c])
      BY <2>1, <2>3 DEF Needed
    <3> QED
      BY <2>1, <2>3, <2>4, <3>1 DEF ReadOK, loads
  <2>7. EpochOK(c)'
    BY <2>1, <2>3 DEF CallerOK, EpochOK, disks, loads
  <2>8. PlanOK(c)'
    BY <2>1, PlanKeeps DEF CallerOK, hosts
  <2>9. BundleOK(c)'
    BY <2>1, BundleKeeps DEF CallerOK, replies
  <2> QED
    BY <2>5, <2>6, <2>7, <2>8, <2>9 DEF CallerOK
<1> QED
  BY <1>1, <1>2

\* A kernel moves from the queue to the sources.
LEMMA ReadKernelKeeps ==
  ASSUME IInv, NEW c \in Callers, ReadKernel(c)
  PROVE  CallerOK(c)'
<1>1. CASE Raise(c)
  BY <1>1, RaiseKeeps DEF ReadKernel
<1>2. CASE ~ Raise(c)
  <2> DEFINE k == Head(queue[c])
  <2>1. /\ CallerOK(c) /\ pc[c] = "kernels" /\ pc' = pc /\ queue[c] # <<>>
        /\ queue[c] \in Seq(Kernels) /\ queue'[c] = Tail(queue[c])
        /\ UNCHANGED <<disks, op, begun, loads, kernels, hosts, replies>>
    BY <1>2 DEF IInv, TypeOK, ReadKernel
  <2>2. \/ sources[c][k] # None /\ sources' = sources
        \/ /\ Readable(c, k) /\ disk[k] \notin Malformed
           /\ sources' = [sources EXCEPT ![c][k] = disk[k]]
    BY <1>2 DEF ReadKernel
  <2>3. k \in Kernels /\ k \in Paths /\ Active(queue[c]) = {k} \cup Active(Tail(queue[c]))
    BY <2>1, ActiveHeadTail, PathsHas
  <2>4. /\ WasRead(sources'[c]) = WasRead(sources[c]) \cup {k}
        /\ sources'[c][PIPELINE_REL] = sources[c][PIPELINE_REL]
        /\ sources'[c][RULES_REL] = sources[c][RULES_REL]
        /\ Parsed(sources'[c])
        /\ op[c] # "root" => \A q \in Paths : sources'[c][q] \in {None, entries[c][q]}
        /\ begun[c] = writes => \A q \in Paths : sources'[c][q] \in {None, disk[q]}
    <3>1. CASE sources[c][k] # None /\ sources' = sources
      <4>1. k \in WasRead(sources[c])
        BY <3>1, <2>3 DEF WasRead
      <4> QED
        BY <3>1, <4>1, <2>1 DEF CallerOK, ReadOK, EpochOK
    <3>2. CASE /\ Readable(c, k) /\ disk[k] \notin Malformed
               /\ sources' = [sources EXCEPT ![c][k] = disk[k]]
      <4>1. /\ WasRead(sources'[c]) = WasRead(sources[c]) \cup {k}
            /\ sources'[c][k] = disk[k]
            /\ \A q \in Paths \ {k} : sources'[c][q] = sources[c][q]
            /\ op[c] # "root" => \A q \in Paths : sources'[c][q] \in {None, entries[c][q]}
            /\ begun[c] = writes => \A q \in Paths : sources'[c][q] \in {None, disk[q]}
        BY <3>2, <2>1, <2>3, SourceKeeps
      <4>2. RULES_REL \in Paths \ {k} /\ PIPELINE_REL \in Paths \ {k}
        BY <2>3, PathsHas, PathsAssumption
      <4>3. Parsed(sources'[c])
        BY <2>1, <3>2, <4>1 DEF CallerOK, ReadOK, Parsed
      <4> QED
        BY <4>1, <4>2, <4>3
    <3> QED
      BY <2>2, <3>1, <3>2
  <2>5. kernels'[c] = RoutedBy(sources'[c], Discover(snapshot'[c]))
    BY <2>1, <2>4 DEF CallerOK, ReadOK, RoutedBy, hosts
  <2>6. WasRead(sources'[c]) \cup Active(queue'[c]) = Needed(kernels'[c])
    BY <2>1, <2>3, <2>4 DEF CallerOK, ReadOK
  <2>7. {RULES_REL, PIPELINE_REL} \subseteq WasRead(sources'[c])
    BY <2>1, <2>4 DEF CallerOK, ReadOK
  <2>8. LoadOK(c)'
    BY <2>1 DEF CallerOK, LoadOK, disks, loads
  <2>9. ReadOK(c)'
    BY <2>1, <2>4, <2>5, <2>6, <2>7 DEF ReadOK, loads
  <2>10. EpochOK(c)'
    BY <2>1, <2>4 DEF CallerOK, EpochOK, disks, loads
  <2>11. PlanOK(c)'
    BY <2>1, PlanKeeps DEF CallerOK, hosts
  <2>12. BundleOK(c)'
    BY <2>1, BundleKeeps DEF CallerOK, replies
  <2> QED
    BY <2>8, <2>9, <2>10, <2>11, <2>12 DEF CallerOK
<1> QED
  BY <1>1, <1>2

\* What a call that is prepared has in hand.
LEMMA PreparedReads ==
  ASSUME IInv, NEW c \in Callers, Prepared(c)
  PROVE  /\ WasRead(sources[c]) = Needed(kernels[c])
         /\ kernels[c] = RoutedBy(sources[c], Discover(snapshot[c]))
         /\ Parsed(sources[c])
<1>1. CallerOK(c) /\ pc[c] = "kernels" /\ queue[c] = <<>>
  BY DEF IInv, Prepared
<1>2. Active(queue[c]) = {}
  BY <1>1 DEF Active
<1> QED
  BY <1>1, <1>2 DEF CallerOK, ReadOK

\* A plan is returned: its identity covers the discovery and every source.
LEMMA FinishPlanKeeps ==
  ASSUME IInv, NEW c \in Callers, FinishPlan(c)
  PROVE  CallerOK(c)'
<1> DEFINE new == [id |-> PlanId(c), begun |-> begun[c], discovery |-> Discover(snapshot[c]),
                   sources |-> sources[c], kernels |-> kernels[c]]
<1>1. /\ CallerOK(c) /\ pc[c] = "kernels" /\ op[c] = "plan" /\ Prepared(c)
      /\ pc'[c] = "idle" /\ plan'[c] = new
      /\ UNCHANGED <<disks, op, begun, loads, reads, snapshot, bundle>>
  BY DEF IInv, TypeOK, FinishPlan, Prepared
<1>2. /\ new.id.discovery = new.discovery /\ new.id.sources = new.sources
      /\ new.id.manifest = digest[c] /\ new.begun = begun[c]
      /\ new.sources = sources[c] /\ new.kernels = kernels[c]
      /\ new.discovery = Discover(snapshot[c])
  BY DEF PlanId
<1>3. LoadOK(c)'
  BY <1>1 DEF CallerOK, LoadOK, loads
<1>4. ReadOK(c)'
  BY <1>1 DEF CallerOK, ReadOK, loads, reads
<1>5. EpochOK(c)'
  BY <1>1 DEF CallerOK, EpochOK, disks
<1>6. PlanOK(c)'
  <2>1. new.kernels = RoutedBy(new.sources, new.discovery) /\ WasRead(new.sources) = Needed(new.kernels)
    BY <1>1, <1>2, PreparedReads
  <2>2. /\ new.begun \in 0 .. writes
        /\ new.begun = writes =>
             new.id.manifest = manifest /\ \A p \in Paths : new.sources[p] \in {None, disk[p]}
    BY <1>1, <1>2 DEF CallerOK, EpochOK
  <2> HIDE DEF new
  <2> QED
    BY <1>1, <1>2, <2>1, <2>2 DEF PlanOK, disks
<1>7. BundleOK(c)'
  BY <1>1, BundleKeeps DEF CallerOK
<1> QED
  BY <1>3, <1>4, <1>5, <1>6, <1>7 DEF CallerOK

\* A compile gives up its plan.
LEMMA ReplanKeeps ==
  ASSUME IInv, NEW c \in Callers, Replan(c)
  PROVE  CallerOK(c)'
<1>1. /\ CallerOK(c) /\ pc'[c] = "idle" /\ plan'[c] = None
      /\ UNCHANGED <<disks, op, begun, loads, reads, snapshot, bundle>>
  BY DEF IInv, TypeOK, Replan
<1>2. LoadOK(c)'
  BY <1>1 DEF CallerOK, LoadOK, loads
<1>3. ReadOK(c)'
  BY <1>1 DEF CallerOK, ReadOK, loads, reads
<1>4. EpochOK(c)'
  BY <1>1 DEF CallerOK, EpochOK, disks
<1>5. PlanOK(c)'
  BY <1>1 DEF PlanOK
<1>6. BundleOK(c)'
  BY <1>1, BundleKeeps DEF CallerOK
<1> QED
  BY <1>2, <1>3, <1>4, <1>5, <1>6 DEF CallerOK

\* A bundle is returned: what was read satisfies the promises made of it.
LEMMA FinishCompileKeeps ==
  ASSUME IInv, NEW c \in Callers, FinishCompile(c)
  PROVE  CallerOK(c)'
<1> DEFINE new == [bound |-> plan[c], discovery |-> Discover(snapshot[c]), sources |-> sources[c],
                   kernels |-> kernels[c], entries |-> entries[c], manifest |-> digest[c]]
<1>1. /\ CallerOK(c) /\ pc[c] = "kernels" /\ Prepared(c)
      /\ plan[c] # None => PlanId(c) = plan[c].id
      /\ pc'[c] = "idle" /\ plan'[c] = None /\ bundle'[c] = new
      /\ UNCHANGED <<disks, op, begun, loads, reads, snapshot>>
  BY DEF IInv, TypeOK, FinishCompile, Prepared
<1>2. /\ new.bound = plan[c] /\ new.discovery = Discover(snapshot[c]) /\ new.sources = sources[c]
      /\ new.kernels = kernels[c] /\ new.manifest = digest[c]
  OBVIOUS
<1>3. new.kernels = RoutedBy(new.sources, new.discovery) /\ WasRead(new.sources) = Needed(new.kernels)
  BY <1>1, <1>2, PreparedReads
<1>4. \/ new.manifest = Unverified
      \/ \E m \in published : \A p \in Paths : new.sources[p] \in {None, m[p]}
  <2>1. CASE op[c] = "root"
    BY <1>1, <1>2, <2>1 DEF CallerOK, LoadOK
  <2>2. CASE op[c] # "root"
    <3>1. entries[c] \in published /\ \A p \in Paths : sources[c][p] \in {None, entries[c][p]}
      BY <1>1, <2>2 DEF CallerOK, LoadOK, ReadOK
    <3> QED
      BY <1>2, <3>1
  <2> QED
    BY <2>1, <2>2
<1>5. ASSUME plan[c] # None
      PROVE  /\ new.discovery = plan[c].discovery
             /\ new.sources = plan[c].sources
             /\ new.kernels = plan[c].kernels
  <2>1. plan[c].id.discovery = Discover(snapshot[c]) /\ plan[c].id.sources = sources[c]
    BY <1>1, <1>5 DEF PlanId
  <2>2. /\ plan[c].id.discovery = plan[c].discovery /\ plan[c].id.sources = plan[c].sources
        /\ plan[c].kernels = RoutedBy(plan[c].sources, plan[c].discovery)
    BY <1>1, <1>5 DEF CallerOK, PlanOK
  <2> QED
    BY <1>2, <1>3, <2>1, <2>2
<1>6. LoadOK(c)'
  BY <1>1 DEF CallerOK, LoadOK, loads
<1>7. ReadOK(c)'
  BY <1>1 DEF CallerOK, ReadOK, loads, reads
<1>8. EpochOK(c)'
  BY <1>1 DEF CallerOK, EpochOK, disks
<1>9. PlanOK(c)'
  BY <1>1 DEF PlanOK
<1>10. BundleOK(c)'
  <2> HIDE DEF new
  <2> QED
    BY <1>1, <1>2, <1>3, <1>4, <1>5 DEF BundleOK, disks
<1> QED
  BY <1>6, <1>7, <1>8, <1>9, <1>10 DEF CallerOK

\* A later stage refuses: the call ends and the host keeps its plan.
LEMMA RefuseKeeps ==
  ASSUME IInv, NEW c \in Callers, Refuse(c)
  PROVE  CallerOK(c)'
<1>1. /\ CallerOK(c) /\ pc'[c] = "idle"
      /\ UNCHANGED <<disks, op, begun, loads, reads, hosts, bundle>>
  BY DEF IInv, TypeOK, Refuse
<1>2. LoadOK(c)'
  BY <1>1 DEF CallerOK, LoadOK, loads
<1>3. ReadOK(c)'
  BY <1>1 DEF CallerOK, ReadOK, loads, reads
<1>4. EpochOK(c)'
  BY <1>1 DEF CallerOK, EpochOK, disks
<1>5. PlanOK(c)'
  BY <1>1, PlanKeeps DEF CallerOK, hosts
<1>6. BundleOK(c)'
  BY <1>1, BundleKeeps DEF CallerOK
<1> QED
  BY <1>2, <1>3, <1>4, <1>5, <1>6 DEF CallerOK

\* A step of a call keeps the part of the caller that takes it.
LEMMA CallKeeps ==
  ASSUME IInv, NEW c \in Callers, Call(c)
  PROVE  CallerOK(c)'
<1>1. CASE BeginPlan(c)
  BY <1>1, BeginKeeps DEF BeginPlan, hosts, Ops
<1>2. ASSUME NEW more \in SUBSET Items, BeginCompile(c, more) PROVE CallerOK(c)'
  BY <1>2, BeginKeeps DEF BeginCompile, Ops
<1>3. CASE BeginRoot(c)
  BY <1>3, BeginKeeps DEF BeginRoot, hosts, Ops
<1> QED
  BY <1>1, <1>2, <1>3, ReadManifestKeeps, VerifyFileKeeps, ReadDigestKeeps, ReadRulesKeeps,
     ReadPipelineKeeps, ReadKernelKeeps, FinishPlanKeeps, ReplanKeeps, FinishCompileKeeps,
     RefuseKeeps DEF Call

\* IInv is inductive.
LEMMA InvNext == IInv /\ [Next]_vars => IInv'
<1> SUFFICES ASSUME IInv, [Next]_vars PROVE IInv'
  OBVIOUS
<1>1. TypeOK'
  BY TypeNext, InvRulesRead DEF IInv
<1>2. CASE Deploy
  <2>1. (manifest \in published)'
    BY <1>2 DEF IInv, Deploy, WriteFile, WriteManifest
  <2> QED
    BY <1>1, <1>2, <2>1, DeployKeeps DEF IInv
<1>3. ASSUME NEW c \in Callers, Call(c) PROVE IInv'
  <2>1. ASSUME NEW d \in Callers PROVE CallerOK(d)'
    <3>1. CASE d = c
      BY <1>3, <3>1, CallKeeps
    <3>2. CASE d # c
      BY <1>3, <3>2, CallFrame, SameKeeps DEF IInv
    <3> QED
      BY <3>1, <3>2
  <2>2. UNCHANGED disks
    BY <1>3 DEF Call, BeginPlan, BeginCompile, BeginRoot, Begin, ReadManifest, VerifyFile, Raise,
                ReadDigest, ReadRules, ReadPipeline, ReadKernel, FinishPlan, Replan,
                FinishCompile, Refuse
  <2> QED
    BY <1>1, <2>1, <2>2 DEF IInv, disks
<1>4. CASE UNCHANGED vars
  <2>1. ASSUME NEW d \in Callers PROVE CallerOK(d)'
    <3>1. Same(d) /\ UNCHANGED disks
      BY <1>4 DEF vars, Same, loads, reads, hosts, replies
    <3> QED
      BY <3>1, SameKeeps DEF IInv
  <2> QED
    BY <1>1, <1>4, <2>1 DEF IInv, vars, disks
<1> QED
  BY <1>2, <1>3, <1>4 DEF Next

-----------------------------------------------------------------------------
(* Theorems. *)

\* IInv holds in every reachable state.
LEMMA Invariance == Spec => []IInv
<1> QED
  BY InvInit, InvNext, PTL DEF Spec

\* The state of every call and of every host keeps its type through planning, compiling,
\* replanning and failing, whatever the deployment writes.
THEOREM TypeCorrect == Spec => []TypeOK
<1>1. IInv => TypeOK
  BY DEF IInv
<1> QED
  BY <1>1, Invariance, PTL

\* A bundle that claims a verified pack was compiled from the files of one manifest that
\* was installed, however the deployment interleaved with load() and read_verified().
THEOREM VerifiedFromOneManifestHolds == Spec => []VerifiedFromOneManifest
<1>1. IInv => VerifiedFromOneManifest
  BY DEF IInv, CallerOK, BundleOK, VerifiedFromOneManifest
<1> QED
  BY <1>1, Invariance, PTL

\* A compile bound to a plan used the discovery, sources and kernels of that plan.
THEOREM PlanBoundHolds == Spec => []PlanBound
<1>1. IInv => PlanBound
  BY DEF IInv, CallerOK, BundleOK, PlanBound
<1> QED
  BY <1>1, Invariance, PTL

\* The sources a bundle records are those that selected its kernels, and all of them.
THEOREM RoutedAsRecordedHolds == Spec => []RoutedAsRecorded
<1>1. IInv => RoutedAsRecorded
  BY DEF IInv, CallerOK, BundleOK, RoutedAsRecorded, RoutedBy, WasRead, Needed
<1> QED
  BY <1>1, Invariance, PTL

\* "Replan required" is answered only after a write since the plan began or a change of
\* discovery: without either, the compile computes the plan's identity again.
THEOREM NoSpuriousReplanHolds == Spec => NoSpuriousReplan
<1> DEFINE Justified == \A c \in Callers : Replan(c) =>
             \/ writes # plan[c].begun
             \/ Discover(snapshot[c]) # plan[c].discovery
<1>1. IInv /\ [Next]_vars => [Justified]_vars
  <2> SUFFICES ASSUME IInv, NEW c \in Callers, Replan(c), writes = plan[c].begun,
                      Discover(snapshot[c]) = plan[c].discovery
               PROVE  FALSE
    OBVIOUS
  <2>1. /\ CallerOK(c) /\ pc[c] = "kernels" /\ op[c] # "plan" /\ plan[c] # None /\ Prepared(c)
        /\ PlanId(c) # plan[c].id /\ writes \in Nat
        /\ plan[c] \in Plans /\ sources[c] \in Files
    BY MaxWritesAssumption DEF IInv, TypeOK, Replan, Prepared
  <2>2. /\ op[c] = "compile" /\ begun[c] = writes
    BY <2>1 DEF CallerOK, PlanOK, EpochOK
  <2>3. /\ \A p \in Paths : sources[c][p] \in {None, disk[p]}
        /\ digest[c] = manifest
    BY <2>1, <2>2 DEF CallerOK, EpochOK
  <2>4. /\ plan[c].id.discovery = plan[c].discovery /\ plan[c].id.sources = plan[c].sources
        /\ plan[c].kernels = RoutedBy(plan[c].sources, plan[c].discovery)
        /\ WasRead(plan[c].sources) = Needed(plan[c].kernels)
        /\ plan[c].id.manifest = manifest
        /\ \A p \in Paths : plan[c].sources[p] \in {None, disk[p]}
    BY <2>1 DEF CallerOK, PlanOK
  <2>5. /\ WasRead(sources[c]) = Needed(kernels[c])
        /\ kernels[c] = RoutedBy(sources[c], plan[c].discovery)
    BY <2>1, PreparedReads
  <2>6. /\ sources[c][RULES_REL] = disk[RULES_REL] /\ sources[c][PIPELINE_REL] = disk[PIPELINE_REL]
    <3>1. {RULES_REL, PIPELINE_REL} \subseteq WasRead(sources[c])
      BY <2>5 DEF Needed
    <3> QED
      BY <3>1, <2>3 DEF WasRead
  <2>7. /\ plan[c].sources[RULES_REL] = disk[RULES_REL]
        /\ plan[c].sources[PIPELINE_REL] = disk[PIPELINE_REL]
    <3>1. {RULES_REL, PIPELINE_REL} \subseteq WasRead(plan[c].sources)
      BY <2>4 DEF Needed
    <3> QED
      BY <3>1, <2>4 DEF WasRead
  <2>8. WasRead(sources[c]) = WasRead(plan[c].sources)
    BY <2>4, <2>5, <2>6, <2>7 DEF RoutedBy
  <2>9. sources[c] = plan[c].sources
    <3>1. plan[c].sources \in Files
      BY <2>1 DEF Plans
    <3>2. \A p \in Paths : sources[c][p] = plan[c].sources[p]
      BY <2>3, <2>4, <2>8 DEF WasRead
    <3> QED
      BY <2>1, <3>1, <3>2 DEF Files
  <2>10. plan[c].id \in PlanIds
    BY <2>1 DEF Plans
  <2> QED
    BY <2>1, <2>3, <2>4, <2>9, <2>10 DEF PlanId, PlanIds
<1> QED
  BY <1>1, Invariance, PTL DEF Spec, NoSpuriousReplan

-----------------------------------------------------------------------------
(* The refinement: every step of a call or of the deployment is a step of  *)
(* PackService or changes nothing that a host can see.                     *)

\* Changing one caller's state changes one entry of what is visible of it.
LEMMA PhaseMoves ==
  ASSUME TypeOK, NEW c \in Callers, NEW at, pc' = [pc EXCEPT ![c] = at]
  PROVE  Phases' = [Phases EXCEPT ![c] = Visible(at)]
BY DEF TypeOK, Phases

LEMMA PlansMove ==
  ASSUME TypeOK, NEW c \in Callers, NEW a, plan' = [plan EXCEPT ![c] = a]
  PROVE  PlansTold' = [PlansTold EXCEPT ![c] = PlanTold(a)]
BY DEF TypeOK, PlansTold

LEMMA BundlesMove ==
  ASSUME TypeOK, NEW c \in Callers, NEW b, bundle' = [bundle EXCEPT ![c] = b]
  PROVE  BundlesTold' = [BundlesTold EXCEPT ![c] = BundleTold(b)]
BY DEF TypeOK, BundlesTold

\* What is left alone stays visible as it was.
LEMMA ToldSame ==
  /\ UNCHANGED pc => UNCHANGED Phases
  /\ UNCHANGED plan => UNCHANGED PlansTold
  /\ UNCHANGED bundle => UNCHANGED BundlesTold
BY DEF Phases, PlansTold, BundlesTold

\* A move between two places that look the same is not visible.
LEMMA PhaseStays ==
  ASSUME TypeOK, NEW c \in Callers, NEW at, pc' = [pc EXCEPT ![c] = at],
         Visible(at) = Visible(pc[c])
  PROVE  UNCHANGED Phases
BY DEF TypeOK, Phases

\* The paths and the contents are those of the service.
LEMMA SameFiles ==
  /\ Service!Paths = Paths
  /\ Service!Releases = Files
  /\ Service!Nothing = NoFiles
BY DEF Service!Paths, Service!Releases, Service!Nothing, Paths, Files, NoFiles

\* What a prepared call would tell the host.
Ready(c) ==
  [discovery |-> Discover(snapshot[c]), sources |-> sources[c], kernels |-> kernels[c],
   label |-> digest[c]]

LEMMA ReadyType ==
  ASSUME TypeOK, NEW c \in Callers
  PROVE  Ready(c) \in Answers
BY DiscoverType DEF Ready, Answers, TypeOK

\* It is the answer of the service from one release: the entries of load(), or what an
\* unverified compile has read.
LEMMA ReadyIsAnswer ==
  ASSUME IInv, NEW c \in Callers, Prepared(c)
  PROVE  \E m \in Service!Basis(c) : Service!Usable(c, m) /\ Service!Answer(c, m) = Ready(c)
<1> DEFINE m == IF op[c] = "root" THEN sources[c] ELSE entries[c]
<1>1. CallerOK(c) /\ sources[c] \in Files /\ entries[c] \in Files
  BY DEF IInv, TypeOK
<1>2. m \in Service!Basis(c)
  BY <1>1, SameFiles DEF Service!Basis
<1>3. \A p \in Paths : sources[c][p] \in {None, m[p]}
  BY <1>1 DEF CallerOK, ReadOK
<1>4. /\ WasRead(sources[c]) = Needed(kernels[c])
      /\ kernels[c] = RoutedBy(sources[c], Discover(snapshot[c]))
      /\ Parsed(sources[c])
  BY PreparedReads
<1>5. \A p \in Paths : p \in Needed(kernels[c]) <=> sources[c][p] # None
  BY <1>4 DEF WasRead
<1>6. Needed(kernels[c]) \subseteq Paths
  BY <1>4 DEF WasRead
<1>7. \A p \in Needed(kernels[c]) : m[p] = sources[c][p] /\ m[p] # None
  BY <1>3, <1>5, <1>6
<1>8. Service!Discovery(c) = Discover(snapshot[c])
  BY DEF Service!Discovery, Discover
<1> HIDE DEF m
<1>9. m[RULES_REL] = sources[c][RULES_REL] /\ m[PIPELINE_REL] = sources[c][PIPELINE_REL]
  BY <1>7 DEF Needed
<1>10. Service!Chosen(c, m) = kernels[c]
  BY <1>4, <1>8, <1>9 DEF Service!Chosen, RoutedBy
<1>11. Service!Sources(c, m) = Needed(kernels[c])
  BY <1>10 DEF Service!Sources, Needed, Active
<1>12. Service!Usable(c, m)
  BY <1>4, <1>6, <1>7, <1>11 DEF Service!Usable, Parsed
<1>13. [p \in Paths |-> IF p \in Needed(kernels[c]) THEN m[p] ELSE None] = sources[c]
  BY <1>1, <1>5, <1>7 DEF Files
<1>14. Service!Answer(c, m) = Ready(c)
  BY <1>8, <1>10, <1>11, <1>13, SameFiles DEF Service!Answer, Ready
<1> QED
  BY <1>2, <1>12, <1>14

\* The identity that a compile compares stands for all that the host was told.
LEMMA IdStandsForAnswer ==
  ASSUME IInv, NEW c \in Callers, Prepared(c), plan[c] # None
  PROVE  /\ PlansTold[c] # None
         /\ PlanId(c) = plan[c].id <=> PlansTold[c] = Ready(c)
<1>1. /\ plan[c] \in Plans /\ plan[c].id \in PlanIds
      /\ plan[c].id.discovery = plan[c].discovery /\ plan[c].id.sources = plan[c].sources
      /\ plan[c].kernels = RoutedBy(plan[c].sources, plan[c].discovery)
  BY DEF IInv, TypeOK, CallerOK, PlanOK, Plans
<1>2. PlansTold[c] = Told(plan[c], plan[c].id.manifest)
  BY DEF PlansTold, PlanTold
<1>3. PlansTold[c] \in Answers
  BY <1>1, <1>2 DEF Told, Answers, Plans, PlanIds
<1>4. ASSUME PlanId(c) = plan[c].id PROVE PlansTold[c] = Ready(c)
  <2>1. /\ plan[c].id.discovery = Discover(snapshot[c]) /\ plan[c].id.sources = sources[c]
        /\ plan[c].id.manifest = digest[c]
    BY <1>4 DEF PlanId
  <2>2. plan[c].kernels = kernels[c]
    BY <1>1, <2>1, PreparedReads
  <2> QED
    BY <1>1, <1>2, <2>1, <2>2 DEF Told, Ready
<1>5. ASSUME PlansTold[c] = Ready(c) PROVE PlanId(c) = plan[c].id
  <2>1. /\ plan[c].discovery = Discover(snapshot[c]) /\ plan[c].sources = sources[c]
        /\ plan[c].id.manifest = digest[c]
    BY <1>2, <1>5 DEF Told, Ready
  <2> QED
    BY <1>1, <2>1 DEF PlanId, PlanIds
<1> QED
  BY <1>3, <1>4, <1>5, NoPlanAssumption

\* A compile is judged by its plan exactly as the service judges it.
LEMMA JudgedByPlan ==
  ASSUME IInv, NEW c \in Callers, Prepared(c)
  PROVE  (plan[c] # None => PlanId(c) = plan[c].id) <=> PlansTold[c] \in {None, Ready(c)}
<1>1. CASE plan[c] = None
  BY <1>1 DEF PlansTold, PlanTold
<1>2. CASE plan[c] # None
  BY <1>2, IdStandsForAnswer
<1> QED
  BY <1>1, <1>2

ServiceStep == Service!Next \/ UNCHANGED Service!serviceVars

\* A prepared call replies from one release.
LEMMA ReplyStep ==
  ASSUME IInv, NEW c \in Callers, Prepared(c),
         \A m \in Service!Basis(c) :
           Service!Answer(c, m) = Ready(c) =>
             \/ Service!Plan(c, m) \/ Service!Replan(c, m)
             \/ Service!Compile(c, m) \/ Service!Refuse(c, m)
  PROVE  ServiceStep
<1>1. PICK m \in Service!Basis(c) : Service!Usable(c, m) /\ Service!Answer(c, m) = Ready(c)
  BY ReadyIsAnswer
<1>2. Phases[c] = "answer"
  BY DEF Prepared, Phases, Visible
<1>3. Service!Reply(c, m)
  BY <1>1, <1>2 DEF Service!Reply
<1> QED
  BY <1>1, <1>3 DEF ServiceStep, Service!Next

\* The end of a call, as the service sees it.
LEMMA EndStep ==
  ASSUME TypeOK, NEW c \in Callers, NEW how, pc' = [pc EXCEPT ![c] = "idle"],
         status' = [status EXCEPT ![c] = how], UNCHANGED <<disks, op, loads, snapshot>>
  PROVE  Service!End(c, how)
<1>1. Visible("idle") = "idle"
  BY DEF Visible
<1>2. Phases' = [Phases EXCEPT ![c] = "idle"]
  BY <1>1, PhaseMoves
<1> QED
  BY <1>2 DEF Service!End, disks, loads

\* FinishPlan is Plan,
LEMMA FinishPlanStep ==
  ASSUME IInv, NEW c \in Callers, FinishPlan(c)
  PROVE  ServiceStep
<1> DEFINE new == [id |-> PlanId(c), begun |-> begun[c], discovery |-> Discover(snapshot[c]),
                   sources |-> sources[c], kernels |-> kernels[c]]
<1>1. TypeOK /\ Prepared(c) /\ op[c] = "plan" /\ plan' = [plan EXCEPT ![c] = new]
  BY DEF IInv, FinishPlan
<1>2. new # None
  <2>1. PlanId(c) \in PlanIds
    BY <1>1, DiscoverType, EligibleAssumption DEF PlanId, PlanIds, TypeOK
  <2>2. new \in Plans
    BY <1>1, <2>1, DiscoverType DEF Plans, TypeOK
  <2> QED
    BY <2>2, NoPlanAssumption
<1>3. PlanTold(new) = Ready(c)
  <2>1. new.id.manifest = digest[c]
    BY DEF PlanId
  <2> QED
    BY <1>2, <2>1 DEF PlanTold, Told, Ready
<1> HIDE DEF new
<1>4. PlansTold' = [PlansTold EXCEPT ![c] = Ready(c)]
  BY <1>1, <1>3, PlansMove
<1>5. Service!End(c, "plan") /\ UNCHANGED BundlesTold
  BY <1>1, EndStep, ToldSame DEF FinishPlan
<1>6. ASSUME NEW m, Service!Answer(c, m) = Ready(c) PROVE Service!Plan(c, m)
  BY <1>1, <1>4, <1>5, <1>6 DEF Service!Plan
<1> QED
  BY <1>1, <1>6, ReplyStep

\* Replan is Replan,
LEMMA ReplanStep ==
  ASSUME IInv, NEW c \in Callers, Replan(c)
  PROVE  ServiceStep
<1>1. TypeOK /\ Prepared(c) /\ op[c] # "plan" /\ plan' = [plan EXCEPT ![c] = None]
  BY DEF IInv, Replan
<1>2. PlansTold[c] \notin {None, Ready(c)}
  BY <1>1, JudgedByPlan DEF Replan
<1>3. PlansTold' = [PlansTold EXCEPT ![c] = None]
  BY <1>1, PlansMove DEF PlanTold
<1>4. Service!End(c, "replan") /\ UNCHANGED BundlesTold
  BY <1>1, EndStep, ToldSame DEF Replan
<1>5. ASSUME NEW m, Service!Answer(c, m) = Ready(c) PROVE Service!Replan(c, m)
  BY <1>1, <1>2, <1>3, <1>4, <1>5 DEF Service!Replan
<1> QED
  BY <1>1, <1>5, ReplyStep

\* FinishCompile is Compile,
LEMMA FinishCompileStep ==
  ASSUME IInv, NEW c \in Callers, FinishCompile(c)
  PROVE  ServiceStep
<1> DEFINE new == [bound |-> plan[c], discovery |-> Discover(snapshot[c]), sources |-> sources[c],
                   kernels |-> kernels[c], entries |-> entries[c], manifest |-> digest[c]]
<1>1. /\ TypeOK /\ Prepared(c) /\ op[c] # "plan"
      /\ plan' = [plan EXCEPT ![c] = None] /\ bundle' = [bundle EXCEPT ![c] = new]
  BY DEF IInv, FinishCompile
<1>2. new # None
  <2>1. new \in Bundles
    BY <1>1, DiscoverType DEF Bundles, TypeOK
  <2> QED
    BY <2>1, NoPlanAssumption
<1>3. BundleTold(new) = [bound |-> PlansTold[c], answer |-> Ready(c)]
  BY <1>2 DEF BundleTold, PlansTold, Told, Ready
<1> HIDE DEF new
<1>4. PlansTold[c] \in {None, Ready(c)}
  BY <1>1, JudgedByPlan DEF FinishCompile
<1>5. PlansTold' = [PlansTold EXCEPT ![c] = None]
  BY <1>1, PlansMove DEF PlanTold
<1>6. BundlesTold' = [BundlesTold EXCEPT ![c] = [bound |-> PlansTold[c], answer |-> Ready(c)]]
  BY <1>1, <1>3, BundlesMove
<1>7. Service!End(c, "bundle")
  BY <1>1, EndStep DEF FinishCompile
<1>8. ASSUME NEW m, Service!Answer(c, m) = Ready(c) PROVE Service!Compile(c, m)
  BY <1>1, <1>4, <1>5, <1>6, <1>7, <1>8 DEF Service!Compile
<1> QED
  BY <1>1, <1>8, ReplyStep

\* and Refuse is Refuse.
LEMMA RefuseStep ==
  ASSUME IInv, NEW c \in Callers, Refuse(c)
  PROVE  ServiceStep
<1>1. TypeOK /\ Prepared(c) /\ op[c] # "plan"
  BY DEF IInv, Refuse
<1>2. PlansTold[c] \in {None, Ready(c)}
  BY <1>1, JudgedByPlan DEF Refuse
<1>3. Service!End(c, "refused") /\ UNCHANGED <<PlansTold, BundlesTold>>
  BY <1>1, EndStep, ToldSame DEF Refuse, hosts
<1>4. ASSUME NEW m, Service!Answer(c, m) = Ready(c) PROVE Service!Refuse(c, m)
  BY <1>1, <1>2, <1>3, <1>4 DEF Service!Refuse
<1> QED
  BY <1>1, <1>4, ReplyStep

\* An exception is a failure, wherever it is raised.
LEMMA RaiseStep ==
  ASSUME IInv, NEW c \in Callers, Raise(c), pc[c] \in {"verify", "rules", "pipeline", "kernels"}
  PROVE  ServiceStep
<1>1. Service!End(c, "failed")
  BY EndStep DEF Raise, IInv, hosts
<1>2. UNCHANGED <<PlansTold, BundlesTold>>
  BY ToldSame DEF Raise, hosts
<1>3. Phases[c] \in {"label", "answer"}
  BY DEF Phases, Visible
<1> QED
  BY <1>1, <1>2, <1>3 DEF ServiceStep, Service!Next, Service!Fail

\* A call that begins is asked for.
LEMMA BeginStep ==
  ASSUME IInv, NEW c \in Callers, NEW o \in Ops, NEW more \in SUBSET Items, Begin(c, o),
         snapshot' = [snapshot EXCEPT ![c] = @ \cup more], UNCHANGED plan,
         o # "compile" => plan[c] = None /\ more = {}
  PROVE  ServiceStep
<1>1. Phases' = [Phases EXCEPT ![c] = IF o = "root" THEN "answer" ELSE "take"]
  <2>1. Phases' = [Phases EXCEPT ![c] = Visible(IF o = "root" THEN "rules" ELSE "manifest")]
    BY PhaseMoves DEF Begin, IInv
  <2>2. Visible(IF o = "root" THEN "rules" ELSE "manifest") = IF o = "root" THEN "answer" ELSE "take"
    BY DEF Visible
  <2> QED
    BY <2>1, <2>2
<1>2. Phases[c] = "idle"
  BY DEF Begin, Phases, Visible
<1>3. /\ entries' = [entries EXCEPT ![c] = Service!Nothing]
      /\ digest' = [digest EXCEPT ![c] = Unverified]
      /\ op' = [op EXCEPT ![c] = o]
      /\ UNCHANGED <<manifest, status>>
  BY SameFiles DEF Begin, disks
<1>4. BundlesTold' = [BundlesTold EXCEPT ![c] = None]
  BY BundlesMove DEF Begin, IInv, BundleTold
<1>5. UNCHANGED PlansTold /\ (o # "compile" => PlansTold[c] = None)
  BY ToldSame DEF PlansTold, PlanTold
<1>6. Service!Ask(c, o, more)
  BY <1>1, <1>2, <1>3, <1>4, <1>5 DEF Service!Ask
<1> QED
  BY <1>6 DEF ServiceStep, Service!Next, Ops

\* The first read of the manifest is the instant at which the call takes effect.
LEMMA ReadManifestStep ==
  ASSUME IInv, NEW c \in Callers, ReadManifest(c)
  PROVE  ServiceStep
<1>1. Phases' = [Phases EXCEPT ![c] = "label"] /\ Phases[c] = "take"
  BY PhaseMoves DEF IInv, ReadManifest, Visible, Phases
<1>2. UNCHANGED <<PlansTold, BundlesTold>>
  BY ToldSame DEF ReadManifest, hosts, replies
<1>3. Service!Take(c)
  BY <1>1, <1>2 DEF Service!Take, ReadManifest, disks, hosts, replies
<1> QED
  BY <1>3 DEF ServiceStep, Service!Next

\* The second is that of its label.
LEMMA ReadDigestStep ==
  ASSUME IInv, NEW c \in Callers, ReadDigest(c)
  PROVE  ServiceStep
<1>1. Phases' = [Phases EXCEPT ![c] = "answer"] /\ Phases[c] = "label"
  BY PhaseMoves DEF IInv, ReadDigest, Visible, Phases
<1>2. UNCHANGED <<PlansTold, BundlesTold>>
  BY ToldSame DEF ReadDigest, hosts, replies
<1>3. Service!Label(c)
  BY <1>1, <1>2 DEF Service!Label, ReadDigest, disks, hosts, replies
<1> QED
  BY <1>3 DEF ServiceStep, Service!Next

\* A file that is read, or written, changes nothing visible.
LEMMA HiddenStep ==
  ASSUME UNCHANGED <<manifest, op, entries, digest, hosts, replies>>, UNCHANGED Phases
  PROVE  ServiceStep
<1>1. UNCHANGED <<PlansTold, BundlesTold>>
  BY ToldSame DEF hosts, replies
<1> QED
  BY <1>1 DEF ServiceStep, Service!serviceVars, Service!call, hosts, replies

LEMMA ReadsAreHidden ==
  ASSUME IInv, NEW c \in Callers,
         (\E p \in Paths : VerifyFile(c, p)) \/ ReadRules(c) \/ ReadPipeline(c) \/ ReadKernel(c)
  PROVE  ServiceStep
<1>0. TypeOK
  BY DEF IInv
<1>1. ASSUME NEW p \in Paths, VerifyFile(c, p) PROVE ServiceStep
  <2>1. CASE Raise(c)
    BY <1>1, <2>1, RaiseStep DEF VerifyFile
  <2>2. CASE ~ Raise(c)
    <3>1. UNCHANGED pc
      BY <1>1, <2>2 DEF VerifyFile
    <3> QED
      BY <1>1, <2>2, <3>1, ToldSame, HiddenStep DEF VerifyFile, disks
  <2> QED
    BY <2>1, <2>2
<1>2. CASE ReadRules(c)
  <2>1. CASE Raise(c)
    BY <1>2, <2>1, RaiseStep DEF ReadRules
  <2>2. CASE ~ Raise(c)
    <3>1. pc[c] = "rules" /\ pc' = [pc EXCEPT ![c] = "pipeline"]
      BY <1>2, <2>2 DEF ReadRules
    <3>2. UNCHANGED Phases
      BY <1>0, <3>1, PhaseStays DEF Visible
    <3> QED
      BY <1>2, <2>2, <3>2, HiddenStep DEF ReadRules, disks, loads
  <2> QED
    BY <2>1, <2>2
<1>3. CASE ReadPipeline(c)
  <2>1. CASE Raise(c)
    BY <1>3, <2>1, RaiseStep DEF ReadPipeline
  <2>2. CASE ~ Raise(c)
    <3>1. pc[c] = "pipeline" /\ pc' = [pc EXCEPT ![c] = "kernels"]
      BY <1>3, <2>2 DEF ReadPipeline
    <3>2. UNCHANGED Phases
      BY <1>0, <3>1, PhaseStays DEF Visible
    <3> QED
      BY <1>3, <2>2, <3>2, HiddenStep DEF ReadPipeline, disks, loads
  <2> QED
    BY <2>1, <2>2
<1>4. CASE ReadKernel(c)
  <2>1. CASE Raise(c)
    BY <1>4, <2>1, RaiseStep DEF ReadKernel
  <2>2. CASE ~ Raise(c)
    <3>1. UNCHANGED pc
      BY <1>4, <2>2 DEF ReadKernel
    <3> QED
      BY <1>4, <2>2, <3>1, ToldSame, HiddenStep DEF ReadKernel, disks, loads
  <2> QED
    BY <2>1, <2>2
<1> QED
  BY <1>1, <1>2, <1>3, <1>4

\* Every step is one of the service.
LEMMA EveryStepIsOneOfTheService == IInv /\ [Next]_vars => [Service!Next]_(Service!serviceVars)
<1> SUFFICES ASSUME IInv, [Next]_vars PROVE ServiceStep
  BY DEF ServiceStep
<1>1. ASSUME NEW p \in Paths, NEW content \in Contents \cup {None}, WriteFile(p, content)
      PROVE  ServiceStep
  BY <1>1, ToldSame, HiddenStep DEF WriteFile, loads
<1>2. ASSUME NEW m \in Manifests, WriteManifest(m) PROVE ServiceStep
  <2>1. UNCHANGED <<Phases, PlansTold, BundlesTold>>
    BY <1>2, ToldSame DEF WriteManifest, hosts, replies
  <2>2. Service!Install(m)
    BY <1>2, <2>1 DEF WriteManifest, Service!Install, Service!call, loads, hosts, replies
  <2> QED
    BY <2>2 DEF ServiceStep, Service!Next
<1>3. ASSUME NEW c \in Callers, BeginPlan(c) \/ BeginRoot(c) PROVE ServiceStep
  <2>1. snapshot' = [snapshot EXCEPT ![c] = @ \cup {}] /\ UNCHANGED plan /\ plan[c] = None
    BY <1>3 DEF BeginPlan, BeginRoot, hosts, IInv, TypeOK
  <2>2. PICK o \in Ops \ {"compile"} : Begin(c, o)
    BY <1>3 DEF BeginPlan, BeginRoot, Ops
  <2>3. {} \in SUBSET Items
    OBVIOUS
  <2> QED
    BY <2>1, <2>2, <2>3, BeginStep
<1>4. ASSUME NEW c \in Callers, NEW more \in SUBSET Items, BeginCompile(c, more)
      PROVE  ServiceStep
  BY <1>4, BeginStep DEF BeginCompile, Ops
<1>5. CASE UNCHANGED vars
  BY <1>5, ToldSame, HiddenStep DEF vars, disks, loads
<1>6. ASSUME NEW c \in Callers, Call(c) PROVE ServiceStep
  <2>1. CASE BeginPlan(c) \/ BeginRoot(c)
    BY <2>1, <1>3
  <2>2. CASE \E more \in SUBSET Items : BeginCompile(c, more)
    BY <2>2, <1>4
  <2>3. CASE ReadManifest(c) \/ ReadDigest(c)
    BY <2>3, ReadManifestStep, ReadDigestStep
  <2>4. CASE \/ \E p \in Paths : VerifyFile(c, p)
             \/ ReadRules(c) \/ ReadPipeline(c) \/ ReadKernel(c)
    BY <2>4, ReadsAreHidden
  <2>5. CASE FinishPlan(c) \/ Replan(c) \/ FinishCompile(c) \/ Refuse(c)
    BY <2>5, FinishPlanStep, ReplanStep, FinishCompileStep, RefuseStep
  <2> QED
    BY <1>6, <2>1, <2>2, <2>3, <2>4, <2>5 DEF Call
<1> QED
  BY <1>1, <1>2, <1>5, <1>6 DEF Next, Deploy

\* Every plan and every bundle is what one atomic call would have answered: a function of
\* the manifest that was installed at the instant load() read it and of the snapshot, for
\* any number of hosts and of writes between the reads of a call; the label is the manifest
\* of one later instant, and a bound compile is answered with the plan's answer only.
THEOREM PlanBindingImplementsService == Spec => ImplementsPackService
<1>1. Init => Service!Init
  <2> SUFFICES ASSUME Init PROVE Service!Init
    OBVIOUS
  <2>1. /\ Phases = [c \in Callers |-> "idle"]
        /\ PlansTold = [c \in Callers |-> None]
        /\ BundlesTold = [c \in Callers |-> None]
    BY DEF Init, Phases, Visible, PlansTold, PlanTold, BundlesTold, BundleTold
  <2> QED
    BY <2>1, SameFiles DEF Init, Service!Init
<1> QED
  BY <1>1, EveryStepIsOneOfTheService, Invariance, PTL
     DEF Spec, ImplementsPackService, Service!Spec
====

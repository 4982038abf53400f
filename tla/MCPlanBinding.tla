---------------------------- MODULE MCPlanBinding ----------------------------
(* Planning and compiling for TLC: four sources, three manifests. *)
EXTENDS PlanBinding, TLC

CONSTANTS k1, k2, old, new

\* The second release changes the pipeline and a kernel; the third lists too little.
MCManifests ==
  {[p \in Paths |-> old],
   [p \in Paths |-> IF p \in {PIPELINE_REL, k1} THEN new ELSE old],
   [p \in Paths |-> IF p = k2 THEN None ELSE old]}

\* New rules or a discovered fact activate the second kernel; the new pipeline names the
\* first kernel twice.
MCActivate(rules, pipeline, discovery) ==
  (IF pipeline = new THEN <<k1, k1>> ELSE <<k1>>)
    \o (IF rules = new \/ discovery # {} THEN <<k2>> ELSE <<>>)
=============================================================================

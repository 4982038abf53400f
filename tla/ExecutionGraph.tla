--------------------------- MODULE ExecutionGraph ---------------------------
(***************************************************************************)
(* graph/__init__.py: topological_order over the nodes and edges of an     *)
(* execution graph, one action per turn of each of its loops, under its    *)
(* two callers: derive_execution_graph, which refuses a repeated id before *)
(* it chains the steps, and validate_execution_graph_mapping, which judges *)
(* a serialized graph of any shape and lists its findings.                 *)
(*                                                                         *)
(* Ids are naturals in the order in which the code sorts the id strings: a *)
(* loop over sorted(...) takes the least remaining one at every turn.      *)
(***************************************************************************)
EXTENDS Naturals, Sequences, FiniteSets, Functions

CONSTANT Graphs \* [ids : sequence, edges : set of pairs, terminal : id]

ASSUME GraphsAssumption ==
    \A h \in Graphs : /\ h.ids \in Seq(Nat)
                      /\ h.edges \subseteq Nat \X Nat

VARIABLES
    g,        \* the graph judged
    pc,       \* "start", "seed", "pop", "release", "ordered", "missing" or "cycle"
    incoming, \* id -> predecessors not popped yet
    ready,    \* the deque
    ordered,  \* ids popped, in order
    todo      \* what the loop under way has left: positions of ids, or successors

vars == <<g, pc, incoming, ready, ordered, todo>>

Ids == Range(g.ids)

\* Mutant of Before: edges read against their direction.
BeforeReversed(n) == {m \in Ids : <<n, m>> \in g.edges}

Before(n) == {m \in Ids : <<m, n>> \in g.edges}

Outgoing(n) == {m \in Ids : <<n, m>> \in g.edges}

Closed == g.edges \subseteq Ids \X Ids
Popped == Range(ordered)

Init ==
    /\ g \in Graphs
    /\ pc = "start"
    /\ incoming = [n \in Ids |-> {}]
    /\ ready = <<>> /\ ordered = <<>> /\ todo = {}

\* Build the maps, or raise on an edge with an unknown endpoint.
Start ==
    /\ pc = "start"
    /\ IF Closed
       THEN /\ pc' = "seed"
            /\ incoming' = [n \in Ids |-> Before(n)]
            /\ todo' = {i \in DOMAIN g.ids : Before(g.ids[i]) = {}}
       ELSE pc' = "missing" /\ UNCHANGED <<incoming, todo>>
    /\ UNCHANGED <<g, ready, ordered>>

\* ready = deque(sorted(...)): a repeated id enters as often as it is repeated.
Seed ==
    /\ pc = "seed"
    /\ \/ /\ todo = {}
          /\ pc' = "pop"
          /\ UNCHANGED <<ready, todo>>
       \/ \E i \in todo :
             /\ \A j \in todo : g.ids[i] <= g.ids[j]
             /\ ready' = Append(ready, g.ids[i])
             /\ todo' = todo \ {i}
             /\ UNCHANGED pc
    /\ UNCHANGED <<g, incoming, ordered>>

Pop ==
    /\ pc = "pop" /\ ready # <<>>
    /\ ordered' = Append(ordered, Head(ready))
    /\ ready' = Tail(ready)
    /\ todo' = Outgoing(Head(ready))
    /\ pc' = "release"
    /\ UNCHANGED <<g, incoming>>

\* Mutant of Waits: the first popped predecessor frees a node.
NeverWaits(n, node) == FALSE

\* Some other predecessor of n is still to be popped.
Waits(n, node) == incoming[n] \ {node} # {}

\* for nxt in sorted(outgoing[node]): discard node, enqueue nxt if it is free.
Release ==
    LET node == ordered[Len(ordered)]
    IN  /\ pc = "release"
        /\ \/ /\ todo = {}
              /\ pc' = "pop"
              /\ UNCHANGED <<incoming, ready, todo>>
           \/ \E n \in todo :
                 /\ \A m \in todo : n <= m
                 /\ incoming' = [incoming EXCEPT ![n] = @ \ {node}]
                 /\ ready' = IF Waits(n, node) THEN ready ELSE Append(ready, n)
                 /\ todo' = todo \ {n}
                 /\ UNCHANGED pc
        /\ UNCHANGED <<g, ordered>>

\* Mutant of Verdict: a node that never became ready goes unnoticed.
VerdictAlwaysOrdered == "ordered"

Verdict == IF Len(ordered) = Len(g.ids) THEN "ordered" ELSE "cycle"

\* Mutant of Finish: an incomplete order is not reported.
FinishWhenComplete ==
    /\ pc = "pop" /\ ready = <<>> /\ Len(ordered) = Len(g.ids)
    /\ pc' = "ordered"
    /\ UNCHANGED <<g, incoming, ready, ordered, todo>>

Finish ==
    /\ pc = "pop" /\ ready = <<>>
    /\ pc' = Verdict
    /\ UNCHANGED <<g, incoming, ready, ordered, todo>>

Next == Start \/ Seed \/ Pop \/ Release \/ Finish

Spec == Init /\ [][Next]_vars /\ WF_vars(Next)

\* validate_execution_graph_mapping.
Findings ==
    (IF Cardinality(Ids) # Len(g.ids) THEN {"duplicate node id"} ELSE {})
    \cup (IF g.terminal \notin Ids THEN {"terminal_node missing from nodes"} ELSE {})
    \cup ({pc} \cap {"missing", "cycle"})

-----------------------------------------------------------------------------
(* Properties.                                                             *)

Done == pc \in {"ordered", "missing", "cycle"}

Unique == Cardinality(Ids) = Len(g.ids)

\* No node reaches itself: some numbering of the nodes grows along every edge.
Acyclic == \E rank \in [Ids -> 1..Cardinality(Ids)] :
              \A e \in g.edges : rank[e[1]] < rank[e[2]]

\* A step is never ordered before a step it depends on, in the order returned
\* and at every turn on the way to it.
OrderRespectsEdges ==
    \A i \in DOMAIN ordered : \A m \in Before(ordered[i]) :
        \E j \in 1..(i - 1) : ordered[j] = m

\* The validator reports nothing exactly when ids are unique, the terminal node
\* exists, every edge has both ends and no node depends on itself.
ValidatorIsExact ==
    Done => (Findings = {} <=> Unique /\ g.terminal \in Ids /\ Closed /\ Acyclic)

\* For a chain of distinct ids, whatever their names, the order is the chain:
\* derive_execution_graph's comparison with the step order never fails.
ChainKeepsStepOrder ==
    Done /\ Unique /\ g.edges = {<<g.ids[i], g.ids[i + 1]>> : i \in 1..(Len(g.ids) - 1)}
        => pc = "ordered" /\ ordered = g.ids

\* The loops end on every graph, a cyclic or malformed one too.
Terminates == <>Done
=============================================================================

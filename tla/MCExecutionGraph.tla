-------------------------- MODULE MCExecutionGraph --------------------------
(***************************************************************************)
(* Every graph on four nodes, self-loops aside, over a sorted and an       *)
(* unsorted node list; and every graph on three nodes with a self-loop, a  *)
(* dangling edge, repeated ids or a terminal node that is not there.       *)
(***************************************************************************)
EXTENDS ExecutionGraph

Pairs(n) == {p \in (1..n) \X (1..n) : p[1] # p[2]}

MCGraphs == [ids : {<<1, 2, 3, 4>>, <<3, 1, 4, 2>>}, edges : SUBSET Pairs(4), terminal : {4}]
            \cup
            [ids : {<<1, 3, 2>>, <<2, 1, 3, 2>>, <<1, 1, 1>>},
             edges : {E \cup x : E \in SUBSET Pairs(3), x \in {{}, {<<2, 2>>}, {<<1, 4>>}}},
             terminal : {3, 4}]
=============================================================================

------------------------ MODULE ExecutionGraphProofs ------------------------
(***************************************************************************)
(* topological_order for graphs of any size and shape: cyclic ones,        *)
(* self-loops and repeated ids included.  It never orders a node before    *)
(* one of its predecessors, and its verdict is right.  The order alone is  *)
(* not inductive.  GraphInv says why the deque may be trusted: a           *)
(* predecessor that has not been popped is still in the incoming set, so a *)
(* node whose set runs empty has none left.  VerdictInv says that no node  *)
(* is forgotten.                                                           *)
(***************************************************************************)
EXTENDS ExecutionGraph, FiniteSetTheorems, TLAPS

TypeOK ==
    /\ g \in Graphs
    /\ ready \in Seq(Ids)
    /\ ordered \in Seq(Ids)
    /\ incoming \in [Ids -> SUBSET Ids]
    /\ pc = "seed" => todo \subseteq DOMAIN g.ids
    /\ pc = "release" => todo \subseteq Ids /\ ordered # <<>>

\* Positions still to be seeded hold ids without predecessors.
SeedsAreFree == pc = "seed" => \A i \in todo : Before(g.ids[i]) = {}

\* Nothing leaves an incoming set before it is popped.
UnpoppedAreIncoming ==
    pc \notin {"start", "missing"} =>
        \A n \in Ids : \A m \in Before(n) : m \in incoming[n] \/ m \in Popped

ReadyAreFree == \A i \in DOMAIN ready : Before(ready[i]) \subseteq Popped

GraphInv == TypeOK /\ SeedsAreFree /\ UnpoppedAreIncoming /\ ReadyAreFree /\ OrderRespectsEdges

\* Appending to a sequence keeps its entries and adds one to its range.
LEMMA AppendFacts ==
    ASSUME NEW S, NEW s \in Seq(S), NEW e \in S
    PROVE  /\ Append(s, e) \in Seq(S)
           /\ Len(Append(s, e)) = Len(s) + 1
           /\ \A i \in 1..Len(s) : Append(s, e)[i] = s[i]
           /\ Append(s, e)[Len(s) + 1] = e
           /\ DOMAIN Append(s, e) = 1..(Len(s) + 1)
           /\ DOMAIN s = 1..Len(s)
  OBVIOUS

\* An entry appended is the only one the range gains.
LEMMA RangeOfAppend ==
    ASSUME NEW S, NEW s \in Seq(S), NEW e \in S
    PROVE  Range(Append(s, e)) = Range(s) \cup {e}
  <1>1. ASSUME NEW x \in Range(Append(s, e)) PROVE x \in Range(s) \cup {e}
    BY <1>1, AppendFacts DEF Range
  <1>2. ASSUME NEW x \in Range(s) PROVE x \in Range(Append(s, e))
    BY <1>2, AppendFacts DEF Range
  <1>3. e \in Range(Append(s, e))
    BY AppendFacts DEF Range
  <1>. QED
    BY <1>1, <1>2, <1>3

\* The entries of a sequence's tail are entries of the sequence.
LEMMA TailFacts ==
    ASSUME NEW S, NEW s \in Seq(S), s # <<>>
    PROVE  /\ Tail(s) \in Seq(S)
           /\ Head(s) \in S
           /\ 1 \in DOMAIN s
           /\ Head(s) = s[1]
           /\ \A i \in DOMAIN Tail(s) : i + 1 \in DOMAIN s /\ Tail(s)[i] = s[i + 1]
  OBVIOUS

\* The node list is a sequence of ids.
LEMMA GraphTypes == GraphInv => g.ids \in Seq(Nat) /\ \A i \in DOMAIN g.ids : g.ids[i] \in Ids
  BY GraphsAssumption DEF GraphInv, TypeOK, Ids, Range

\* Nothing is seeded, popped or ordered when topological_order begins.
LEMMA GraphInit == Init => GraphInv
  BY DEF Init, GraphInv, TypeOK, SeedsAreFree, UnpoppedAreIncoming, ReadyAreFree,
         OrderRespectsEdges

\* Building the incoming sets: every predecessor is in them.
LEMMA StartStep == GraphInv /\ Start => GraphInv'
  <1>. SUFFICES ASSUME GraphInv, Start PROVE GraphInv'
    OBVIOUS
  <1>. USE DEF Start, GraphInv
  <1>1. Ids' = Ids /\ Popped' = Popped /\ \A n : Before(n)' = Before(n)
    BY DEF Ids, Popped, Before
  <1>2. TypeOK'
    BY <1>1 DEF TypeOK, Before
  <1>3. SeedsAreFree'
    BY <1>1 DEF SeedsAreFree
  <1>4. UnpoppedAreIncoming'
    BY <1>1 DEF UnpoppedAreIncoming
  <1>5. ReadyAreFree' /\ OrderRespectsEdges'
    BY <1>1 DEF ReadyAreFree, OrderRespectsEdges
  <1>. QED
    BY <1>2, <1>3, <1>4, <1>5

\* Seeding the deque: only ids without predecessors enter.
LEMMA SeedStep == GraphInv /\ Seed => GraphInv'
  <1>. SUFFICES ASSUME GraphInv, Seed PROVE GraphInv'
    OBVIOUS
  <1>. USE DEF GraphInv
  <1>1. Ids' = Ids /\ Popped' = Popped /\ \A n : Before(n)' = Before(n)
    BY DEF Ids, Popped, Before, Seed
  <1>2. UnpoppedAreIncoming' /\ OrderRespectsEdges'
    BY <1>1 DEF UnpoppedAreIncoming, OrderRespectsEdges, Seed
  <1>3. CASE todo = {} /\ pc' = "pop" /\ UNCHANGED <<ready, todo>>
    <2>1. TypeOK' /\ SeedsAreFree' /\ ReadyAreFree'
      BY <1>1, <1>3 DEF TypeOK, SeedsAreFree, ReadyAreFree, Seed
    <2>. QED
      BY <1>2, <2>1
  <1>4. ASSUME NEW i \in todo,
               ready' = Append(ready, g.ids[i]), todo' = todo \ {i}, UNCHANGED pc
        PROVE  GraphInv'
    <2>1. g.ids[i] \in Ids /\ Before(g.ids[i]) = {}
      BY <1>4, GraphTypes DEF TypeOK, SeedsAreFree, Seed
    <2>2. ready \in Seq(Ids)
      BY DEF TypeOK
    <2>3. TypeOK'
      BY <1>1, <1>4, <2>1, <2>2, AppendFacts DEF TypeOK, Seed
    <2>4. SeedsAreFree'
      BY <1>1, <1>4 DEF SeedsAreFree, Seed
    <2>5. ReadyAreFree'
      BY <1>1, <1>4, <2>1, <2>2, AppendFacts DEF ReadyAreFree
    <2>. QED
      BY <1>2, <2>3, <2>4, <2>5
  <1>. QED
    BY <1>3, <1>4 DEF Seed

\* popleft and append: the popped node's predecessors are all in the order.
LEMMA PopStep == GraphInv /\ Pop => GraphInv'
  <1>. SUFFICES ASSUME GraphInv, Pop PROVE GraphInv'
    OBVIOUS
  <1>. USE DEF GraphInv
  <1>. DEFINE node == Head(ready)
  <1>1. Ids' = Ids /\ \A n : Before(n)' = Before(n)
    BY DEF Ids, Before, Pop
  <1>2. /\ ready \in Seq(Ids) /\ ready # <<>> /\ ordered \in Seq(Ids)
        /\ ordered' = Append(ordered, node) /\ ready' = Tail(ready)
    BY DEF TypeOK, Pop
  <1>3. node \in Ids /\ Before(node) \subseteq Popped
    BY <1>2, TailFacts DEF ReadyAreFree
  <1>4. Popped' = Popped \cup {node}
    BY <1>2, <1>3, RangeOfAppend DEF Popped
  <1>5. TypeOK'
    <2>1. ordered' \in Seq(Ids) /\ ordered' # <<>>
      BY <1>2, <1>3, AppendFacts
    <2>2. ready' \in Seq(Ids)
      BY <1>2, TailFacts
    <2>3. /\ pc' = "release" /\ g' = g /\ incoming' = incoming
          /\ todo' = Outgoing(node)
      BY DEF Pop
    <2>4. todo' \subseteq Ids
      BY <2>3 DEF Outgoing
    <2>. QED
      BY <1>1, <2>1, <2>2, <2>3, <2>4 DEF TypeOK
  <1>6. SeedsAreFree'
    BY DEF SeedsAreFree, Pop
  <1>7. UnpoppedAreIncoming'
    BY <1>1, <1>4 DEF UnpoppedAreIncoming, Pop
  <1>8. ReadyAreFree'
    <2>. SUFFICES ASSUME NEW i \in DOMAIN Tail(ready)
                  PROVE  Before(Tail(ready)[i]) \subseteq Popped
      BY <1>1, <1>2, <1>4 DEF ReadyAreFree
    <2>. QED
      BY <1>2, TailFacts DEF ReadyAreFree
  <1>9. OrderRespectsEdges'
    <2>a. DOMAIN ordered' = 1..(Len(ordered) + 1)
      BY <1>2, <1>3, AppendFacts
    <2>. SUFFICES ASSUME NEW i \in 1..(Len(ordered) + 1), NEW m \in Before(ordered'[i])
                  PROVE  \E j \in 1..(i - 1) : ordered'[j] = m
      BY <1>1, <2>a DEF OrderRespectsEdges
    <2>1. CASE i \in 1..Len(ordered)
      <3>1. ordered'[i] = ordered[i]
        BY <1>2, <1>3, <2>1, AppendFacts
      <3>2. PICK j \in 1..(i - 1) : ordered[j] = m
        BY <1>2, <1>3, <2>1, <3>1, AppendFacts DEF OrderRespectsEdges
      <3>3. j \in 1..Len(ordered)
        BY <2>1, <1>2
      <3>4. ordered'[j] = m
        BY <1>2, <1>3, <3>2, <3>3, AppendFacts
      <3>. QED
        BY <3>4
    <2>2. CASE i = Len(ordered) + 1
      <3>1. m \in Popped
        BY <1>2, <1>3, <2>2, AppendFacts
      <3>2. PICK j \in 1..Len(ordered) : ordered[j] = m
        BY <1>2, <1>3, <3>1, AppendFacts DEF Popped, Range
      <3>3. ordered'[j] = m
        BY <1>2, <1>3, <3>2, AppendFacts
      <3>4. j \in 1..(i - 1)
        BY <1>2, <2>2, <3>2
      <3>. QED
        BY <3>3, <3>4
    <2>. QED
      BY <1>2, <2>1, <2>2
  <1>. QED
    BY <1>5, <1>6, <1>7, <1>8, <1>9

\* discard, and append when the set is empty: all predecessors were popped.
LEMMA ReleaseStep == GraphInv /\ Release => GraphInv'
  <1>. SUFFICES ASSUME GraphInv, Release PROVE GraphInv'
    OBVIOUS
  <1>. USE DEF GraphInv
  <1>. DEFINE node == ordered[Len(ordered)]
  <1>1. Ids' = Ids /\ Popped' = Popped /\ \A n : Before(n)' = Before(n)
    BY DEF Ids, Popped, Before, Release
  <1>2. /\ ready \in Seq(Ids) /\ ordered \in Seq(Ids) /\ ordered # <<>>
        /\ incoming \in [Ids -> SUBSET Ids] /\ todo \subseteq Ids /\ pc = "release"
    BY DEF TypeOK, Release
  <1>3. node \in Popped
    <2>1. Len(ordered) \in DOMAIN ordered
      BY <1>2
    <2>. QED
      BY <2>1 DEF Popped, Range
  <1>4. OrderRespectsEdges' /\ SeedsAreFree'
    BY <1>1, <1>2 DEF OrderRespectsEdges, SeedsAreFree, Release
  <1>5. CASE todo = {} /\ pc' = "pop" /\ UNCHANGED <<incoming, ready, todo>>
    BY <1>1, <1>4, <1>5 DEF TypeOK, UnpoppedAreIncoming, ReadyAreFree, Release
  <1>6. ASSUME NEW n \in todo,
               incoming' = [incoming EXCEPT ![n] = @ \ {node}],
               ready' = IF Waits(n, node) THEN ready ELSE Append(ready, n),
               todo' = todo \ {n}, UNCHANGED pc
        PROVE  GraphInv'
    <2>1. n \in Ids
      BY <1>2
    <2>2. TypeOK'
      <3>1. ready' \in Seq(Ids)
        BY <1>2, <1>6, <2>1, AppendFacts
      <3>2. incoming' \in [Ids -> SUBSET Ids]
        BY <1>2, <1>6
      <3>. QED
        BY <1>1, <1>2, <1>6, <3>1, <3>2 DEF TypeOK, Release
    <2>3. UnpoppedAreIncoming'
      BY <1>1, <1>2, <1>3, <1>6 DEF UnpoppedAreIncoming
    <2>4. ReadyAreFree'
      <3>1. CASE Waits(n, node)
        BY <1>1, <1>6, <3>1 DEF ReadyAreFree
      <3>2. CASE ~Waits(n, node)
        \* Only the popped node was left in n's incoming set.
        <4>1. Before(n) \subseteq Popped
          BY <1>2, <1>3, <2>1, <3>2 DEF UnpoppedAreIncoming, Waits
        <4>. QED
          BY <1>1, <1>2, <1>6, <2>1, <3>2, <4>1, AppendFacts DEF ReadyAreFree
      <3>. QED
        BY <3>1, <3>2
    <2>. QED
      BY <1>4, <2>2, <2>3, <2>4
  <1>. QED
    BY <1>5, <1>6 DEF Release

\* The verdict changes neither the order nor the deque.
LEMMA FinishStep == GraphInv /\ (Finish \/ UNCHANGED vars) => GraphInv'
  <1>. SUFFICES ASSUME GraphInv, Finish \/ UNCHANGED vars PROVE GraphInv'
    OBVIOUS
  <1>1. /\ Ids' = Ids /\ Popped' = Popped /\ \A n : Before(n)' = Before(n)
        /\ UNCHANGED <<g, incoming, ready, ordered, todo>>
        /\ pc' = pc \/ (pc = "pop" /\ pc' \in {"ordered", "cycle"})
    BY DEF Ids, Popped, Before, Finish, Verdict, vars
  <1>. QED
    BY <1>1 DEF GraphInv, TypeOK, SeedsAreFree, UnpoppedAreIncoming, ReadyAreFree,
                OrderRespectsEdges

\* topological_order puts every step after all the steps it depends on.
THEOREM OrderTheorem == Spec => []OrderRespectsEdges
  <1>1. GraphInv /\ [Next]_vars => GraphInv'
    BY StartStep, SeedStep, PopStep, ReleaseStep, FinishStep DEF Next
  <1>2. GraphInv => OrderRespectsEdges
    BY DEF GraphInv
  <1>. QED
    BY <1>1, <1>2, GraphInit, PTL DEF Spec
-----------------------------------------------------------------------------
(* The verdict.  The order says nothing of the nodes left out of it.  For   *)
(* those the loops must not forget a node: one whose predecessors are all   *)
(* popped is in the deque or popped itself, and an id that occurs once is   *)
(* popped once.                                                             *)

Stages == {"start", "seed", "pop", "release", "ordered", "missing", "cycle"}

\* Where the program is, and what the verdicts stand for.
StageOK ==
    /\ pc \in Stages
    /\ pc = "missing" => ~ Closed
    /\ pc \notin {"start", "missing"} => Closed
    /\ pc \in {"start", "seed"} => ordered = <<>>
    /\ pc = "start" => ready = <<>>
    /\ pc \in {"ordered", "cycle"} => ready = <<>>
    /\ pc = "ordered" => Len(ordered) = Len(g.ids)
    /\ pc = "cycle" => Len(ordered) # Len(g.ids)

\* The node whose successors are being released.
Releasing(n) == pc = "release" /\ n = ordered[Len(ordered)]

\* An incoming set holds predecessors, and a popped one only until its turn to be
\* discarded.
PoppedAreGone ==
    pc \notin {"start", "missing"} =>
        \A n \in Ids : \A m \in incoming[n] :
            /\ m \in Before(n)
            /\ m \in Popped => Releasing(m) /\ n \in todo

\* A node is queued only when its incoming set is empty, and no node whose set is
\* empty is forgotten.
QueuedAreEmpty ==
    pc \notin {"start", "missing"} =>
        \A n \in Popped \cup Range(ready) : incoming[n] = {}

EmptyAreQueued ==
    pc \notin {"start", "missing"} =>
        \A n \in Ids : incoming[n] = {} =>
            \/ n \in Popped \cup Range(ready)
            \/ pc = "seed" /\ \E i \in todo : g.ids[i] = n

\* When no id is repeated, none is queued or popped twice: what is still to be
\* seeded or released is not queued yet.
NoRepeats ==
    IsInjective(g.ids) =>
        /\ IsInjective(ordered) /\ IsInjective(ready)
        /\ Popped \cap Range(ready) = {}
        /\ pc = "seed" => \A i \in todo : g.ids[i] \notin Range(ready)
        /\ pc = "release" => \A n \in todo : ordered[Len(ordered)] \in incoming[n]

VerdictInv ==
    GraphInv /\ StageOK /\ PoppedAreGone /\ QueuedAreEmpty /\ EmptyAreQueued /\ NoRepeats


\* An entry that is not in a sequence without repetitions may be appended to it.
LEMMA InjectiveAppend ==
    ASSUME NEW S, NEW s \in Seq(S), NEW e \in S, IsInjective(s), e \notin Range(s)
    PROVE  IsInjective(Append(s, e))
  <1>1. \A i \in 1..Len(s) : s[i] # e
    BY AppendFacts DEF Range
  <1>2. \A i, j \in 1..Len(s) : s[i] = s[j] => i = j
    BY AppendFacts DEF IsInjective
  <1>. SUFFICES ASSUME NEW i \in 1..(Len(s) + 1), NEW j \in 1..(Len(s) + 1),
                       Append(s, e)[i] = Append(s, e)[j]
                PROVE  i = j
    BY AppendFacts DEF IsInjective
  <1>3. /\ i \in 1..Len(s) \/ i = Len(s) + 1
        /\ j \in 1..Len(s) \/ j = Len(s) + 1
    OBVIOUS
  <1>. QED
    BY <1>1, <1>2, <1>3, AppendFacts

\* popleft takes one entry out of the range, for good if there was no other.
LEMMA RangeOfTail ==
    ASSUME NEW S, NEW s \in Seq(S), s # <<>>
    PROVE  /\ Range(s) = {Head(s)} \cup Range(Tail(s))
           /\ IsInjective(s) => IsInjective(Tail(s)) /\ Head(s) \notin Range(Tail(s))
  <1>1. DOMAIN s = 1..Len(s) /\ Len(s) \in Nat \ {0} /\ DOMAIN Tail(s) = 1..(Len(s) - 1)
    OBVIOUS
  <1>2. ASSUME NEW x \in Range(s) PROVE x \in {Head(s)} \cup Range(Tail(s))
    <2>1. PICK i \in DOMAIN s : s[i] = x
      BY <1>2 DEF Range
    <2>2. CASE i = 1
      BY <2>1, <2>2, TailFacts
    <2>3. CASE i # 1
      <3>1. i - 1 \in DOMAIN Tail(s)
        BY <1>1, <2>3
      <3>2. Tail(s)[i - 1] = x
        BY <1>1, <2>1, <3>1, TailFacts
      <3>. QED
        BY <3>1, <3>2 DEF Range
    <2>. QED
      BY <2>2, <2>3
  <1>3. ASSUME NEW x \in {Head(s)} \cup Range(Tail(s)) PROVE x \in Range(s)
    BY <1>3, TailFacts DEF Range
  <1>4. ASSUME IsInjective(s)
        PROVE  IsInjective(Tail(s)) /\ Head(s) \notin Range(Tail(s))
    <2>1. \A i, j \in DOMAIN s : s[i] = s[j] => i = j
      BY <1>4 DEF IsInjective
    <2>2. \A i \in DOMAIN Tail(s) : i \in Nat /\ i >= 1 /\ i + 1 # 1
      BY <1>1
    <2>3. IsInjective(Tail(s))
      BY <2>1, <2>2, TailFacts DEF IsInjective
    <2>4. Head(s) \notin Range(Tail(s))
      BY <2>1, <2>2, TailFacts DEF Range
    <2>. QED
      BY <2>3, <2>4
  <1>. QED
    BY <1>2, <1>3, <1>4

\* The empty deque has no entries and no repetition.
LEMMA EmptyFacts == Range(<<>>) = {} /\ IsInjective(<<>>)
  BY DEF Range, IsInjective

\* Nothing is queued before the maps are built.
LEMMA VerdictInit == Init => VerdictInv
  <1>. SUFFICES ASSUME Init PROVE VerdictInv
    OBVIOUS
  <1>1. GraphInv
    BY GraphInit
  <1>2. StageOK
    BY DEF Init, StageOK, Stages
  <1>3. PoppedAreGone /\ QueuedAreEmpty /\ EmptyAreQueued
    BY DEF Init, PoppedAreGone, QueuedAreEmpty, EmptyAreQueued
  <1>4. NoRepeats
    BY EmptyFacts DEF Init, NoRepeats, Popped
  <1>. QED
    BY <1>1, <1>2, <1>3, <1>4 DEF VerdictInv

\* The incoming sets are the predecessors, and every id without one is to be seeded.
LEMMA VerdictStart == VerdictInv /\ Start => VerdictInv'
  <1>. SUFFICES ASSUME VerdictInv, Start PROVE VerdictInv'
    OBVIOUS
  <1>1. Ids' = Ids /\ Popped' = Popped /\ (\A n : Before(n)' = Before(n)) /\ Closed' = Closed
    BY DEF Ids, Popped, Before, Start, Closed
  <1>2. ordered = <<>> /\ ready = <<>> /\ UNCHANGED <<g, ready, ordered>> /\ Popped = {}
    BY EmptyFacts DEF VerdictInv, StageOK, Start, Popped
  <1>3. GraphInv'
    BY StartStep DEF VerdictInv
  <1>4. StageOK'
    BY <1>1, <1>2 DEF StageOK, Stages, Start
  <1>5. CASE Closed
    <2>1. /\ pc' = "seed" /\ incoming' = [n \in Ids |-> Before(n)]
          /\ todo' = {i \in DOMAIN g.ids : Before(g.ids[i]) = {}}
      BY <1>5 DEF Start
    <2>2. PoppedAreGone'
      BY <1>1, <1>2, <2>1 DEF PoppedAreGone
    <2>3. QueuedAreEmpty'
      BY <1>1, <1>2, EmptyFacts DEF QueuedAreEmpty
    <2>4. EmptyAreQueued'
      BY <1>1, <1>2, <2>1 DEF EmptyAreQueued, Ids, Range
    <2>5. NoRepeats'
      BY <1>1, <1>2, <2>1, EmptyFacts DEF NoRepeats
    <2>. QED
      BY <1>3, <1>4, <2>2, <2>3, <2>4, <2>5 DEF VerdictInv
  <1>6. CASE ~ Closed
    <2>1. pc' = "missing"
      BY <1>6 DEF Start
    <2>2. PoppedAreGone' /\ QueuedAreEmpty' /\ EmptyAreQueued'
      BY <2>1 DEF PoppedAreGone, QueuedAreEmpty, EmptyAreQueued
    <2>3. NoRepeats'
      BY <1>1, <1>2, <2>1, EmptyFacts DEF NoRepeats
    <2>. QED
      BY <1>3, <1>4, <2>2, <2>3 DEF VerdictInv
  <1>. QED
    BY <1>5, <1>6

\* A seed leaves the list of seeds as it enters the deque.
LEMMA VerdictSeed == VerdictInv /\ Seed => VerdictInv'
  <1>. SUFFICES ASSUME VerdictInv, Seed PROVE VerdictInv'
    OBVIOUS
  <1>. USE DEF VerdictInv
  <1>1. /\ Ids' = Ids /\ Popped' = Popped /\ (\A n : Before(n)' = Before(n)) /\ Closed' = Closed
        /\ pc = "seed" /\ UNCHANGED <<g, incoming, ordered>> /\ ordered = <<>> /\ Popped = {}
    BY EmptyFacts DEF Ids, Popped, Before, Seed, Closed, StageOK
  <1>2. GraphInv'
    BY SeedStep
  <1>3. ready \in Seq(Ids)
    BY DEF GraphInv, TypeOK
  <1>4. CASE todo = {} /\ pc' = "pop" /\ UNCHANGED <<ready, todo>>
    <2>1. StageOK'
      BY <1>1, <1>4 DEF StageOK, Stages
    <2>2. PoppedAreGone' /\ QueuedAreEmpty' /\ EmptyAreQueued'
      BY <1>1, <1>4 DEF PoppedAreGone, QueuedAreEmpty, EmptyAreQueued
    <2>3. NoRepeats'
      BY <1>1, <1>4 DEF NoRepeats
    <2>. QED
      BY <1>2, <2>1, <2>2, <2>3
  <1>5. ASSUME NEW i \in todo,
               ready' = Append(ready, g.ids[i]), todo' = todo \ {i}, UNCHANGED pc
        PROVE  VerdictInv'
    <2>1. i \in DOMAIN g.ids /\ g.ids[i] \in Ids /\ Before(g.ids[i]) = {}
      BY <1>1, GraphTypes DEF GraphInv, TypeOK, SeedsAreFree
    <2>2. Range(ready') = Range(ready) \cup {g.ids[i]}
      BY <1>3, <1>5, <2>1, RangeOfAppend
    <2>3. StageOK'
      BY <1>1, <1>5 DEF StageOK
    <2>4. PoppedAreGone'
      BY <1>1, <1>5 DEF PoppedAreGone
    <2>5. incoming[g.ids[i]] = {}
      BY <1>1, <2>1 DEF PoppedAreGone
    <2>6. QueuedAreEmpty'
      BY <1>1, <1>5, <2>2, <2>5 DEF QueuedAreEmpty
    <2>7. EmptyAreQueued'
      BY <1>1, <1>5, <2>2 DEF EmptyAreQueued
    <2>8. ASSUME IsInjective(g.ids)
          PROVE  /\ IsInjective(ready')
                 /\ \A j \in todo' : g.ids[j] \notin Range(ready')
      <3>1. g.ids[i] \notin Range(ready) /\ IsInjective(ready)
        BY <1>1, <2>8 DEF NoRepeats
      <3>2. IsInjective(ready')
        BY <1>3, <1>5, <2>1, <3>1, InjectiveAppend
      <3>3. \A j \in todo : j \in DOMAIN g.ids /\ g.ids[j] \notin Range(ready)
        BY <1>1, <2>8 DEF NoRepeats, GraphInv, TypeOK
      <3>4. \A j \in todo' : g.ids[j] # g.ids[i]
        BY <1>5, <2>1, <2>8, <3>3 DEF IsInjective
      <3>. QED
        BY <1>5, <2>2, <3>2, <3>3, <3>4
    <2>9. NoRepeats'
      BY <1>1, <1>5, <2>8 DEF NoRepeats
    <2>. QED
      BY <1>2, <2>3, <2>4, <2>6, <2>7, <2>9
  <1>. QED
    BY <1>4, <1>5 DEF Seed


\* The node popped leaves the deque for the order; its successors still wait for it.
LEMMA VerdictPop == VerdictInv /\ Pop => VerdictInv'
  <1>. SUFFICES ASSUME VerdictInv, Pop PROVE VerdictInv'
    OBVIOUS
  <1>. USE DEF VerdictInv
  <1>. DEFINE node == Head(ready)
  <1>1. /\ Ids' = Ids /\ (\A n : Before(n)' = Before(n)) /\ Closed' = Closed
        /\ pc = "pop" /\ pc' = "release" /\ UNCHANGED <<g, incoming>>
        /\ todo' = Outgoing(node)
    BY DEF Ids, Before, Pop, Closed
  <1>2. /\ ready \in Seq(Ids) /\ ready # <<>> /\ ordered \in Seq(Ids)
        /\ ordered' = Append(ordered, node) /\ ready' = Tail(ready)
    BY DEF GraphInv, TypeOK, Pop
  <1>3. node \in Ids
    BY <1>2, TailFacts
  <1>4. Popped' = Popped \cup {node} /\ ordered'[Len(ordered')] = node
    BY <1>2, <1>3, RangeOfAppend, AppendFacts DEF Popped
  <1>5. Range(ready) = {node} \cup Range(ready')
    BY <1>2, RangeOfTail
  <1>6. GraphInv'
    BY PopStep
  <1>7. StageOK'
    BY <1>1 DEF StageOK, Stages
  <1>8. PoppedAreGone'
    <2>. SUFFICES ASSUME NEW n \in Ids, NEW m \in incoming[n]
                  PROVE  m \in Before(n) /\ (m \in Popped' => m = node /\ n \in Outgoing(node))
      BY <1>1, <1>4 DEF PoppedAreGone, Releasing
    <2>1. m \in Before(n) /\ m \notin Popped
      BY <1>1 DEF PoppedAreGone, Releasing
    <2>2. m = node => n \in Outgoing(node)
      BY <2>1 DEF Before, Outgoing
    <2>. QED
      BY <1>4, <2>1, <2>2
  <1>9. QueuedAreEmpty'
    BY <1>1, <1>4, <1>5 DEF QueuedAreEmpty
  <1>10. EmptyAreQueued'
    BY <1>1, <1>4, <1>5 DEF EmptyAreQueued
  <1>11. ASSUME IsInjective(g.ids)
         PROVE  /\ IsInjective(ordered') /\ IsInjective(ready')
                /\ Popped' \cap Range(ready') = {}
                /\ \A n \in todo' : node \in incoming[n]
    <2>1. /\ IsInjective(ordered) /\ IsInjective(ready)
          /\ node \notin Popped /\ Popped \cap Range(ready) = {}
      BY <1>5, <1>11 DEF NoRepeats
    <2>2. IsInjective(ordered')
      BY <1>2, <1>3, <2>1, InjectiveAppend DEF Popped
    <2>3. IsInjective(ready') /\ node \notin Range(ready')
      BY <1>2, <2>1, RangeOfTail
    <2>4. Popped' \cap Range(ready') = {}
      BY <1>4, <1>5, <2>1, <2>3
    <2>5. ASSUME NEW n \in Outgoing(node) PROVE node \in incoming[n]
      <3>1. n \in Ids /\ node \in Before(n)
        BY <1>3, <2>5 DEF Outgoing, Before
      <3>. QED
        BY <1>1, <2>1, <3>1 DEF GraphInv, UnpoppedAreIncoming
    <2>. QED
      BY <1>1, <2>2, <2>3, <2>4, <2>5
  <1>12. NoRepeats'
    BY <1>1, <1>4, <1>11 DEF NoRepeats
  <1>. QED
    BY <1>6, <1>7, <1>8, <1>9, <1>10, <1>12

\* A successor enters the deque when its last predecessor is discarded, and only
\* then: before, its incoming set still held the node being released.
LEMMA VerdictRelease == VerdictInv /\ Release => VerdictInv'
  <1>. SUFFICES ASSUME VerdictInv, Release PROVE VerdictInv'
    OBVIOUS
  <1>. USE DEF VerdictInv
  <1>. DEFINE node == ordered[Len(ordered)]
  <1>1. /\ Ids' = Ids /\ Popped' = Popped /\ (\A n : Before(n)' = Before(n)) /\ Closed' = Closed
        /\ pc = "release" /\ UNCHANGED <<g, ordered>>
    BY DEF Ids, Popped, Before, Closed, Release
  <1>2. /\ ready \in Seq(Ids) /\ incoming \in [Ids -> SUBSET Ids] /\ todo \subseteq Ids
    BY <1>1 DEF GraphInv, TypeOK
  <1>3. GraphInv'
    BY ReleaseStep
  <1>4. CASE todo = {} /\ pc' = "pop" /\ UNCHANGED <<incoming, ready, todo>>
    <2>1. StageOK'
      BY <1>1, <1>4 DEF StageOK, Stages
    <2>2. PoppedAreGone'
      BY <1>1, <1>4 DEF PoppedAreGone, Releasing
    <2>3. QueuedAreEmpty' /\ EmptyAreQueued'
      BY <1>1, <1>4 DEF QueuedAreEmpty, EmptyAreQueued
    <2>4. NoRepeats'
      BY <1>1, <1>4 DEF NoRepeats
    <2>. QED
      BY <1>3, <2>1, <2>2, <2>3, <2>4
  <1>5. ASSUME NEW n \in todo,
               incoming' = [incoming EXCEPT ![n] = @ \ {node}],
               ready' = IF Waits(n, node) THEN ready ELSE Append(ready, n),
               todo' = todo \ {n}, UNCHANGED pc
        PROVE  VerdictInv'
    <2>1. n \in Ids
      BY <1>2
    <2>2. /\ incoming'[n] = incoming[n] \ {node}
          /\ \A m \in Ids : m # n => incoming'[m] = incoming[m]
      BY <1>2, <1>5, <2>1
    <2>3. Range(ready') = Range(ready) \cup (IF incoming'[n] = {} THEN {n} ELSE {})
      BY <1>2, <1>5, <2>1, <2>2, RangeOfAppend DEF Waits
    <2>4. StageOK'
      BY <1>1, <1>5 DEF StageOK
    <2>5. PoppedAreGone'
      BY <1>1, <1>5, <2>1, <2>2 DEF PoppedAreGone, Releasing
    <2>6. QueuedAreEmpty'
      <3>. SUFFICES ASSUME NEW m \in Popped \cup Range(ready') PROVE incoming'[m] = {}
        BY <1>1 DEF QueuedAreEmpty
      <3>1. CASE m \in Popped \cup Range(ready)
        <4>1. incoming[m] = {} /\ m \in Ids
          BY <1>1, <1>2, <3>1 DEF QueuedAreEmpty, Popped, Range, GraphInv, TypeOK
        <4>. QED
          BY <2>2, <4>1
      <3>2. CASE m \notin Popped \cup Range(ready)
        BY <2>3, <3>2
      <3>. QED
        BY <3>1, <3>2
    <2>7. EmptyAreQueued'
      BY <1>1, <1>5, <2>1, <2>2, <2>3 DEF EmptyAreQueued
    <2>8. ASSUME IsInjective(g.ids)
          PROVE  /\ IsInjective(ready')
                 /\ Popped \cap Range(ready') = {}
                 /\ \A m \in todo' : node \in incoming'[m]
      <3>1. /\ IsInjective(ready) /\ Popped \cap Range(ready) = {}
            /\ \A m \in todo : node \in incoming[m]
        BY <1>1, <2>8 DEF NoRepeats
      <3>2. n \notin Popped \cup Range(ready)
        BY <1>1, <3>1 DEF QueuedAreEmpty
      <3>3. IsInjective(ready')
        BY <1>2, <1>5, <2>1, <3>1, <3>2, InjectiveAppend
      <3>4. Popped \cap Range(ready') = {}
        BY <2>3, <3>1, <3>2
      <3>5. \A m \in todo' : node \in incoming'[m]
        BY <1>2, <1>5, <2>2, <3>1
      <3>. QED
        BY <3>3, <3>4, <3>5
    <2>9. NoRepeats'
      BY <1>1, <1>5, <2>8 DEF NoRepeats
    <2>. QED
      BY <1>3, <2>4, <2>5, <2>6, <2>7, <2>9
  <1>. QED
    BY <1>4, <1>5 DEF Release

\* The verdict is taken on an empty deque.
LEMMA VerdictFinish == VerdictInv /\ (Finish \/ UNCHANGED vars) => VerdictInv'
  <1>. SUFFICES ASSUME VerdictInv, Finish \/ UNCHANGED vars PROVE VerdictInv'
    OBVIOUS
  <1>. USE DEF VerdictInv
  <1>1. /\ Ids' = Ids /\ Popped' = Popped /\ (\A n : Before(n)' = Before(n)) /\ Closed' = Closed
        /\ UNCHANGED <<g, incoming, ready, ordered, todo>>
    BY DEF Ids, Popped, Before, Closed, Finish, vars
  <1>2. \/ pc' = pc
        \/ pc = "pop" /\ ready = <<>> /\ pc' = Verdict
    BY DEF Finish, vars
  <1>3. GraphInv'
    BY FinishStep
  <1>4. StageOK'
    BY <1>1, <1>2 DEF StageOK, Stages, Verdict
  <1>5. PoppedAreGone' /\ QueuedAreEmpty' /\ EmptyAreQueued' /\ NoRepeats'
    BY <1>1, <1>2 DEF PoppedAreGone, Releasing, QueuedAreEmpty, EmptyAreQueued, NoRepeats, Verdict
  <1>. QED
    BY <1>3, <1>4, <1>5

\* The inductive invariant behind the verdict, for every graph.
THEOREM VerdictInvariant == Spec => []VerdictInv
  <1>1. VerdictInv /\ [Next]_vars => VerdictInv'
    BY VerdictStart, VerdictSeed, VerdictPop, VerdictRelease, VerdictFinish DEF Next
  <1>. QED
    BY <1>1, VerdictInit, PTL DEF Spec


-----------------------------------------------------------------------------
(* What the verdict means. *)

\* A set of naturals has a least element.
LEMMA LeastNatural ==
    ASSUME NEW T \in SUBSET Nat, T # {}
    PROVE  \E x \in T : \A y \in T : x <= y
  <1>1. \E x \in T : \A y \in T : ~ (<<y, x>> \in OpToRel(<, Nat))
    BY NatLessThanWellFounded, WFMin
  <1>2. PICK x \in T : \A y \in T : ~ (<<y, x>> \in OpToRel(<, Nat))
    BY <1>1
  <1>3. \A y \in T : ~ (y < x)
    BY <1>2 DEF OpToRel
  <1>. QED
    BY <1>3

\* A sequence repeats nothing exactly when it has as many values as entries.
LEMMA InjectiveIsUnique ==
    ASSUME NEW S, NEW s \in Seq(S)
    PROVE  /\ IsFiniteSet(Range(s))
           /\ IsInjective(s) <=> Cardinality(Range(s)) = Len(s)
  <1>1. Len(s) \in Nat /\ DOMAIN s = 1..Len(s)
    OBVIOUS
  <1>2. IsFiniteSet(1..Len(s)) /\ Cardinality(1..Len(s)) = Len(s)
    BY <1>1, FS_Interval
  <1>3. s \in [1..Len(s) -> Range(s)] /\ \A y \in Range(s) : \E x \in 1..Len(s) : s[x] = y
    BY <1>1 DEF Range
  <1>4. s \in Surjection(1..Len(s), Range(s))
    BY <1>3 DEF Surjection
  <1>5. /\ IsFiniteSet(Range(s))
        /\ Cardinality(Range(s)) = Cardinality(1..Len(s)) <=> s \in Injection(1..Len(s), Range(s))
    BY <1>2, <1>4, FS_Surjection
  <1>6. s \in Injection(1..Len(s), Range(s)) <=> IsInjective(s)
    BY <1>1, <1>3 DEF Injection, IsInjective
  <1>. QED
    BY <1>2, <1>5, <1>6

\* An unfinished node waits for an unfinished node: with an empty deque no
\* incoming set of a node that was not popped is empty.
LEMMA SomeoneWaits ==
    ASSUME VerdictInv, pc \in {"ordered", "cycle"}, NEW n \in Ids \ Popped
    PROVE  \E m \in Before(n) : m \in Ids \ Popped
  <1>1. ready = <<>> /\ Range(ready) = {}
    BY EmptyFacts DEF VerdictInv, StageOK
  <1>2. incoming[n] # {}
    BY <1>1 DEF VerdictInv, EmptyAreQueued
  <1>3. PICK m \in incoming[n] : TRUE
    BY <1>2
  <1>4. m \in Before(n) /\ m \notin Popped
    BY <1>3 DEF VerdictInv, PoppedAreGone, Releasing
  <1>. QED
    BY <1>4 DEF Before

\* An acyclic graph without repeated ids is ordered completely: of the nodes left
\* out, one with the least number would wait for another.
LEMMA AcyclicIsOrdered ==
    ASSUME VerdictInv, pc \in {"ordered", "cycle"}, Unique, Acyclic
    PROVE  pc = "ordered" /\ Popped = Ids
  <1>1. PICK num \in [Ids -> 1..Cardinality(Ids)] : \A e \in g.edges : num[e[1]] < num[e[2]]
    BY DEF Acyclic
  <1>2. g.ids \in Seq(Nat) /\ ordered \in Seq(Ids)
    BY GraphTypes DEF VerdictInv, GraphInv, TypeOK
  <1>3. IsFiniteSet(Ids) /\ IsInjective(g.ids)
    BY <1>2, InjectiveIsUnique DEF Unique, Ids
  <1>4. Cardinality(Ids) \in Nat
    BY <1>3, FS_CardinalityType
  <1>5. ASSUME Ids \ Popped # {} PROVE FALSE
    <2>. DEFINE T == {num[n] : n \in Ids \ Popped}
    <2>1. T \in SUBSET Nat /\ T # {}
      BY <1>1, <1>4, <1>5
    <2>2. PICK n \in Ids \ Popped : \A m \in Ids \ Popped : num[n] <= num[m]
      <3>1. \E x \in T : \A y \in T : x <= y
        <4>. HIDE DEF T
        <4>. QED
          BY <2>1, LeastNatural
      <3>. QED
        BY <3>1
    <2>3. PICK m \in Before(n) : m \in Ids \ Popped
      BY SomeoneWaits
    <2>4. num[m] < num[n]
      <3>1. <<m, n>> \in g.edges
        BY DEF Before
      <3>. QED
        BY <1>1, <3>1
    <2>5. num[m] \in Nat /\ num[n] \in Nat
      BY <1>1, <1>4, <2>2, <2>3
    <2>. QED
      BY <2>2, <2>3, <2>4, <2>5
  <1>6. Popped = Ids
    BY <1>2, <1>5 DEF Popped, Range
  <1>7. IsInjective(ordered)
    BY <1>3 DEF VerdictInv, NoRepeats
  <1>8. Len(ordered) = Len(g.ids)
    BY <1>2, <1>6, <1>7, InjectiveIsUnique DEF Unique, Popped
  <1>. QED
    BY <1>6, <1>8 DEF VerdictInv, StageOK

\* A complete order of a graph without repeated ids numbers its nodes along the
\* edges.
LEMMA OrderedIsAcyclic ==
    ASSUME VerdictInv, pc = "ordered", Unique
    PROVE  Acyclic
  <1>1. /\ g.ids \in Seq(Nat) /\ ordered \in Seq(Ids) /\ Len(ordered) = Len(g.ids)
        /\ Closed /\ OrderRespectsEdges
    BY GraphTypes DEF VerdictInv, GraphInv, TypeOK, StageOK
  <1>2. IsFiniteSet(Ids) /\ IsInjective(g.ids)
    BY <1>1, InjectiveIsUnique DEF Unique, Ids
  <1>3. IsInjective(ordered)
    BY <1>2 DEF VerdictInv, NoRepeats
  <1>4. Cardinality(Popped) = Cardinality(Ids) /\ Popped \in SUBSET Ids
    <2>1. Cardinality(Popped) = Len(ordered)
      BY <1>1, <1>3, InjectiveIsUnique DEF Popped
    <2>2. Popped \in SUBSET Ids
      BY <1>1 DEF Popped, Range
    <2>. QED
      BY <1>1, <2>1, <2>2 DEF Unique
  <1>5. Popped = Ids
    BY <1>2, <1>4, FS_Subset
  <1>6. DOMAIN ordered = 1..Cardinality(Ids)
    BY <1>1 DEF Unique
  <1>. DEFINE num == [n \in Ids |-> CHOOSE i \in DOMAIN ordered : ordered[i] = n]
  <1>7. \A n \in Ids : num[n] \in DOMAIN ordered /\ ordered[num[n]] = n
    <2>. SUFFICES ASSUME NEW n \in Ids
                  PROVE  num[n] \in DOMAIN ordered /\ ordered[num[n]] = n
      OBVIOUS
    <2>1. \E i \in DOMAIN ordered : ordered[i] = n
      BY <1>5 DEF Popped, Range
    <2>. QED
      BY <2>1
  <1>8. num \in [Ids -> 1..Cardinality(Ids)]
    BY <1>6, <1>7
  <1>. HIDE DEF num
  <1>9. ASSUME NEW e \in g.edges PROVE num[e[1]] < num[e[2]]
    <2>1. e[1] \in Ids /\ e[2] \in Ids /\ e[1] \in Before(e[2])
      BY <1>1 DEF Closed, Before
    <2>2. num[e[2]] \in DOMAIN ordered /\ ordered[num[e[2]]] = e[2]
      BY <1>7, <2>1
    <2>3. PICK j \in 1..(num[e[2]] - 1) : ordered[j] = e[1]
      BY <1>1, <2>1, <2>2 DEF OrderRespectsEdges
    <2>4. num[e[2]] \in Nat /\ j \in DOMAIN ordered /\ j < num[e[2]]
      BY <1>1, <2>2, <2>3
    <2>5. j = num[e[1]]
      BY <1>3, <1>7, <2>1, <2>3, <2>4 DEF IsInjective
    <2>. QED
      BY <2>4, <2>5
  <1>. QED
    BY <1>8, <1>9 DEF Acyclic

\* validate_execution_graph_mapping reports nothing exactly on the graphs that are
\* well formed and acyclic, whatever their size.
THEOREM ValidatorTheorem == Spec => []ValidatorIsExact
  <1>1. ASSUME VerdictInv PROVE ValidatorIsExact
    <2>. SUFFICES ASSUME Done
                  PROVE  Findings = {} <=> Unique /\ g.terminal \in Ids /\ Closed /\ Acyclic
      BY DEF ValidatorIsExact
    <2>1. pc \in {"ordered", "missing", "cycle"}
      BY DEF Done
    <2>2. Findings = {} <=> Unique /\ g.terminal \in Ids /\ pc = "ordered"
      BY <2>1 DEF Findings, Unique
    <2>3. pc = "missing" => ~ Closed
      BY <1>1 DEF VerdictInv, StageOK
    <2>4. pc = "ordered" => Closed
      BY <1>1 DEF VerdictInv, StageOK
    <2>5. pc = "ordered" /\ Unique => Acyclic
      BY <1>1, OrderedIsAcyclic
    <2>6. pc # "missing" /\ Unique /\ Acyclic => pc = "ordered"
      BY <1>1, <2>1, AcyclicIsOrdered
    <2>. QED
      BY <2>2, <2>3, <2>4, <2>5, <2>6
  <1>. QED
    BY <1>1, VerdictInvariant, PTL

\* The order of a chain is the chain: the first node out of place would come
\* before its own predecessor.
THEOREM ChainTheorem == Spec => []ChainKeepsStepOrder
  <1>1. ASSUME VerdictInv PROVE ChainKeepsStepOrder
    <2>. SUFFICES ASSUME Done, Unique,
                         g.edges = {<<g.ids[i], g.ids[i + 1]>> : i \in 1..(Len(g.ids) - 1)}
                  PROVE  pc = "ordered" /\ ordered = g.ids
      BY DEF ChainKeepsStepOrder
    <2>. DEFINE N == Len(g.ids)
    <2>1. /\ g.ids \in Seq(Nat) /\ ordered \in Seq(Ids) /\ N \in Nat
          /\ DOMAIN g.ids = 1..N /\ OrderRespectsEdges
          /\ \A i \in 1..N : g.ids[i] \in Ids
      BY <1>1, GraphTypes DEF VerdictInv, GraphInv, TypeOK
    <2>2. IsInjective(g.ids) /\ Cardinality(Ids) = N
      BY <2>1, InjectiveIsUnique DEF Unique, Ids
    <2>3. Closed
      <3>1. \A i \in 1..(N - 1) : i \in 1..N /\ i + 1 \in 1..N
        BY <2>1
      <3>2. \A i \in 1..(N - 1) : <<g.ids[i], g.ids[i + 1]>> \in Ids \X Ids
        BY <2>1, <3>1
      <3>. QED
        BY <3>2 DEF Closed
    <2>4. Acyclic
      <3>. DEFINE num == [n \in Ids |-> CHOOSE i \in DOMAIN g.ids : g.ids[i] = n]
      <3>1. ASSUME NEW i \in 1..N PROVE num[g.ids[i]] = i
        <4>1. g.ids[i] \in Ids /\ num[g.ids[i]] \in 1..N /\ g.ids[num[g.ids[i]]] = g.ids[i]
          BY <2>1
        <4>. QED
          BY <2>1, <2>2, <4>1 DEF IsInjective
      <3>2. \A n \in Ids : num[n] \in 1..N
        BY <2>1, <3>1 DEF Ids, Range
      <3>3. num \in [Ids -> 1..Cardinality(Ids)]
        BY <2>2, <3>2
      <3>. HIDE DEF num
      <3>4. ASSUME NEW e \in g.edges PROVE num[e[1]] < num[e[2]]
        <4>1. PICK i \in 1..(N - 1) : e = <<g.ids[i], g.ids[i + 1]>>
          OBVIOUS
        <4>2. i \in 1..N /\ i + 1 \in 1..N
          BY <2>1
        <4>3. num[e[1]] = i /\ num[e[2]] = i + 1
          BY <3>1, <4>1, <4>2
        <4>. QED
          BY <4>3
      <3>. QED
        BY <3>3, <3>4 DEF Acyclic
    <2>5. pc = "ordered" /\ Popped = Ids
      <3>1. pc \in {"ordered", "cycle"}
        BY <1>1, <2>3 DEF Done, VerdictInv, StageOK
      <3>. QED
        BY <1>1, <2>4, <3>1, AcyclicIsOrdered
    <2>6. Len(ordered) = N /\ DOMAIN ordered = 1..N /\ IsInjective(ordered)
      BY <1>1, <2>1, <2>2, <2>5 DEF VerdictInv, StageOK, NoRepeats
    <2>7. ASSUME ordered # g.ids PROVE FALSE
      <3>. DEFINE T == {i \in 1..N : ordered[i] # g.ids[i]}
      <3>1. T # {} /\ T \in SUBSET Nat
        <4>1. \E i \in 1..N : ordered[i] # g.ids[i]
          BY <2>1, <2>6, <2>7
        <4>. QED
          BY <2>1, <4>1
      <3>2. PICK i \in T : \A j \in T : i <= j
        <4>. HIDE DEF T
        <4>. QED
          BY <3>1, LeastNatural
      <3>3. i \in 1..N /\ ordered[i] # g.ids[i] /\ \A j \in 1..(i - 1) : ordered[j] = g.ids[j]
        BY <2>1, <3>2
      <3>4. PICK k \in 1..N : g.ids[k] = ordered[i]
        <4>1. ordered[i] \in Ids
          BY <2>1, <2>6, <3>3
        <4>. QED
          BY <2>1, <4>1 DEF Ids, Range
      <3>5. k > i
        <4>1. CASE k < i
          <5>1. ordered[k] = ordered[i] /\ k \in 1..N
            BY <3>3, <3>4, <4>1
          <5>2. k = i
            BY <2>6, <3>3, <5>1 DEF IsInjective
          <5>. QED
            BY <4>1, <5>2
        <4>2. k # i
          BY <3>3, <3>4
        <4>. QED
          BY <2>1, <3>3, <4>1, <4>2
      \* Its predecessor in the chain was ordered before it, hence in its own place.
      <3>6. k - 1 \in 1..(N - 1) /\ k - 1 \in 1..N /\ k - 1 + 1 = k
        BY <2>1, <3>3, <3>5
      <3>7. <<g.ids[k - 1], g.ids[k]>> \in g.edges
        BY <3>6
      <3>8. g.ids[k - 1] \in Before(ordered[i])
        BY <2>1, <3>4, <3>6, <3>7 DEF Before
      <3>9. PICK p \in 1..(i - 1) : ordered[p] = g.ids[k - 1]
        BY <2>1, <2>6, <3>3, <3>8 DEF OrderRespectsEdges
      <3>10. p \in 1..N /\ g.ids[p] = g.ids[k - 1]
        <4>1. p \in 1..N
          BY <2>1, <3>3, <3>9
        <4>. QED
          BY <3>3, <3>9, <4>1
      <3>11. p = k - 1
        BY <2>1, <2>2, <3>6, <3>10 DEF IsInjective
      <3>. QED
        BY <3>3, <3>5, <3>9, <3>11
    <2>. QED
      BY <2>5, <2>7
  <1>. QED
    BY <1>1, VerdictInvariant, PTL

=============================================================================

------------------------- MODULE SupersessionProofs -------------------------
(***************************************************************************)
(* Proofs about supersession, for any set of items, domains and ranks and  *)
(* any number of references.                                               *)
(***************************************************************************)
EXTENDS Supersession, FiniteSetTheorems, TLAPS

-----------------------------------------------------------------------------
(* The rules, for an arbitrary index. *)

\* An index of claims whose domains are not item ids.
IsIndex(c) ==
  /\ \A i \in DOMAIN c : c[i].rank \in Nat
  /\ \A i \in DOMAIN c : c[i].domain \in Domains
  /\ DOMAIN c \subseteq Ids

\* Ranks never decrease along the edges the authority gate lets through.
LEMMA EdgeRanks ==
  ASSUME NEW c, NEW e \in Edges(c)
  PROVE  /\ e \in (DOMAIN c) \X (DOMAIN c)
         /\ c[e[1]].rank <= c[e[2]].rank
  BY DEF Edges, Proposed

\* What is reachable from a claim is no stronger than it: the claims no
\* stronger than i are closed under the edges.
LEMMA ReachableIsWeaker ==
  ASSUME NEW c, IsIndex(c), NEW i \in DOMAIN c, NEW j \in Reachable(DOMAIN c, Edges(c), i)
  PROVE  j \in DOMAIN c /\ c[i].rank <= c[j].rank
<1> DEFINE C == {x \in DOMAIN c : c[i].rank <= c[x].rank}
<1>1. ClosedFrom(Edges(c), C, i)
  <2> SUFFICES ASSUME NEW e \in Edges(c), e[1] \in C \cup {i}
               PROVE  e[2] \in C
    BY DEF ClosedFrom
  <2>1. e[1] \in DOMAIN c /\ e[2] \in DOMAIN c /\ c[e[1]].rank <= c[e[2]].rank
    BY EdgeRanks
  <2>2. c[i].rank <= c[e[1]].rank
    BY DEF IsIndex
  <2> QED BY <2>1, <2>2 DEF IsIndex
<1>2. C \in SUBSET DOMAIN c
  OBVIOUS
<1>3. j \in C
  BY <1>1, <1>2 DEF Reachable
<1> QED BY <1>3

\* The claims of a cycle all have the same rank.
LEMMA CycleRanks ==
  ASSUME NEW c, IsIndex(c), NEW i \in DOMAIN c,
         NEW j \in Component(DOMAIN c, Edges(c), i)
  PROVE  j \in DOMAIN c /\ c[i].rank = c[j].rank
<1>1. j \in Reachable(DOMAIN c, Edges(c), i) /\ i \in Reachable(DOMAIN c, Edges(c), j)
  BY DEF Component
<1>2. j \in DOMAIN c /\ c[i].rank <= c[j].rank
  BY <1>1, ReachableIsWeaker
<1>3. c[j].rank <= c[i].rank
  BY <1>1, <1>2, ReachableIsWeaker
<1> QED BY <1>2, <1>3 DEF IsIndex

\* Index d is index c with one more item, n.
Extends(d, c, n) ==
  /\ IsIndex(c) /\ IsIndex(d)
  /\ n \notin DOMAIN c
  /\ DOMAIN d = DOMAIN c \cup {n}
  /\ \A i \in DOMAIN c : d[i] = c[i]

\* Between the old items an additional one neither adds nor removes an edge.
LEMMA OldEdges ==
  ASSUME NEW c, NEW d, NEW n, Extends(d, c, n), NEW i \in DOMAIN c, NEW j \in DOMAIN c
  PROVE  <<i, j>> \in Edges(c) <=> <<i, j>> \in Edges(d)
<1>1. \A x, y \in DOMAIN c : \A ref : y \in Expand(c, x, ref) <=> y \in Expand(d, x, ref)
  <2> SUFFICES ASSUME NEW x \in DOMAIN c, NEW y \in DOMAIN c, NEW ref
               PROVE  y \in Expand(c, x, ref) <=> y \in Expand(d, x, ref)
    OBVIOUS
  <2>1. d[x] = c[x] /\ d[y] = c[y] /\ x \in DOMAIN d /\ y \in DOMAIN d
    BY DEF Extends
  <2>2. CASE ref \in DOMAIN c
    BY <2>2 DEF Extends, Expand
  <2>3. CASE ref = n
    <3>1. n \notin Domains
      BY DomainsAssumption DEF Extends, IsIndex
    <3>2. c[x].domain # n /\ c[y].domain # n
      BY <3>1 DEF Extends, IsIndex
    <3>3. y \notin Expand(c, x, ref)
      BY <2>3, <3>2 DEF Extends, Expand, Members
    <3>4. y \notin Expand(d, x, ref)
      BY <2>3 DEF Extends, Expand
    <3> QED BY <3>3, <3>4
  <2>4. CASE ref \notin DOMAIN d
    BY <2>1, <2>4 DEF Extends, Expand, Members
  <2> QED BY <2>2, <2>3, <2>4 DEF Extends
<1>2. d[i] = c[i] /\ d[j] = c[j] /\ i \in DOMAIN d /\ j \in DOMAIN d
  BY DEF Extends
<1>3. <<i, j>> \in Proposed(c) <=> <<i, j>> \in Proposed(d)
  BY <1>1, <1>2 DEF Proposed
<1> QED BY <1>2, <1>3 DEF Edges

\* An additional item puts no stronger claim on a cycle and takes none off.
LEMMA OldCycles ==
  ASSUME NEW c, NEW d, NEW n, Extends(d, c, n), NEW i \in DOMAIN c, c[i].rank < d[n].rank
  PROVE  i \in Cyclic(DOMAIN c, Edges(c)) <=> i \in Cyclic(DOMAIN d, Edges(d))
<1> DEFINE N == DOMAIN c
           M == DOMAIN d
           E == Edges(c)
           F == Edges(d)
<1>0. i \in M /\ N \subseteq M
  BY DEF Extends
<1>1. ASSUME i \in Reachable(N, E, i) PROVE i \in Reachable(M, F, i)
  <2> SUFFICES ASSUME NEW C \in SUBSET M, ClosedFrom(F, C, i) PROVE i \in C
    BY <1>0 DEF Reachable
  <2>1. ClosedFrom(E, C \cap N, i)
    <3> SUFFICES ASSUME NEW e \in E, e[1] \in (C \cap N) \cup {i} PROVE e[2] \in C \cap N
      BY DEF ClosedFrom
    <3>1. e[1] \in N /\ e[2] \in N /\ e = <<e[1], e[2]>>
      BY EdgeRanks
    <3>2. e \in F
      BY <3>1, OldEdges
    <3> QED BY <3>1, <3>2 DEF ClosedFrom
  <2>2. i \in C \cap N
    BY <2>1, <1>1 DEF Reachable
  <2> QED BY <2>2
<1>2. ASSUME i \in Reachable(M, F, i) PROVE i \in Reachable(N, E, i)
  <2> SUFFICES ASSUME NEW C \in SUBSET N, ClosedFrom(E, C, i) PROVE i \in C
    BY DEF Reachable
  <2> DEFINE D == C \cup {x \in M : d[n].rank <= d[x].rank}
  <2>1. ClosedFrom(F, D, i)
    <3> SUFFICES ASSUME NEW e \in F, e[1] \in D \cup {i} PROVE e[2] \in D
      BY DEF ClosedFrom
    <3>1. e[1] \in M /\ e[2] \in M /\ e = <<e[1], e[2]>> /\ d[e[1]].rank <= d[e[2]].rank
      BY EdgeRanks
    <3>2. d[e[1]].rank \in Nat /\ d[e[2]].rank \in Nat /\ d[n].rank \in Nat
      BY <3>1 DEF Extends, IsIndex
    <3>3. CASE e[2] = n
      BY <3>1, <3>2, <3>3
    <3>4. CASE e[1] \in C \cup {i} /\ e[2] # n
      <4>1. e[1] \in N /\ e[2] \in N
        BY <3>1, <3>4 DEF Extends
      <4>2. e \in E
        BY <3>1, <4>1, OldEdges
      <4> QED BY <3>4, <4>2 DEF ClosedFrom
    <3>5. CASE d[n].rank <= d[e[1]].rank
      BY <3>1, <3>2, <3>5
    <3> QED BY <3>3, <3>4, <3>5
  <2>2. D \in SUBSET M
    BY <1>0
  <2>3. i \in D
    BY <2>1, <2>2, <1>2 DEF Reachable
  <2>4. ~ (d[n].rank <= d[i].rank)
    BY <1>0 DEF Extends, IsIndex
  <2> QED BY <2>3, <2>4
<1> QED BY <1>0, <1>1, <1>2 DEF Cyclic

\* An additional item changes the fate of no strictly stronger claim.
LEMMA OldFates ==
  ASSUME NEW c, NEW d, NEW n, Extends(d, c, n), NEW i \in DOMAIN c, c[i].rank < d[n].rank
  PROVE  /\ i \in Outcome(c).cyclic <=> i \in Outcome(d).cyclic
         /\ i \in Outcome(c).survivors <=> i \in Outcome(d).survivors
<1> DEFINE K == Cyclic(DOMAIN c, Edges(c))
           L == Cyclic(DOMAIN d, Edges(d))
<1>1. i \in K <=> i \in L
  BY OldCycles
<1>2. i \in DOMAIN d /\ d[i] = c[i]
  BY DEF Extends
<1>3. ASSUME i \in Retired(Edges(c), K) PROVE i \in Retired(Edges(d), L)
  <2>1. PICK e \in Edges(c) : e[1] \notin K /\ e[2] = i
    BY <1>3 DEF Retired
  <2>2. e[1] \in DOMAIN c /\ e = <<e[1], i>> /\ c[e[1]].rank <= c[i].rank
    BY <2>1, EdgeRanks
  <2>3. e \in Edges(d)
    BY <2>2, OldEdges
  <2>4. c[e[1]].rank < d[n].rank
    BY <2>2 DEF Extends, IsIndex
  <2>5. e[1] \notin L
    BY <2>1, <2>2, <2>4, OldCycles
  <2> QED BY <2>1, <2>3, <2>5 DEF Retired
<1>4. ASSUME i \in Retired(Edges(d), L) PROVE i \in Retired(Edges(c), K)
  <2>1. PICK e \in Edges(d) : e[1] \notin L /\ e[2] = i
    BY <1>4 DEF Retired
  <2>2. e[1] \in DOMAIN d /\ e = <<e[1], i>> /\ d[e[1]].rank <= d[i].rank
    BY <2>1, EdgeRanks
  <2>3. e[1] # n
    BY <1>2, <2>2 DEF Extends, IsIndex
  <2>4. e[1] \in DOMAIN c
    BY <2>2, <2>3 DEF Extends
  <2>5. c[e[1]].rank < d[n].rank
    BY <1>2, <2>2, <2>4 DEF Extends, IsIndex
  <2>6. e \in Edges(c) /\ e[1] \notin K
    BY <2>1, <2>2, <2>4, <2>5, OldEdges, OldCycles
  <2> QED BY <2>1, <2>6 DEF Retired
<1> QED BY <1>1, <1>2, <1>3, <1>4 DEF Outcome, Surviving

\* The head of an edge is reachable from its tail.
LEMMA EdgeReaches ==
  ASSUME NEW N, NEW E, NEW i \in N, NEW j \in N, <<i, j>> \in E
  PROVE  j \in Reachable(N, E, i)
  BY DEF Reachable, ClosedFrom

\* What is reachable from a claim is reachable from whatever reaches it.
LEMMA ReachesFurther ==
  ASSUME NEW N, NEW E, NEW k \in N, NEW i \in Reachable(N, E, k), NEW j \in Reachable(N, E, i)
  PROVE  j \in Reachable(N, E, k)
<1> SUFFICES ASSUME NEW C \in SUBSET N, ClosedFrom(E, C, k) PROVE j \in C
  BY DEF Reachable
<1>1. i \in C
  BY DEF Reachable
<1>2. ClosedFrom(E, C, i)
  BY <1>1 DEF ClosedFrom
<1> QED BY <1>2 DEF Reachable

\* Whatever is reached from outside the cycles is reached from a claim that is
\* on no cycle and that nothing retires: a claim with the fewest others above
\* it, since a claim that retires it would have fewer.
LEMMA SomeoneStands ==
  ASSUME NEW N, IsFiniteSet(N), NEW E \in SUBSET (N \X N), NEW j,
         NEW start \in N \ Cyclic(N, E), j \in Reachable(N, E, start)
  PROVE  \E i \in N \ (Cyclic(N, E) \cup Retired(E, Cyclic(N, E))) : j \in Reachable(N, E, i)
<1> DEFINE K == Cyclic(N, E)
           P == {i \in N \ K : j \in Reachable(N, E, i)}
           Above(i) == {k \in N : i \in Reachable(N, E, k)}
           F == {Above(i) : i \in P}
<1>1. \E S \in F : \A T \in F : ~ (<<T, S>> \in StrictSubsetOrdering(N))
  <2>1. IsWellFoundedOn(StrictSubsetOrdering(N), SUBSET N)
    BY FS_StrictSubsetOrderingWellFounded, FS_FiniteSubsetsOfFinite
  <2>2. F \subseteq SUBSET N /\ F # {}
    <3>1. start \in P /\ Above(start) \in F
      OBVIOUS
    <3>2. \A i : Above(i) \in SUBSET N
      OBVIOUS
    <3> HIDE DEF P, Above
    <3> QED BY <3>1, <3>2
  <2> HIDE DEF F
  <2> QED BY <2>1, <2>2, WFMin
<1>2. PICK i \in P : \A k \in P : ~ (<<Above(k), Above(i)>> \in StrictSubsetOrdering(N))
  BY <1>1
<1>3. ASSUME i \in Retired(E, K) PROVE FALSE
  <2>1. PICK e \in E : e[1] \notin K /\ e[2] = i
    BY <1>3 DEF Retired
  <2> DEFINE k == e[1]
  <2>2. k \in N /\ <<k, i>> \in E
    BY <2>1
  <2>3. i \in Reachable(N, E, k)
    BY <2>2, EdgeReaches
  <2>4. k \in P
    BY <2>1, <2>2, <2>3, ReachesFurther
  <2>5. Above(k) \subseteq Above(i)
    BY <2>2, <2>3, ReachesFurther
  <2>6. k \in Above(i) /\ k \notin Above(k)
    BY <2>1, <2>2, <2>3 DEF Cyclic
  <2>7. <<Above(k), Above(i)>> \in StrictSubsetOrdering(N)
    BY <2>5, <2>6 DEF StrictSubsetOrdering
  <2> QED BY <1>2, <2>4, <2>7
<1> QED BY <1>2, <1>3

-----------------------------------------------------------------------------
(* The growing snapshot. *)

IInv ==
  /\ TypeOK
  /\ IsFiniteSet(DOMAIN snapshot)
  /\ outcome = Outcome(ByItem(snapshot))

\* The last level of an item is a rank.
LEMMA LastLevel ==
  ASSUME NEW s \in Seq(Ranks), s # <<>>
  PROVE  Last(s) \in Nat
<1>1. Len(s) \in 1 .. Len(s)
  OBVIOUS
<1>2. s[Len(s)] \in Ranks
  BY <1>1
<1> QED BY <1>2, RanksAssumption DEF Last

\* The index of a well-typed snapshot is one the lemmas apply to.
LEMMA IndexOfSnapshot ==
  ASSUME TypeOK
  PROVE  /\ IsIndex(ByItem(snapshot))
         /\ DOMAIN ByItem(snapshot) = DOMAIN snapshot
         /\ \A i \in DOMAIN snapshot : ByItem(snapshot)[i].rank = rank(i)
<1>1. ASSUME NEW i \in DOMAIN snapshot PROVE Last(snapshot[i].levels) \in Nat
  <2>1. snapshot[i].levels \in Seq(Ranks) /\ snapshot[i].levels # <<>>
    BY DEF TypeOK, Claims
  <2> QED BY <2>1, LastLevel
<1>2. \A i \in DOMAIN snapshot : snapshot[i].domain \in Domains
  BY DEF TypeOK, Claims
<1> QED BY <1>1, <1>2 DEF ByItem, IsIndex, TypeOK, rank

\* The outcome names only items of the index.
LEMMA OutcomeInDomain ==
  ASSUME NEW c
  PROVE  Outcome(c).survivors \cup Outcome(c).cyclic \subseteq DOMAIN c
  BY DEF Outcome, Surviving, Cyclic, Reachable

\* A step either leaves the items as they are or adds a single one.
LEMMA StepShape ==
  ASSUME IInv, Next
  PROVE  /\ IInv'
         /\ \/ DOMAIN snapshot' = DOMAIN snapshot
            \/ \E n \in Ids : Extends(ByItem(snapshot'), ByItem(snapshot), n)
<1>1. PICK i \in Ids, r \in Ranks :
        \/ SupplyCopy(i, r)
        \/ \E d \in Domains, st \in StatusesInUse, p \in RefSets :
             Supply(i, d, p[1], p[2], st, r)
  BY DEF Next
<1>2. CASE SupplyCopy(i, r)
  <2>1. /\ i \in DOMAIN snapshot
        /\ snapshot' = [snapshot EXCEPT ![i].levels = Append(@, r)]
        /\ outcome' = Outcome(ByItem(snapshot'))
    BY <1>2 DEF SupplyCopy, Resolve
  <2>2. DOMAIN snapshot' = DOMAIN snapshot
    BY <2>1
  <2>3. ASSUME NEW j \in DOMAIN snapshot'
        PROVE  snapshot'[j] \in Claims(j) /\ snapshot'[j].levels # <<>>
    <3>1. snapshot[j] \in Claims(j) /\ snapshot[j].levels # <<>>
      BY <2>2, <2>3 DEF IInv, TypeOK
    <3>2. CASE j # i
      BY <2>1, <2>2, <3>1, <3>2
    <3>3. CASE j = i
      <4>1. snapshot'[j] = [snapshot[j] EXCEPT !.levels = Append(snapshot[j].levels, r)]
        BY <2>1, <3>3
      <4>2. snapshot[j].levels \in Seq(Ranks)
        BY <3>1 DEF Claims
      <4>3. /\ Append(snapshot[j].levels, r) \in Seq(Ranks)
            /\ Append(snapshot[j].levels, r) # <<>>
        BY <4>2
      <4> QED BY <3>1, <4>1, <4>3 DEF Claims
    <3> QED BY <3>2, <3>3
  <2>4. DOMAIN ByItem(snapshot') = DOMAIN snapshot'
    BY DEF ByItem
  <2>5. outcome'.survivors \cup outcome'.cyclic \subseteq DOMAIN snapshot'
    BY <2>1, <2>4, OutcomeInDomain
  <2>6. TypeOK' /\ IsFiniteSet(DOMAIN snapshot')
    BY <2>2, <2>3, <2>5 DEF IInv, TypeOK
  <2> QED BY <2>1, <2>2, <2>6 DEF IInv
<1>3. ASSUME NEW d \in Domains, NEW st \in StatusesInUse, NEW over, NEW under,
             Supply(i, d, over, under, st, r)
      PROVE  IInv' /\ \E n \in Ids : Extends(ByItem(snapshot'), ByItem(snapshot), n)
  <2> DEFINE new == [domain |-> d, supersedes |-> over, supersededBy |-> under,
                     status |-> st, levels |-> <<r>>]
  <2>1. /\ i \notin DOMAIN snapshot
        /\ DOMAIN snapshot' = DOMAIN snapshot \cup {i}
        /\ snapshot'[i] = new
        /\ \A j \in DOMAIN snapshot : snapshot'[j] = snapshot[j]
        /\ outcome' = Outcome(ByItem(snapshot'))
    BY <1>3 DEF Supply, Resolve
  <2>2. new \in Claims(i) /\ new.levels # <<>>
    BY <1>3 DEF Claims, Supply
  <2>3. TypeOK'
    BY <2>1, <2>2, OutcomeInDomain DEF IInv, TypeOK, ByItem
  <2>4. IsIndex(ByItem(snapshot)) /\ IsIndex(ByItem(snapshot'))
    <3>1. TypeOK
      BY DEF IInv
    <3>2. IsIndex(ByItem(snapshot))
      BY <3>1, IndexOfSnapshot
    <3>3. (TypeOK => IsIndex(ByItem(snapshot)))'
      BY IndexOfSnapshot, PTL
    <3> QED BY <2>3, <3>2, <3>3
  <2>5. Extends(ByItem(snapshot'), ByItem(snapshot), i)
    BY <2>1, <2>4 DEF Extends, ByItem
  <2>6. IsFiniteSet(DOMAIN snapshot')
    BY <2>1, FS_AddElement DEF IInv
  <2> QED BY <2>1, <2>3, <2>5, <2>6 DEF IInv
<1> QED BY <1>1, <1>2, <1>3

\* The inductive invariant: the type, that the snapshot is finite, and that the
\* outcome is the resolution of the present snapshot.
THEOREM Inductive == Spec => []IInv
<1>1. Init => IInv
  BY OutcomeInDomain, FS_EmptySet DEF Init, IInv, TypeOK, ByItem
<1>2. IInv /\ [Next]_vars => IInv'
  <2>1. IInv /\ Next => IInv'
    BY StepShape
  <2>2. IInv /\ UNCHANGED vars => IInv'
    BY DEF IInv, TypeOK, vars
  <2> QED BY <2>1, <2>2
<1> QED BY <1>1, <1>2, PTL DEF Spec

\* Whatever the snapshot, a blocking unknown concerns governed claims only.
THEOREM GovernedTierBlocks == Spec => []OnlyGovernedBlocks
<1>1. IInv => OnlyGovernedBlocks
  <2> SUFFICES ASSUME IInv, NEW u \in outcome.unknowns, u.blocking, NEW j \in u.claims
               PROVE  rank(j) \in GovernedRanks
    BY DEF OnlyGovernedBlocks
  <2> DEFINE c == ByItem(snapshot)
             E == Edges(c)
             K == Cyclic(DOMAIN c, E)
  <2>1. /\ IsIndex(c)
        /\ DOMAIN c = DOMAIN snapshot
        /\ \A i \in DOMAIN snapshot : c[i].rank = rank(i)
    BY IndexOfSnapshot DEF IInv
  <2>2. outcome.unknowns = CycleUnknowns(c, E, K) \cup RefusedUnknowns(c, E)
                             \cup DanglingUnknowns(c)
    BY DEF IInv, Outcome
  <2> HIDE DEF c
  <2>3. u \in CycleUnknowns(c, E, K)
    BY <2>2 DEF RefusedUnknowns, DanglingUnknowns
  <2> DEFINE loop(i) == Component(DOMAIN c, E, i)
             reported(i) == [reason |-> "cycle", key |-> c[i].domain, claims |-> loop(i),
                             blocking |-> InDoubt(c, loop(i))]
  <2>4. PICK i \in K : u = reported(i)
    BY <2>3, Zenon DEF CycleUnknowns
  <2> HIDE DEF loop
  <2>5. u.claims = loop(i) /\ InDoubt(c, loop(i))
    BY <2>4
  <2> USE DEF loop
  <2>6. i \in DOMAIN c
    BY DEF Cyclic
  <2>7. PICK k \in Component(DOMAIN c, E, i) : c[k].rank \in GovernedRanks
    BY <2>5 DEF InDoubt
  <2>8. c[i].rank = c[k].rank /\ c[i].rank = c[j].rank /\ j \in DOMAIN c
    BY <2>1, <2>5, <2>6, <2>7, CycleRanks
  <2> QED BY <2>1, <2>7, <2>8
<1> QED BY <1>1, Inductive, PTL

\* Whatever the snapshot, however long the chains in it and however its cycles
\* interlock, what _resolve_supersession retires is traced to a claim that
\* stands, or to a decision its own author marked superseded.
THEOREM RetirementHasAStandingCause == Spec => []RetiredByAStandingClaim
<1>1. IInv => RetiredByAStandingClaim
  <2> SUFFICES ASSUME IInv, NEW j \in Retired(outcome.edges, outcome.cyclic)
               PROVE  \E i \in DOMAIN snapshot :
                        /\ i \in outcome.survivors \/ snapshot[i].status = "superseded"
                        /\ j \in Reachable(DOMAIN snapshot, outcome.edges, i)
    BY DEF RetiredByAStandingClaim
  <2> DEFINE c == ByItem(snapshot)
             N == DOMAIN snapshot
             E == Edges(c)
             K == Cyclic(N, E)
  <2>1. /\ N = DOMAIN c /\ IsFiniteSet(N)
        /\ \A i \in N : c[i].status = snapshot[i].status
    BY DEF IInv, ByItem
  <2>2. outcome.edges = E /\ outcome.cyclic = K /\ outcome.survivors = Surviving(c, E, K)
    BY <2>1 DEF IInv, Outcome
  <2>3. E \in SUBSET (N \X N)
    BY <2>1, EdgeRanks
  <2> HIDE DEF c, E, N
  <2>4. PICK e \in E : e[1] \notin K /\ e[2] = j
    BY <2>2 DEF Retired
  <2>5. e[1] \in N \ K /\ j \in N /\ <<e[1], j>> \in E
    BY <2>3, <2>4
  <2>6. j \in Reachable(N, E, e[1])
    BY <2>5, EdgeReaches
  <2>7. PICK i \in N \ (K \cup Retired(E, K)) : j \in Reachable(N, E, i)
    BY <2>1, <2>3, <2>5, <2>6, SomeoneStands
  <2>8. i \in Surviving(c, E, K) \/ snapshot[i].status = "superseded"
    BY <2>1, <2>7 DEF Surviving
  <2> QED BY <2>2, <2>7, <2>8 DEF N
<1> QED BY <1>1, Inductive, PTL

\* One more item never changes the fate of a strictly stronger claim.
THEOREM StrongerClaimsStand == Spec => WeakerIsInert
<1>1. IInv /\ [Next]_vars => [WeakerIsInertStep]_vars
  <2> SUFFICES ASSUME IInv, Next PROVE WeakerIsInertStep
    BY DEF vars
  <2> SUFFICES ASSUME NEW n \in DOMAIN snapshot' \ DOMAIN snapshot,
                      NEW i \in DOMAIN snapshot, rank(i) < rank(n)'
               PROVE  /\ i \in outcome.survivors <=> i \in outcome'.survivors
                      /\ i \in outcome.cyclic <=> i \in outcome'.cyclic
    BY DEF WeakerIsInertStep
  <2>1. IInv' /\ \E m \in Ids : Extends(ByItem(snapshot'), ByItem(snapshot), m)
    BY StepShape
  <2>2. Extends(ByItem(snapshot'), ByItem(snapshot), n)
    BY <2>1 DEF Extends, ByItem
  <2>3. ByItem(snapshot)[i].rank < ByItem(snapshot')[n].rank
    BY DEF ByItem, rank
  <2>4. i \in DOMAIN ByItem(snapshot)
    BY DEF ByItem
  <2>5. outcome = Outcome(ByItem(snapshot)) /\ outcome' = Outcome(ByItem(snapshot'))
    BY <2>1 DEF IInv
  <2> QED BY <2>2, <2>3, <2>4, <2>5, OldFates
<1> QED BY <1>1, Inductive, PTL DEF Spec, WeakerIsInert
=============================================================================

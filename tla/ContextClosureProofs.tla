------------------------ MODULE ContextClosureProofs ------------------------
(***************************************************************************)
(* What a compiled context promises, for snapshots, plans and budgets of   *)
(* any size: nothing is lost without a trace, what makes a task material   *)
(* is carried, no permission rests on absence, and the validator accepts   *)
(* what the compiler makes and refuses it with an item or a record less.   *)
(*                                                                         *)
(* The invariant IInv says, of every requirement served so far, what its   *)
(* view and the selection have to do with each other; facts about          *)
(* resolution do the rest.  The validator counts, so what it says takes a  *)
(* second invariant, Ledger: the counters are those of the selection, a    *)
(* requirement got the beginning of what it asked for, and one record says *)
(* what it is short of.                                                    *)
(***************************************************************************)
EXTENDS ContextClosure, FiniteSetTheorems, WellFoundedInduction, TLAPS

-----------------------------------------------------------------------------
(* Resolution. *)

\* The candidates of a snapshot, or of a part of one.
Sound(S) ==
  /\ \A x \in S : /\ x.id \in Nat /\ x.rank \in Nat /\ x.source \in Nat
                  /\ x.precedence \in Nat \cup {None}
  /\ \A x, y \in S :
       /\ x.id = y.id => x = y
       /\ x.kind = y.kind /\ x.key = y.key /\ x.claim = y.claim
            => x.precedence = y.precedence /\ x.state = y.state

\* What supersession leaves of S.
Standing(S) ==
  LET outcomes == {Outcome(IndexOf(S, kind)) : kind \in SupersessionKinds}
  IN  {x \in S : x.kind \in SupersessionKinds => x.id \in UNION {o.survivors : o \in outcomes}}

\* The candidates of T that x competes with, itself among them.
Group(T, x) == {y \in T : <<y.kind, y.key>> = <<x.kind, x.key>>}

\* What competes with x speaks of the same kind and key.
LEMMA GroupIsOneKey ==
  ASSUME NEW T, NEW x, NEW y \in Group(T, x)
  PROVE  y \in T /\ y.kind = x.kind /\ y.key = x.key
  BY DEF Group

\* A set of naturals has a least element.
LEMMA LeastNatural ==
  ASSUME NEW T \in SUBSET Nat, T # {}
  PROVE  \E x \in T : \A y \in T : x <= y
<1>1. PICK x \in T : \A y \in T : ~ (<<y, x>> \in OpToRel(<, Nat))
  BY NatLessThanWellFounded, WFMin
<1>2. \A y \in T : ~ (y < x)
  BY <1>1 DEF OpToRel
<1> QED BY <1>2

\* Of the candidates that make one claim for one scope, one represents them, and it
\* is no weaker than any of them: the least by rank, then source, then id.
LEMMA SomeoneRepresents ==
  ASSUME NEW G, Sound(G), NEW x \in G
  PROVE  \E r \in Representatives(G) :
           r \in G /\ r.claim = x.claim /\ r.refs = x.refs /\ r.rank <= x.rank
<1> DEFINE C == {y \in G : y.claim = x.claim /\ y.refs = x.refs}
<1>1. PICK a \in C : \A y \in C : a.rank <= y.rank
  <2> DEFINE N == {y.rank : y \in C}
  <2>1. N \in SUBSET Nat /\ N # {}
    BY DEF Sound
  <2>2. PICK m \in N : \A k \in N : m <= k
    <3> HIDE DEF N
    <3> QED BY <2>1, LeastNatural
  <2> QED BY <2>2
<1> DEFINE D == {y \in C : y.rank = a.rank}
<1>2. PICK b \in D : \A y \in D : b.source <= y.source
  <2> DEFINE N == {y.source : y \in D}
  <2>1. N \in SUBSET Nat /\ N # {}
    BY <1>1 DEF Sound
  <2>2. PICK m \in N : \A k \in N : m <= k
    <3> HIDE DEF N
    <3> QED BY <2>1, LeastNatural
  <2> QED BY <2>2
<1> DEFINE F == {y \in D : y.source = b.source}
<1>3. PICK r \in F : \A y \in F : r.id <= y.id
  <2> DEFINE N == {y.id : y \in F}
  <2>1. N \in SUBSET Nat /\ N # {}
    BY <1>2 DEF Sound
  <2>2. PICK m \in N : \A k \in N : m <= k
    <3> HIDE DEF N
    <3> QED BY <2>1, LeastNatural
  <2> QED BY <2>2
<1>4. r \in G /\ r.claim = x.claim /\ r.refs = x.refs /\ r.rank = a.rank /\ r.source = b.source
  OBVIOUS
<1>5. ASSUME NEW y \in G \ {r}, y.claim = r.claim, y.refs = r.refs
      PROVE  Before(<<r.rank, r.source, r.id>>, <<y.rank, y.source, y.id>>)
  <2>1. y \in C
    BY <1>4, <1>5
  <2>2. /\ y.rank \in Nat /\ y.source \in Nat /\ y.id \in Nat
        /\ r.rank \in Nat /\ r.source \in Nat /\ r.id \in Nat
        /\ y.id # r.id
    BY <1>4, <1>5 DEF Sound
  <2>3. r.rank <= y.rank
    BY <1>1, <1>4, <2>1
  <2>4. y.rank = r.rank => r.source <= y.source
    BY <1>2, <1>4, <2>1
  <2>5. y.rank = r.rank /\ y.source = r.source => r.id <= y.id
    BY <1>3, <1>4, <2>1
  <2> DEFINE k == <<r.rank, r.source, r.id>>
             l == <<y.rank, y.source, y.id>>
  <2>6. \/ k[1] < l[1]
        \/ k[2] < l[2] /\ k[1] = l[1]
        \/ k[3] < l[3] /\ k[1] = l[1] /\ k[2] = l[2]
    BY <2>2, <2>3, <2>4, <2>5
  <2>7. DOMAIN k = 1 .. 3
    OBVIOUS
  <2> HIDE DEF k, l
  <2>8. Before(k, l)
    BY <2>6, <2>7 DEF Before
  <2> QED BY <2>8 DEF k, l
<1>6. r \in Representatives(G)
  BY <1>4, <1>5 DEF Representatives
<1>7. r.rank <= x.rank
  BY <1>1, <1>4
<1> QED BY <1>4, <1>6, <1>7

\* Resolution, group by group, of what supersession leaves.
LEMMA ResolvedByGroup ==
  ASSUME NEW S
  PROVE  /\ \A x : x \in Resolve(S).eligible <=>
              \E y \in Standing(S) :
                x \in Winners(y.kind, Representatives(Group(Standing(S), y)))
         /\ \A g : g \in Resolve(S).conflicts <=>
              \E y \in Standing(S) :
                /\ g = <<y.kind, y.key>>
                /\ Winners(y.kind, Representatives(Group(Standing(S), y))) = {}
         /\ \A kind \in SupersessionKinds :
              Outcome(IndexOf(S, kind)).unknowns \subseteq Resolve(S).unknowns
<1> DEFINE T == Standing(S)
           outcomes == {Outcome(IndexOf(S, kind)) : kind \in SupersessionKinds}
           U == UNION {o.unknowns : o \in outcomes}
           won(x) == Winners(x.kind, Representatives(Group(T, x)))
           groups == ResolveGroups(T)
<1>1. Resolve(S) = Resolved(groups, U)
  BY DEF Resolve, Standing
<1>2. \A kind \in SupersessionKinds : Outcome(IndexOf(S, kind)).unknowns \subseteq U
  OBVIOUS
<1>3. /\ Resolve(S).eligible = UNION {r.items : r \in groups}
      /\ Resolve(S).conflicts = {r.group : r \in {s \in groups : s.items = {}}}
      /\ Resolve(S).unknowns = U
  <2> HIDE DEF groups, U
  <2> QED BY <1>1 DEF Resolved
<1> DEFINE at(g) == Winners(g[1], Representatives({y \in T : <<y.kind, y.key>> = g}))
<1>4. groups = {[group |-> g, items |-> at(g)] : g \in {<<x.kind, x.key>> : x \in T}}
  <2> HIDE DEF T
  <2> QED BY DEF ResolveGroups
<1>5. ASSUME NEW x \in T PROVE at(<<x.kind, x.key>>) = won(x)
  <2>1. {y \in T : <<y.kind, y.key>> = <<x.kind, x.key>>} = Group(T, x)
    BY DEF Group
  <2>2. <<x.kind, x.key>>[1] = x.kind
    OBVIOUS
  <2> HIDE DEF T
  <2> QED BY <2>1, <2>2
<1> HIDE DEF T, won, at, groups, U
<1>6. \A r \in groups : \E x \in T : r.group = <<x.kind, x.key>> /\ r.items = won(x)
  <2> TAKE r \in groups
  <2>1. PICK x \in T : r = [group |-> <<x.kind, x.key>>, items |-> at(<<x.kind, x.key>>)]
    BY <1>4
  <2> QED BY <1>5, <2>1
<1>7. \A x \in T : \E r \in groups : r.group = <<x.kind, x.key>> /\ r.items = won(x)
  <2> TAKE x \in T
  <2>1. [group |-> <<x.kind, x.key>>, items |-> at(<<x.kind, x.key>>)] \in groups
    BY <1>4
  <2> QED BY <1>5, <2>1
<1>8. \A x : x \in Resolve(S).eligible <=> \E y \in T : x \in won(y)
  BY <1>3, <1>6, <1>7
<1>9. \A g : g \in Resolve(S).conflicts <=> \E y \in T : g = <<y.kind, y.key>> /\ won(y) = {}
  <2>1. \A g : g \in Resolve(S).conflicts <=> \E r \in groups : r.items = {} /\ g = r.group
    BY <1>3
  <2>2. ASSUME NEW g, NEW r \in groups, r.items = {}, g = r.group
        PROVE  \E y \in T : g = <<y.kind, y.key>> /\ won(y) = {}
    BY <1>6, <2>2
  <2>3. ASSUME NEW g, NEW y \in T, g = <<y.kind, y.key>>, won(y) = {}
        PROVE  \E r \in groups : r.items = {} /\ g = r.group
    BY <1>7, <2>3
  <2> QED BY <2>1, <2>2, <2>3
<1> QED BY <1>2, <1>3, <1>8, <1>9 DEF T, won, U

\* Resolution picks from the representatives, and these from the group.
LEMMA WinnersCompete ==
  ASSUME NEW kind, NEW G
  PROVE  Winners(kind, Representatives(G)) \subseteq Representatives(G) /\ Representatives(G) \subseteq G
<1>1. Representatives(G) \subseteq G
  BY DEF Representatives
<1>2. ASSUME NEW R PROVE ByAuthority(R) \subseteq R /\ Foremost(R) \subseteq R
  BY DEF ByAuthority, Strongest, Foremost
<1>3. \A R : Winners(kind, R) \subseteq R
  BY <1>2 DEF Winners
<1> QED BY <1>1, <1>3

\* What is eligible was there.
LEMMA EligibleAreSeen ==
  ASSUME NEW S
  PROVE  Resolve(S).eligible \subseteq Standing(S) /\ Standing(S) \subseteq S
<1>1. \A x \in Standing(S) : Winners(x.kind, Representatives(Group(Standing(S), x))) \subseteq Standing(S)
  BY WinnersCompete, GroupIsOneKey
<1>2. Resolve(S).eligible \subseteq Standing(S)
  BY <1>1, ResolvedByGroup
<1>3. Standing(S) \subseteq S
  BY DEF Standing
<1> QED BY <1>2, <1>3

\* An eligible candidate has won its own group.
LEMMA EligibleHasWon ==
  ASSUME NEW S, NEW x
  PROVE  x \in Resolve(S).eligible <=>
           x \in Standing(S) /\ x \in Winners(x.kind, Representatives(Group(Standing(S), x)))
<1> DEFINE T == Standing(S)
<1> HIDE DEF T
<1>1. ASSUME NEW y \in T, x \in Winners(y.kind, Representatives(Group(T, y)))
      PROVE  x \in T /\ x \in Winners(x.kind, Representatives(Group(T, x)))
  <2>1. x \in Group(T, y)
    BY <1>1, WinnersCompete
  <2>2. x \in T /\ x.kind = y.kind /\ x.key = y.key
    BY <2>1, GroupIsOneKey
  <2>3. Group(T, x) = Group(T, y)
    BY <2>2 DEF Group
  <2> QED BY <1>1, <2>2, <2>3
<1>2. x \in Resolve(S).eligible <=> \E y \in T : x \in Winners(y.kind, Representatives(Group(T, y)))
  BY ResolvedByGroup DEF T
<1> QED BY <1>1, <1>2 DEF T

\* The index holds every candidate of its kind at its id.
LEMMA Indexed ==
  ASSUME NEW S, Sound(S), NEW kind
  PROVE  /\ \A x \in S : x.kind = kind =>
              x.id \in DOMAIN IndexOf(S, kind) /\ IndexOf(S, kind)[x.id] = x
         /\ \A i \in DOMAIN IndexOf(S, kind) :
              IndexOf(S, kind)[i] \in S /\ IndexOf(S, kind)[i].id = i
<1> DEFINE ids == {x.id : x \in {y \in S : y.kind = kind}}
<1>1. IndexOf(S, kind) = [i \in ids |-> CHOOSE x \in S : x.id = i]
  BY DEF IndexOf
<1>2. \A i \in ids : \E x \in S : x.id = i
  OBVIOUS
<1>3. \A i \in ids : (CHOOSE x \in S : x.id = i) \in S /\ (CHOOSE x \in S : x.id = i).id = i
  BY <1>2
<1>4. \A x \in S : x.kind = kind => x.id \in ids
  OBVIOUS
<1>5. \A x \in S : x.kind = kind => (CHOOSE y \in S : y.id = x.id) = x
  BY <1>3, <1>4 DEF Sound
<1> HIDE DEF ids
<1> QED BY <1>1, <1>3, <1>4, <1>5

\* An edge comes from a reference of one of its ends.
LEMMA EdgesAreNamed ==
  ASSUME NEW S, Sound(S), NEW kind,
         NEW e \in Edges(IndexOf(S, kind))
  PROVE  LET c == IndexOf(S, kind) IN
         /\ e[1] \in DOMAIN c /\ e[2] \in DOMAIN c /\ e[1] # e[2]
         /\ c[e[1]].rank <= c[e[2]].rank
         /\ NamedBy(c[e[2]], c[e[1]])
<1> DEFINE c == IndexOf(S, kind)
<1> HIDE DEF c
<1>1. e \in (DOMAIN c) \X (DOMAIN c) /\ c[e[1]].rank <= c[e[2]].rank
  BY DEF Edges, Proposed, c
<1>2. c[e[1]].id = e[1] /\ c[e[2]].id = e[2]
  BY <1>1, Indexed DEF c
<1>3. \/ \E ref \in c[e[1]].supersedes : e[2] \in Expand(c, e[1], ref)
      \/ \E ref \in c[e[2]].supersededBy : e[1] \in Expand(c, e[2], ref)
  BY DEF Edges, Proposed, c
<1>4. CASE \E ref \in c[e[1]].supersedes : e[2] \in Expand(c, e[1], ref)
  <2>1. PICK ref \in c[e[1]].supersedes : e[2] \in Expand(c, e[1], ref)
    BY <1>4
  <2>2. e[2] # e[1] /\ (ref = e[2] \/ ref = c[e[2]].domain)
    BY <1>1, <2>1 DEF Expand, Members
  <2> QED BY <1>1, <1>2, <2>1, <2>2 DEF NamedBy, c
<1>5. CASE \E ref \in c[e[2]].supersededBy : e[1] \in Expand(c, e[2], ref)
  <2>1. PICK ref \in c[e[2]].supersededBy : e[1] \in Expand(c, e[2], ref)
    BY <1>5
  <2>2. e[2] # e[1] /\ (ref = e[1] \/ ref = c[e[1]].domain)
    BY <1>1, <2>1 DEF Expand, Members
  <2> QED BY <1>1, <1>2, <2>1, <2>2 DEF NamedBy, c
<1> QED BY <1>3, <1>4, <1>5

\* A claim that supersession removes is on a recorded cycle, was marked superseded,
\* or is named by a claim of no less authority.
LEMMA RemovedForCause ==
  ASSUME NEW S, Sound(S), NEW x \in S, x \notin Standing(S)
  PROVE  \/ \E u \in Resolve(S).unknowns : u.reason = "cycle" /\ x.id \in u.claims
         \/ x.status = "superseded"
         \/ \E y \in S \ {x} : y.rank <= x.rank /\ NamedBy(x, y)
<1> DEFINE c == IndexOf(S, x.kind)
           E == Edges(c)
           cyclic == Cyclic(DOMAIN c, E)
<1>1. x.kind \in SupersessionKinds /\ x.id \notin Outcome(c).survivors
  BY DEF Standing
<1>2. x.id \in DOMAIN c /\ c[x.id] = x
  BY Indexed
<1>3. Outcome(c).survivors = Surviving(c, E, cyclic) /\ CycleUnknowns(c, E, cyclic) \subseteq Outcome(c).unknowns
  BY DEF Outcome
<1>4. Outcome(c).unknowns \subseteq Resolve(S).unknowns
  BY <1>1, ResolvedByGroup
<1>5. \/ x.id \in cyclic \/ x.id \in Retired(E, cyclic) \/ x.status = "superseded"
  <2> HIDE DEF c, E, cyclic
  <2> QED BY <1>1, <1>2, <1>3 DEF Surviving
<1>6. CASE x.id \in cyclic
  <2> DEFINE loop == Component(DOMAIN c, E, x.id)
             u == [reason |-> "cycle", key |-> c[x.id].domain, claims |-> loop,
                   blocking |-> InDoubt(c, loop)]
  <2>1. x.id \in loop
    BY <1>6 DEF Component, Cyclic
  <2>2. u \in CycleUnknowns(c, E, cyclic)
    BY <1>6 DEF CycleUnknowns
  <2>3. u.reason = "cycle" /\ u.claims = loop
    OBVIOUS
  <2> HIDE DEF u, loop, c, E, cyclic
  <2> QED BY <1>3, <1>4, <2>1, <2>2, <2>3
<1>7. CASE x.id \in Retired(E, cyclic)
  <2>1. PICK e \in E : e[2] = x.id
    BY <1>7 DEF Retired
  <2>2. /\ e[1] \in DOMAIN c /\ e[1] # e[2]
        /\ c[e[1]].rank <= c[e[2]].rank /\ NamedBy(c[e[2]], c[e[1]])
    BY <2>1, EdgesAreNamed
  <2>3. c[e[1]] \in S /\ c[e[1]].id = e[1]
    BY <2>2, Indexed
  <2> HIDE DEF c, E, cyclic
  <2>4. c[e[1]] # x
    BY <2>1, <2>2, <2>3
  <2> QED BY <1>2, <2>1, <2>2, <2>3, <2>4
<1> QED BY <1>5, <1>6, <1>7

\* A single strongest one is no weaker than the others.
LEMMA AuthorityOutweighs ==
  ASSUME NEW R, NEW w \in ByAuthority(R)
  PROVE  w \in R /\ ByAuthority(R) = Strongest(R) /\ \A y \in R : w.rank <= y.rank
  BY DEF ByAuthority, Strongest

\* A group that resolves does so by someone who outweighs every claim in it.
LEMMA WinnerOutweighs ==
  ASSUME NEW G, Sound(G), NEW kind, NEW x \in G,
         \A y \in G : y.kind = x.kind /\ y.key = x.key,
         Winners(kind, Representatives(G)) # {}
  PROVE  \E w \in Winners(kind, Representatives(G)) : w.key = x.key /\ Outweighs(w, x)
<1> DEFINE R == Representatives(G)
<1>1. PICK r \in R : r \in G /\ r.claim = x.claim /\ r.refs = x.refs /\ r.rank <= x.rank
  BY SomeoneRepresents
<1>2. Winners(kind, R) \subseteq R /\ R \subseteq G
  BY WinnersCompete
<1>3. /\ \A y \in G : y.rank \in Nat /\ y.precedence \in Nat \cup {None}
      /\ r.precedence = x.precedence
  BY <1>1 DEF Sound
<1>4. CASE r \in Winners(kind, R)
  BY <1>1, <1>4 DEF Outweighs
<1> HIDE DEF R
<1>5. CASE r \notin Winners(kind, R)
  <2>1. Winners(kind, R) \in {ByAuthority(R), ByAuthority(Foremost(R))}
    <3>1. Cardinality(R) = 1 => Winners(kind, R) = R
      BY DEF Winners
    <3> QED BY <1>1, <1>5, <3>1 DEF Winners, R
  <2>2. CASE Winners(kind, R) = ByAuthority(R)
    <3>1. PICK w \in ByAuthority(R) : TRUE
      BY <2>2 DEF R
    <3>2. w \in R /\ w.rank <= r.rank
      BY <1>1, <3>1, AuthorityOutweighs
    <3>3. w.rank <= x.rank
      BY <1>1, <1>2, <1>3, <3>2
    <3> QED BY <1>2, <2>2, <3>1, <3>2, <3>3 DEF Outweighs, R
  <2>3. CASE Winners(kind, R) = ByAuthority(Foremost(R))
    <3>1. PICK w \in ByAuthority(Foremost(R)) : TRUE
      BY <2>3 DEF R
    <3>2. w \in Foremost(R) /\ \A y \in Foremost(R) : w.rank <= y.rank
      BY <3>1, AuthorityOutweighs
    <3>3. w \in R /\ w \in G
      BY <1>2, <3>2 DEF Foremost
    <3>4. CASE r \in Foremost(R)
      <4>1. w.rank <= x.rank
        BY <1>1, <1>3, <3>2, <3>3, <3>4
      <4> QED BY <2>3, <3>1, <3>3, <4>1 DEF Outweighs, R
    <3>5. CASE r \notin Foremost(R)
      <4>1. /\ \A y \in R : y.precedence # None
            /\ \A y \in R : w.precedence <= y.precedence
            /\ \E y \in R : ~ (r.precedence <= y.precedence)
        BY <1>1, <3>2, <3>5 DEF Foremost
      <4>2. w.precedence < x.precedence /\ None \notin {w.precedence, x.precedence}
        BY <1>1, <1>2, <1>3, <3>3, <4>1
      <4> QED BY <2>3, <3>1, <3>3, <4>2 DEF Outweighs, R
    <3> QED BY <3>4, <3>5
  <2> QED BY <2>1, <2>2, <2>3
<1> QED BY <1>4, <1>5

\* Kinds in which nothing is superseded and only authority decides between rivals.
PlainKinds == {"constraint", "entity", "authority", "capability"}

\* Under a plain kind the winner is strictly the strongest representative, and
\* whoever is that wins.
LEMMA SoleWinner ==
  ASSUME NEW kind \in PlainKinds, NEW R, IsFiniteSet(R), NEW x \in R,
         \A y \in R : y.rank \in Nat
  PROVE  x \in Winners(kind, R) <=> \A z \in R \ {x} : x.rank < z.rank
<1>1. ASSUME NEW T, T \subseteq R, x \in T
      PROVE  Cardinality(T) = 1 <=> T = {x}
  <2>1. IsFiniteSet(T)
    BY <1>1, FS_Subset
  <2>2. Cardinality({x}) = 1 /\ IsFiniteSet({x})
    BY FS_Singleton
  <2>3. Cardinality(T) = Cardinality({x}) => T = {x}
    <3>1. {x} \in SUBSET T
      BY <1>1
    <3> QED BY <2>1, <3>1, FS_Subset
  <2> QED BY <2>2, <2>3
<1>2. Winners(kind, R) = IF Cardinality(R) = 1 THEN R ELSE ByAuthority(R)
  BY DEF Winners, PlainKinds, CoexistingKinds, VersionedKinds
<1>3. ASSUME x \in Winners(kind, R), NEW z \in R \ {x} PROVE x.rank < z.rank
  <2>1. Cardinality(R) # 1
    BY <1>1, <1>3
  <2>2. x \in ByAuthority(R)
    BY <1>2, <1>3, <2>1
  <2>3. x \in Strongest(R) /\ Cardinality(Strongest(R)) = 1
    BY <2>2 DEF ByAuthority
  <2>4. Strongest(R) = {x}
    BY <1>1, <2>3 DEF Strongest
  <2>5. z \notin Strongest(R) /\ \A y \in R : x.rank <= y.rank
    BY <1>3, <2>3, <2>4 DEF Strongest
  <2>6. PICK y \in R : ~ (z.rank <= y.rank)
    BY <1>3, <2>5 DEF Strongest
  <2> QED BY <2>5, <2>6
<1>4. ASSUME \A z \in R \ {x} : x.rank < z.rank PROVE x \in Winners(kind, R)
  <2>1. Strongest(R) = {x}
    <3>1. \A y \in R : x.rank <= y.rank
      BY <1>4
    <3>2. \A z \in R : z # x => ~ (z.rank <= x.rank)
      BY <1>4
    <3> QED BY <3>1, <3>2 DEF Strongest
  <2>2. ByAuthority(R) = {x}
    BY <1>1, <2>1 DEF ByAuthority
  <2> QED BY <1>2, <2>2
<1> QED BY <1>3, <1>4

\* Candidates of a plain kind all stand.
LEMMA PlainGroups ==
  ASSUME NEW S, NEW x \in S, x.kind \in PlainKinds
  PROVE  Group(Standing(S), x) = Group(S, x)
  BY DEF Group, Standing, PlainKinds, SupersessionKinds

\* A candidate of a plain kind is eligible exactly when it represents its claim and
\* every other representative under its key is weaker.
LEMMA PlainEligible ==
  ASSUME NEW S, Sound(S), IsFiniteSet(S), NEW x \in S, x.kind \in PlainKinds
  PROVE  x \in Resolve(S).eligible <=>
           /\ x \in Representatives(Group(S, x))
           /\ \A z \in Representatives(Group(S, x)) \ {x} : x.rank < z.rank
<1> DEFINE R == Representatives(Group(S, x))
<1>1. x \in Standing(S)
  BY DEF Standing, PlainKinds, SupersessionKinds
<1>2. x \in Resolve(S).eligible <=> x \in Winners(x.kind, R)
  BY <1>1, EligibleHasWon, PlainGroups
<1>3. Winners(x.kind, R) \subseteq R /\ R \subseteq S
  BY WinnersCompete, GroupIsOneKey
<1>4. IsFiniteSet(R) /\ \A y \in R : y.rank \in Nat
  BY <1>3, FS_Subset DEF Sound
<1> HIDE DEF R
<1>5. x \in R => (x \in Winners(x.kind, R) <=> \A z \in R \ {x} : x.rank < z.rank)
  BY <1>4, SoleWinner
<1> QED BY <1>2, <1>3, <1>5 DEF R

\* A winner of a plain kind stays eligible in a larger set whose new candidates of
\* that kind are all weaker.
LEMMA WeakerCannotTopple ==
  ASSUME NEW V, Sound(V), IsFiniteSet(V), NEW D, Sound(D), IsFiniteSet(D),
         NEW x \in D, x.kind \in PlainKinds, x \in Resolve(D).eligible,
         \A y \in D : y.kind = x.kind => y \in V,
         \A y \in V \ D : y.kind = x.kind => x.rank < y.rank
  PROVE  x \in Resolve(V).eligible
<1> DEFINE G == Group(D, x)
           H == Group(V, x)
<1>1. x \in G /\ x \in H /\ x \in V
  BY DEF Group
<1>2. G \subseteq H /\ \A y \in H \ G : x.rank < y.rank
  BY DEF Group
<1>3. x \in Representatives(G) /\ \A z \in Representatives(G) \ {x} : x.rank < z.rank
  BY PlainEligible
<1>4. \A y \in H : y.rank \in Nat /\ y.source \in Nat /\ y.id \in Nat
  BY DEF Group, Sound
<1> HIDE DEF G, H
<1>5. ASSUME NEW y \in H, x.rank < y.rank
      PROVE  Before(<<x.rank, x.source, x.id>>, <<y.rank, y.source, y.id>>)
  <2> DEFINE k == <<x.rank, x.source, x.id>>
             l == <<y.rank, y.source, y.id>>
  <2>1. DOMAIN k = 1 .. 3 /\ k[1] < l[1]
    BY <1>1, <1>4, <1>5
  <2> HIDE DEF k, l
  <2>2. Before(k, l)
    <3>1. \A m \in 1 .. 1 - 1 : k[m] = l[m]
      OBVIOUS
    <3> QED BY <2>1, <3>1 DEF Before
  <2> QED BY <2>2 DEF k, l
<1>6. x \in Representatives(H)
  BY <1>1, <1>2, <1>3, <1>5 DEF Representatives
<1>7. \A z \in Representatives(H) : z \in G => z \in Representatives(G)
  BY <1>2 DEF Representatives
<1>8. \A z \in Representatives(H) \ {x} : x.rank < z.rank
  <2>1. Representatives(H) \subseteq H
    BY DEF Representatives
  <2> QED BY <1>2, <1>3, <1>7, <2>1
<1> QED BY <1>1, <1>6, <1>8, PlainEligible DEF H

\* Whoever is no weaker than an eligible candidate of a plain kind, under its key,
\* makes the same claim.
LEMMA RivalsAgree ==
  ASSUME NEW S, Sound(S), IsFiniteSet(S), NEW x \in Resolve(S).eligible, x.kind \in PlainKinds,
         NEW y \in S, y.kind = x.kind, y.key = x.key, y.rank <= x.rank
  PROVE  y.state = x.state
<1> DEFINE G == Group(S, x)
<1>1. x \in S
  BY EligibleAreSeen
<1>2. y \in G /\ G \subseteq S
  BY DEF Group
<1>3. Sound(G)
  <2> HIDE DEF G
  <2> QED BY <1>2 DEF Sound
<1>4. PICK r \in Representatives(G) : r \in G /\ r.claim = y.claim /\ r.rank <= y.rank
  <2> HIDE DEF G
  <2> QED BY <1>2, <1>3, SomeoneRepresents
<1>5. \A z \in Representatives(G) \ {x} : x.rank < z.rank
  BY <1>1, PlainEligible
<1>6. r.rank \in Nat /\ y.rank \in Nat /\ x.rank \in Nat
  BY <1>1, <1>2, <1>4 DEF Sound
<1>7. r = x
  BY <1>4, <1>5, <1>6
<1> QED BY <1>1, <1>4, <1>7 DEF Sound

\* A candidate that is not eligible was removed for cause, is in conflict, or is
\* outweighed by an eligible one.
LEMMA Accounted ==
  ASSUME NEW S, Sound(S), NEW x \in S, x \notin Resolve(S).eligible
  PROVE  \/ <<x.kind, x.key>> \in Resolve(S).conflicts
         \/ \E u \in Resolve(S).unknowns : u.reason = "cycle" /\ x.id \in u.claims
         \/ x.status = "superseded"
         \/ \E y \in S \ {x} : y.rank <= x.rank /\ NamedBy(x, y)
         \/ \E w \in Resolve(S).eligible : w.key = x.key /\ Outweighs(w, x)
<1>1. CASE x \notin Standing(S)
  BY <1>1, RemovedForCause
<1>2. CASE x \in Standing(S)
  <2> DEFINE G == Group(Standing(S), x)
             W == Winners(x.kind, Representatives(G))
  <2>1. W = {} => <<x.kind, x.key>> \in Resolve(S).conflicts
    BY <1>2, ResolvedByGroup
  <2>2. W \subseteq Resolve(S).eligible
    BY <1>2, ResolvedByGroup
  <2>3. x \in G /\ G \subseteq S /\ \A y \in G : y.kind = x.kind /\ y.key = x.key
    BY <1>2, EligibleAreSeen DEF Group
  <2>4. Sound(G)
    <3> HIDE DEF G
    <3> QED BY <2>3 DEF Sound
  <2>5. W # {} => \E w \in W : w.key = x.key /\ Outweighs(w, x)
    BY <2>3, <2>4, WinnerOutweighs
  <2> QED BY <2>1, <2>2, <2>5
<1> QED BY <1>1, <1>2

-----------------------------------------------------------------------------
(* The invariant. *)

Mine(n) == {x \in snapshot : x.id \in DOMAIN chosen /\ n \in chosen[x.id]}

KeysOf(S) == {x.key : x \in S}

ConflictingKeys(n) == {g[2] : g \in View(plan[n]).conflicts}

FromInput ==
  /\ \E i \in Inputs : /\ snapshot = i.snapshot /\ task = i.task
                       /\ pc = "plan" => plan = i.plan
                       /\ pc \notin {"plan", "failed"} => plan = PlanOf(i)
  /\ budget \in Budgets

Numbers ==
  /\ pc \in {"plan", "begin", "select", "dispose", "done", "failed"}
  /\ turn \in Nat \ {0}
  /\ taken.count \in Nat /\ taken.bytes \in Nat
  /\ total \in Nat
  /\ IsFiniteSet(DOMAIN chosen)

\* Every item of the selection is eligible for each requirement it is bound to.
BoundAreEligible ==
  /\ \A i \in DOMAIN chosen : chosen[i] # {}
  /\ \A x \in snapshot : x.id \in DOMAIN chosen =>
       \A n \in chosen[x.id] : n \in DOMAIN plan /\ x \in View(plan[n]).eligible

\* What requirement n met is on record.
Recorded(n) ==
  /\ \A k \in ConflictingKeys(n) : Unknown(n, "conflict", k, {}) \in unknowns
  /\ \A u \in View(plan[n]).unknowns : Unbound(u) \in unknowns

\* A requirement that wants everything eligible has it, or the bound is on record.
Complete(n) ==
  plan[n].mode = "all_eligible" =>
    \/ View(plan[n]).eligible \subseteq Mine(n)
    \/ \E u \in unknowns : /\ u.requirement = n /\ u.reason = "budget"
                           /\ u.blocking = plan[n].required

\* A requirement that must say what it lacks is met, or says so.
Answered(n) ==
  plan[n].policy = "preserve_unknown" =>
    LET lacking == plan[n].keys \ (KeysOf(Mine(n)) \cup ConflictingKeys(n)) IN
    \/ /\ plan[n].min >= 1 => Mine(n) # {}
       /\ plan[n].mode = "semantic_keys" => lacking = {}
    \/ \E u \in unknowns : /\ u.requirement = n /\ u.reason \in {"missing", "budget"}
                           /\ lacking \subseteq u.details.missing

Served(n) == Recorded(n) /\ Complete(n) /\ Answered(n)

\* The requirement being served.
Current ==
  /\ turn \in DOMAIN plan
  /\ Recorded(turn)
  /\ disposed = ConflictingKeys(turn)
  /\ todo \subseteq View(plan[turn]).eligible
  /\ taken.keys \subseteq KeysOf(Mine(turn))
  /\ taken.count >= 1 => Mine(turn) # {}
  /\ plan[turn].mode = "all_eligible" =>
       /\ View(plan[turn]).eligible \subseteq Mine(turn) \cup todo
       /\ pc = "dispose" => todo = {} \/ stop # None

\* What is said once the selection is complete.
Said ==
  /\ turn \notin DOMAIN plan
  /\ CapabilityUnknowns(task, material, Selected) \subseteq unknowns
  /\ AuthorityUnknowns(task, material, Selected) \subseteq unknowns

IInv ==
  /\ FromInput /\ Numbers
  /\ pc = "plan" => chosen = <<>> /\ turn = 1
  /\ pc \notin {"plan", "failed"} =>
       /\ BoundAreEligible
       /\ \A n \in DOMAIN plan : n < turn => Served(n)
       /\ \E k \in Nat : DOMAIN plan = 1 .. k
  /\ pc \in {"select", "dispose"} => Current
  /\ pc = "done" => Said

-----------------------------------------------------------------------------
(* The plan. *)

\* A function with a finite domain has finitely many values.
LEMMA FiniteRange ==
  ASSUME NEW f, IsFiniteSet(DOMAIN f), f = [x \in DOMAIN f |-> f[x]]
  PROVE  IsFiniteSet(Range(f))
<1>1. f \in Surjection(DOMAIN f, Range(f))
  BY DEF Surjection, Range
<1> QED BY <1>1, FS_Surjection

\* A task has finitely many requirements.
LEMMA EntriesFinite ==
  ASSUME NEW i \in Inputs
  PROVE  IsFiniteSet(Entries(i.task, i.snapshot))
<1> DEFINE own(j) == {[place |-> <<j, 0>>, requirement |-> Baseline(i.task, i.snapshot, Ladder[j])]}
           needs(j) == {m \in i.task.needs : m.kind = Ladder[j]}
           of(j, n) == [place |-> <<j, n.reason>>,
                        requirement |-> KernelRequirement(i.task, Signature(n))]
           asked(j) == {of(j, n) : n \in needs(j)}
           rungs == {own(j) \cup asked(j) : j \in DOMAIN Ladder}
<1>1. Entries(i.task, i.snapshot) = UNION rungs
  BY DEF Entries
<1>2. ASSUME NEW j \in DOMAIN Ladder PROVE IsFiniteSet(own(j) \cup asked(j))
  <2>1. IsFiniteSet(needs(j))
    BY NeedsAssumption, FS_Subset
  <2>2. IsFiniteSet(asked(j))
    <3> DEFINE f == [n \in needs(j) |-> of(j, n)]
    <3>1. DOMAIN f = needs(j) /\ f = [x \in DOMAIN f |-> f[x]] /\ Range(f) = asked(j)
      <4> HIDE DEF needs, of
      <4> QED BY DEF Range
    <3> HIDE DEF f, needs, asked
    <3> QED BY <2>1, <3>1, FiniteRange
  <2>3. IsFiniteSet(own(j))
    BY FS_Singleton
  <2> HIDE DEF own, asked
  <2> QED BY <2>2, <2>3, FS_Union
<1>3. IsFiniteSet(DOMAIN Ladder)
  <2>1. DOMAIN Ladder = 1 .. 10
    BY DEF Ladder
  <2>2. \A k \in Nat : IsFiniteSet(1 .. k)
    BY FS_Interval
  <2>3. IsFiniteSet(1 .. 10)
    BY <2>2
  <2> QED BY <2>1, <2>3
<1>4. IsFiniteSet(rungs)
  <2> DEFINE f == [j \in DOMAIN Ladder |-> own(j) \cup asked(j)]
  <2>1. DOMAIN f = DOMAIN Ladder /\ f = [x \in DOMAIN f |-> f[x]] /\ Range(f) = rungs
    <3> HIDE DEF own, asked
    <3> QED BY DEF Range
  <2> HIDE DEF f, rungs
  <2> QED BY <1>3, <2>1, FiniteRange
<1>5. IsFiniteSet(UNION rungs)
  <2>1. \A r \in rungs : IsFiniteSet(r)
    <3> HIDE DEF own, asked
    <3> QED BY <1>2
  <2> HIDE DEF rungs
  <2> QED BY <1>4, <2>1, FS_UNION
<1> QED BY <1>1, <1>5

\* A plan is a sequence, whoever made it.
LEMMA PlanIsSequence ==
  ASSUME NEW i \in Inputs
  PROVE  \E k \in Nat : DOMAIN PlanOf(i) = 1 .. k
<1>1. CASE i.plan = None
  <2>1. Cardinality(Entries(i.task, i.snapshot)) \in Nat
    BY EntriesFinite, FS_CardinalityType
  <2>2. DOMAIN RequirementPlan(i.task, i.snapshot) = 1 .. Cardinality(Entries(i.task, i.snapshot))
    BY DEF RequirementPlan
  <2> QED BY <1>1, <2>1, <2>2 DEF PlanOf
<1>2. CASE i.plan # None
  <2>1. PlanOf(i) \in Seq(Range(i.plan))
    BY <1>2, PlansAssumption DEF PlanOf
  <2>2. DOMAIN PlanOf(i) = 1 .. Len(PlanOf(i)) /\ Len(PlanOf(i)) \in Nat
    BY <2>1
  <2> QED BY <2>2
<1> QED BY <1>1, <1>2

\* The order of pairs.
LEMMA PairOrder ==
  ASSUME NEW a \in Nat, NEW b \in Nat, NEW c \in Nat, NEW d \in Nat
  PROVE  Before(<<a, b>>, <<c, d>>) <=> a < c \/ (a = c /\ b < d)
<1> DEFINE k == <<a, b>>
           l == <<c, d>>
<1>1. DOMAIN k = 1 .. 2 /\ k[1] = a /\ k[2] = b /\ l[1] = c /\ l[2] = d
  OBVIOUS
<1> HIDE DEF k, l
<1>2. Before(k, l) <=> a < c \/ (a = c /\ b < d)
  <2>1. ASSUME Before(k, l) PROVE a < c \/ (a = c /\ b < d)
    <3>1. PICK n \in 1 .. 2 : k[n] < l[n] /\ \A m \in 1 .. n - 1 : k[m] = l[m]
      BY <1>1, <2>1 DEF Before
    <3>2. n = 1 \/ n = 2
      OBVIOUS
    <3> QED BY <1>1, <3>1, <3>2
  <2>2. ASSUME a < c \/ (a = c /\ b < d) PROVE Before(k, l)
    <3>1. CASE a < c
      <4>1. k[1] < l[1] /\ \A m \in 1 .. 1 - 1 : k[m] = l[m]
        BY <1>1, <3>1
      <4> QED BY <1>1, <4>1 DEF Before
    <3>2. CASE a = c /\ b < d
      <4>1. k[2] < l[2] /\ \A m \in 1 .. 2 - 1 : k[m] = l[m]
        BY <1>1, <3>2
      <4> QED BY <1>1, <4>1 DEF Before
    <3> QED BY <2>2, <3>1, <3>2
  <2> QED BY <2>1, <2>2
<1> QED BY <1>2 DEF k, l

\* The requirement of rung j, and the one for need n on it.
OwnEntry(i, j) ==
  [place |-> <<j, 0>>, requirement |-> Baseline(i.task, i.snapshot, Ladder[j])]

NeedEntry(i, j, n) ==
  [place |-> <<j, n.reason>>, requirement |-> KernelRequirement(i.task, Signature(n))]

\* The planner makes these requirements and no other.
LEMMA EntriesAre ==
  ASSUME NEW i
  PROVE  \A e : e \in Entries(i.task, i.snapshot) <=>
           \E j \in DOMAIN Ladder :
             \/ e = OwnEntry(i, j)
             \/ \E n \in i.task.needs : n.kind = Ladder[j] /\ e = NeedEntry(i, j, n)
  BY DEF Entries, OwnEntry, NeedEntry

\* A place is a pair of numbers, and two entries never share one.
LEMMA PlacesAreUnique ==
  ASSUME NEW i \in Inputs
  PROVE  /\ \A e \in Entries(i.task, i.snapshot) :
              \E a, b \in Nat : e.place = <<a, b>>
         /\ \A e, f \in Entries(i.task, i.snapshot) : e.place = f.place => e = f
<1> DEFINE E == Entries(i.task, i.snapshot)
<1>1. DOMAIN Ladder = 1 .. 10
  BY DEF Ladder
<1>2. ASSUME NEW e \in E
      PROVE  \E j \in DOMAIN Ladder, r \in Nat :
               /\ e.place = <<j, r>>
               /\ r = 0 => e = OwnEntry(i, j)
               /\ r # 0 => \E n \in i.task.needs :
                             n.kind = Ladder[j] /\ n.reason = r /\ e = NeedEntry(i, j, n)
  <2>1. PICK j \in DOMAIN Ladder :
          \/ e = OwnEntry(i, j)
          \/ \E n \in i.task.needs : n.kind = Ladder[j] /\ e = NeedEntry(i, j, n)
    BY <1>2, EntriesAre
  <2>2. CASE e = OwnEntry(i, j)
    <3>1. e.place = <<j, 0>>
      BY <2>2 DEF OwnEntry
    <3> QED BY <2>2, <3>1
  <2>3. CASE \E n \in i.task.needs : n.kind = Ladder[j] /\ e = NeedEntry(i, j, n)
    <3>1. PICK n \in i.task.needs : n.kind = Ladder[j] /\ e = NeedEntry(i, j, n)
      BY <2>3
    <3>2. e.place = <<j, n.reason>>
      BY <3>1 DEF NeedEntry
    <3>3. n.reason \in Nat \ {0}
      BY NeedsAssumption
    <3> QED BY <3>1, <3>2, <3>3
  <2> QED BY <2>1, <2>2, <2>3
<1>3. \A e \in E : \E a, b \in Nat : e.place = <<a, b>>
  <2> HIDE DEF E
  <2>1. \A j \in DOMAIN Ladder : j \in Nat
    BY <1>1
  <2> QED BY <1>2, <2>1
<1>4. ASSUME NEW e \in E, NEW f \in E, e.place = f.place PROVE e = f
  <2>1. PICK j \in DOMAIN Ladder, r \in Nat :
               /\ e.place = <<j, r>>
               /\ r = 0 => e = OwnEntry(i, j)
               /\ r # 0 => \E n \in i.task.needs :
                             n.kind = Ladder[j] /\ n.reason = r /\ e = NeedEntry(i, j, n)
    BY <1>2
  <2>2. PICK k \in DOMAIN Ladder, s \in Nat :
               /\ f.place = <<k, s>>
               /\ s = 0 => f = OwnEntry(i, k)
               /\ s # 0 => \E n \in i.task.needs :
                             n.kind = Ladder[k] /\ n.reason = s /\ f = NeedEntry(i, k, n)
    BY <1>2
  <2>3. j = k /\ r = s
    <3>1. <<j, r>> = <<k, s>>
      BY <1>4, <2>1, <2>2
    <3> QED BY <3>1
  <2>4. CASE r = 0
    BY <2>1, <2>2, <2>3, <2>4
  <2>5. CASE r # 0
    <3>1. PICK m \in i.task.needs : m.kind = Ladder[j] /\ m.reason = r /\ e = NeedEntry(i, j, m)
      BY <2>1, <2>5
    <3>2. PICK n \in i.task.needs : n.kind = Ladder[j] /\ n.reason = r /\ f = NeedEntry(i, j, n)
      BY <2>2, <2>3, <2>5
    <3>3. Signature(m) = Signature(n)
      BY <3>1, <3>2, NeedsAssumption
    <3> QED BY <3>1, <3>2, <3>3 DEF NeedEntry
  <2> QED BY <2>4, <2>5
<1> QED BY <1>3, <1>4

\* The planner's plan holds each of its requirements, and nothing else: sorting
\* neither drops nor repeats one.
LEMMA PlanHoldsEntries ==
  ASSUME NEW i \in Inputs
  PROVE  LET P == RequirementPlan(i.task, i.snapshot) IN
         /\ \A e \in Entries(i.task, i.snapshot) : \E n \in DOMAIN P : P[n] = e.requirement
         /\ \A n \in DOMAIN P : \E e \in Entries(i.task, i.snapshot) : P[n] = e.requirement
<1> DEFINE E == Entries(i.task, i.snapshot)
           N == Cardinality(E)
           below(e) == {f \in E : Before(f.place, e.place)}
           position == [e \in E |-> 1 + Cardinality(below(e))]
           P == [n \in 1 .. N |-> (CHOOSE e \in E : position[e] = n).requirement]
<1>1. RequirementPlan(i.task, i.snapshot) = P
  BY DEF RequirementPlan
<1>2. IsFiniteSet(E) /\ N \in Nat
  BY EntriesFinite, FS_CardinalityType
<1>3. /\ \A e \in E : \E a, b \in Nat : e.place = <<a, b>>
      /\ \A e, f \in E : e.place = f.place => e = f
  BY PlacesAreUnique
<1> HIDE DEF E
<1>4. \A e \in E : ~ Before(e.place, e.place)
  <2> TAKE e \in E
  <2>1. PICK a \in Nat, b \in Nat : e.place = <<a, b>>
    BY <1>3
  <2> QED BY <2>1, PairOrder
<1>5. ASSUME NEW e \in E, NEW f \in E, e # f
      PROVE  Before(e.place, f.place) \/ Before(f.place, e.place)
  <2>1. PICK a \in Nat, b \in Nat : e.place = <<a, b>>
    BY <1>3
  <2>2. PICK c \in Nat, d \in Nat : f.place = <<c, d>>
    BY <1>3
  <2>3. a # c \/ b # d
    BY <1>3, <1>5, <2>1, <2>2
  <2> QED BY <2>1, <2>2, <2>3, PairOrder
<1>6. ASSUME NEW e \in E, NEW f \in E, NEW h \in E,
             Before(e.place, f.place), Before(f.place, h.place)
      PROVE  Before(e.place, h.place)
  <2>1. PICK a \in Nat, b \in Nat : e.place = <<a, b>>
    BY <1>3
  <2>2. PICK c \in Nat, d \in Nat : f.place = <<c, d>>
    BY <1>3
  <2>3. PICK p \in Nat, q \in Nat : h.place = <<p, q>>
    BY <1>3
  <2>4. (a < c \/ (a = c /\ b < d)) /\ (c < p \/ (c = p /\ d < q))
    BY <1>6, <2>1, <2>2, <2>3, PairOrder
  <2>5. a < p \/ (a = p /\ b < q)
    BY <2>4
  <2> QED BY <2>1, <2>3, <2>5, PairOrder
<1>7. ASSUME NEW e \in E
      PROVE  IsFiniteSet(below(e)) /\ Cardinality(below(e)) \in Nat /\ Cardinality(below(e)) < N
  <2>1. below(e) \in SUBSET E /\ e \notin below(e)
    BY <1>4
  <2>2. IsFiniteSet(below(e)) /\ Cardinality(below(e)) <= N /\ (N = Cardinality(below(e)) => E = below(e))
    BY <1>2, <2>1, FS_Subset
  <2>3. Cardinality(below(e)) \in Nat
    BY <2>2, FS_CardinalityType
  <2> HIDE DEF below, N
  <2> QED BY <1>2, <2>1, <2>2, <2>3
<1>8. ASSUME NEW e \in E, NEW f \in E, Before(e.place, f.place)
      PROVE  Cardinality(below(e)) # Cardinality(below(f))
  <2>1. below(e) \in SUBSET below(f)
    BY <1>6, <1>8
  <2>2. e \in below(f) /\ e \notin below(e)
    BY <1>4, <1>8
  <2>3. IsFiniteSet(below(f))
    BY <1>7
  <2> HIDE DEF below
  <2> QED BY <2>1, <2>2, <2>3, FS_Subset
<1> HIDE DEF below, N
<1>9. position \in [E -> 1 .. N]
  BY <1>2, <1>7
<1>10. ASSUME NEW e \in E, NEW f \in E, position[e] = position[f] PROVE e = f
  <2>1. Cardinality(below(e)) = Cardinality(below(f))
    BY <1>7, <1>10
  <2> QED BY <1>5, <1>8, <2>1
<1> HIDE DEF position
<1>11. position \in Injection(E, 1 .. N)
  BY <1>9, <1>10 DEF Injection, IsInjective
<1>12. IsFiniteSet(1 .. N) /\ Cardinality(1 .. N) = N
  BY <1>2, FS_Interval
<1>13. position \in Surjection(E, 1 .. N)
  BY <1>11, <1>12, FS_Injection DEF N
<1>14. \A n \in 1 .. N : \E e \in E : position[e] = n
  BY <1>13 DEF Surjection
<1>15. DOMAIN P = 1 .. N
  OBVIOUS
<1>16. \A e \in E : \E n \in DOMAIN P : P[n] = e.requirement
  <2> TAKE e \in E
  <2>1. position[e] \in 1 .. N
    BY <1>9
  <2>2. (CHOOSE f \in E : position[f] = position[e]) = e
    BY <1>10
  <2> QED BY <2>1, <2>2
<1>17. \A n \in DOMAIN P : \E e \in E : P[n] = e.requirement
  BY <1>14
<1> QED BY <1>1, <1>16, <1>17 DEF E

-----------------------------------------------------------------------------
(* What a step keeps. *)

\* The candidates of a compile are sound, and so is every part of them.
LEMMA SnapshotIsSound ==
  ASSUME FromInput, NEW S \in SUBSET snapshot
  PROVE  Sound(S) /\ IsFiniteSet(S) /\ \A x \in S : x.cost \in Nat
<1>1. Sound(S) /\ \A x \in S : x.cost \in Nat
  BY SnapshotsAssumption DEF FromInput, Sound
<1>2. IsFiniteSet(snapshot)
  BY SnapshotsAssumption DEF FromInput
<1> QED BY <1>1, <1>2, FS_Subset

\* What a requirement sees depends on the inputs only.
LEMMA SameViews ==
  ASSUME UNCHANGED inputs, NEW n
  PROVE  /\ View(plan[n])' = View(plan[n])
         /\ ConflictingKeys(n)' = ConflictingKeys(n)
<1>1. plan' = plan /\ snapshot' = snapshot
  BY DEF inputs
<1>2. View(plan[n])' = View(plan[n])
  BY <1>1 DEF View
<1> QED BY <1>2 DEF ConflictingKeys

\* A record is kept as long as unknowns only grow.
LEMMA StaysRecorded ==
  ASSUME UNCHANGED inputs, unknowns \subseteq unknowns', NEW n, Recorded(n)
  PROVE  Recorded(n)'
<1>1. plan' = plan
  BY DEF inputs
<1>2. View(plan[n])' = View(plan[n]) /\ ConflictingKeys(n)' = ConflictingKeys(n)
  BY SameViews
<1>3. \A k : Unknown(n, "conflict", k, {})' = Unknown(n, "conflict", k, {})
  BY <1>1 DEF Unknown
<1> QED BY <1>2, <1>3 DEF Recorded

\* A requirement stays served while selection and unknowns only grow.
LEMMA StaysServed ==
  ASSUME UNCHANGED inputs, unknowns \subseteq unknowns', NEW n, Served(n),
         Mine(n) \subseteq Mine(n)'
  PROVE  Served(n)'
<1>1. plan' = plan
  BY DEF inputs
<1>2. View(plan[n])' = View(plan[n]) /\ ConflictingKeys(n)' = ConflictingKeys(n)
  BY SameViews
<1>3. Recorded(n)'
  BY StaysRecorded DEF Served
<1>4. Complete(n)'
  BY <1>1, <1>2 DEF Served, Complete
<1>5. KeysOf(Mine(n)) \subseteq KeysOf(Mine(n)')
  BY DEF KeysOf
<1>6. Answered(n)'
  <2>1. KeysOf(Mine(n))' = KeysOf(Mine(n)')
    BY DEF KeysOf
  <2> QED BY <1>1, <1>2, <1>5, <2>1 DEF Served, Answered
<1> QED BY <1>3, <1>4, <1>6 DEF Served

\* A step that leaves inputs and selection alone keeps what was served before.
LEMMA StaysBound ==
  ASSUME UNCHANGED <<inputs, chosen>>, unknowns \subseteq unknowns',
         BoundAreEligible
  PROVE  /\ BoundAreEligible'
         /\ \A n : Mine(n)' = Mine(n)
         /\ \A n : Served(n) => Served(n)'
<1>1. plan' = plan /\ snapshot' = snapshot /\ chosen' = chosen /\ UNCHANGED inputs
  BY DEF inputs
<1>2. \A n : Mine(n)' = Mine(n)
  BY <1>1 DEF Mine
<1>3. \A n : Served(n) => Served(n)'
  BY <1>1, <1>2, StaysServed
<1>4. \A n : View(plan[n])' = View(plan[n])
  BY <1>1, SameViews
<1>5. BoundAreEligible'
  BY <1>1, <1>4 DEF BoundAreEligible
<1> QED BY <1>2, <1>3, <1>5

-----------------------------------------------------------------------------
(* The invariant holds initially, and every step keeps it. *)

LEMMA InitIInv == Init => IInv
<1> SUFFICES ASSUME Init PROVE IInv
  OBVIOUS
<1>1. FromInput
  BY DEF Init, FromInput
<1>2. IsFiniteSet(DOMAIN chosen)
  <2>1. DOMAIN chosen = {}
    BY DEF Init
  <2> QED BY <2>1, FS_EmptySet
<1>3. Numbers
  BY <1>2 DEF Init, Numbers, Nothing
<1> QED BY <1>1, <1>3 DEF Init, IInv

\* Nothing is selected before the first requirement is served.
LEMMA PlanContextIInv == IInv /\ PlanContext => IInv'
<1> SUFFICES ASSUME IInv, PlanContext PROVE IInv'
  OBVIOUS
<1>1. PICK i \in Inputs : snapshot = i.snapshot /\ task = i.task /\ plan = i.plan
  BY DEF IInv, FromInput, PlanContext
<1>2. plan' = PlanOf(i) /\ pc' = "begin" /\ snapshot' = i.snapshot /\ task' = i.task
      /\ budget' \in Budgets
  BY <1>1 DEF PlanContext, PlanOf, IInv, FromInput
<1>3. FromInput'
  BY <1>2 DEF FromInput
<1>4. chosen' = <<>> /\ turn' = 1
  BY DEF IInv, PlanContext
<1>5. Numbers'
  BY <1>2 DEF IInv, Numbers, PlanContext
<1>6. BoundAreEligible'
  <2>1. DOMAIN chosen' = {}
    BY <1>4
  <2> QED BY <2>1 DEF BoundAreEligible
<1>7. PICK k \in Nat : DOMAIN plan' = 1 .. k
  BY <1>2, PlanIsSequence
<1>8. \A n \in DOMAIN plan' : ~ (n < turn')
  BY <1>4, <1>7
<1> QED BY <1>2, <1>3, <1>5, <1>6, <1>7, <1>8 DEF IInv

\* A compile that fails promises nothing more.
LEMMA FailIInv == IInv /\ (RefuseSnapshot \/ EndBlocked) => IInv'
<1> SUFFICES ASSUME IInv, RefuseSnapshot \/ EndBlocked PROVE IInv'
  OBVIOUS
<1>1. /\ pc' = "failed" /\ UNCHANGED inputs
      /\ UNCHANGED <<turn, taken, total, chosen>>
  BY DEF RefuseSnapshot, EndBlocked
<1>2. FromInput'
  BY <1>1 DEF IInv, FromInput, inputs
<1>3. Numbers'
  BY <1>1 DEF IInv, Numbers
<1> QED BY <1>1, <1>2, <1>3 DEF IInv

\* The parts of the invariant that a step within the plan keeps because it leaves
\* the inputs and the selection alone.
LEMMA WithinPlan ==
  ASSUME IInv, pc \in {"begin", "select", "dispose"},
         pc' \in {"begin", "select", "dispose", "done"},
         UNCHANGED <<inputs, chosen>>, unknowns \subseteq unknowns'
  PROVE  /\ FromInput'
         /\ BoundAreEligible'
         /\ \A n : Mine(n)' = Mine(n)
         /\ \A n : Served(n) => Served(n)'
         /\ \E k \in Nat : DOMAIN plan' = 1 .. k
         /\ UNCHANGED inputs
<1>1. UNCHANGED inputs /\ BoundAreEligible /\ plan' = plan
  BY DEF IInv, inputs
<1>2. FromInput'
  BY <1>1 DEF IInv, FromInput, inputs
<1>3. \E k \in Nat : DOMAIN plan' = 1 .. k
  BY <1>1 DEF IInv
<1> QED BY <1>1, <1>2, <1>3, StaysBound

\* Beginning a requirement records what its view shows.
LEMMA BeginIInv == IInv /\ BeginRequirement => IInv'
<1> SUFFICES ASSUME IInv, BeginRequirement PROVE IInv'
  OBVIOUS
<1> DEFINE view == View(plan[turn])
<1>1. /\ pc = "begin" /\ pc' = "select" /\ turn \in DOMAIN plan
      /\ todo' = view.eligible
      /\ disposed' = {g[2] : g \in view.conflicts}
      /\ unknowns' = unknowns \cup {Unbound(u) : u \in view.unknowns}
                              \cup {Unknown(turn, "conflict", k, {}) : k \in disposed'}
      /\ taken' = Nothing
      /\ UNCHANGED <<inputs, chosen>> /\ UNCHANGED <<turn, chosen, total>>
  BY DEF BeginRequirement, Requirement
<1> HIDE DEF view
<1>2. /\ FromInput' /\ BoundAreEligible'
      /\ \A n : Mine(n)' = Mine(n)
      /\ \A n : Served(n) => Served(n)'
      /\ \E k \in Nat : DOMAIN plan' = 1 .. k
      /\ UNCHANGED inputs
  BY <1>1, WithinPlan
<1>3. plan' = plan /\ turn' = turn
  BY <1>1, <1>2 DEF inputs
<1>4. Numbers'
  BY <1>1 DEF IInv, Numbers, Nothing
<1>5. View(plan[turn])' = view /\ ConflictingKeys(turn)' = ConflictingKeys(turn)
      /\ ConflictingKeys(turn) = disposed'
  <2>1. \A n : View(plan[n])' = View(plan[n]) /\ ConflictingKeys(n)' = ConflictingKeys(n)
    BY <1>2, SameViews
  <2>2. View(plan[turn])' = view /\ ConflictingKeys(turn)' = ConflictingKeys(turn)
    BY <1>3, <2>1 DEF view, View, ConflictingKeys
  <2> QED BY <1>1, <2>2 DEF view, ConflictingKeys
<1>6. Recorded(turn)'
  <2>1. \A k : Unknown(turn, "conflict", k, {})' = Unknown(turn, "conflict", k, {})
    BY <1>3 DEF Unknown
  <2> QED BY <1>1, <1>5, <2>1 DEF Recorded
<1>7. Current'
  <2>1. taken'.keys = {} /\ taken'.count = 0
    BY <1>1 DEF Nothing
  <2> QED BY <1>1, <1>3, <1>5, <1>6, <2>1 DEF Current
<1> QED BY <1>1, <1>2, <1>3, <1>4, <1>7 DEF IInv

\* A requirement in progress stays as it is when its selection does.
LEMMA StaysCurrent ==
  ASSUME Current, UNCHANGED <<inputs, turn, disposed, taken, chosen>>,
         unknowns' = unknowns, todo' \subseteq todo,
         plan[turn].mode = "all_eligible" =>
           todo' = todo /\ (pc' = "dispose" => todo' = {} \/ stop' # None)
  PROVE  Current'
<1>1. plan' = plan /\ snapshot' = snapshot /\ UNCHANGED inputs /\ turn' = turn
  BY DEF inputs
<1>2. \A n : View(plan[n])' = View(plan[n]) /\ ConflictingKeys(n)' = ConflictingKeys(n)
  BY <1>1, SameViews
<1>3. View(plan[turn])' = View(plan[turn]) /\ ConflictingKeys(turn)' = ConflictingKeys(turn)
  BY <1>1, <1>2 DEF View, ConflictingKeys
<1>4. Mine(turn)' = Mine(turn)
  BY <1>1 DEF Mine
<1>5. Recorded(turn)'
  <2>1. \A k : Unknown(turn, "conflict", k, {})' = Unknown(turn, "conflict", k, {})
    BY <1>1 DEF Unknown
  <2> QED BY <1>3, <2>1 DEF Recorded, Current
<1>6. KeysOf(Mine(turn))' = KeysOf(Mine(turn))
  BY <1>4 DEF KeysOf
<1> QED BY <1>1, <1>3, <1>4, <1>5, <1>6 DEF Current

\* The walk through the candidates ends, or passes one that was not asked for.
LEMMA WalkIInv ==
  IInv /\ (EndSelection \/ \E x \in todo : SkipUnrequested(x)) => IInv'
<1> SUFFICES ASSUME IInv, EndSelection \/ \E x \in todo : SkipUnrequested(x) PROVE IInv'
  OBVIOUS
<1>1. /\ pc = "select" /\ pc' \in {"select", "dispose"}
      /\ UNCHANGED <<inputs, chosen>> /\ UNCHANGED <<inputs, turn, disposed, taken, chosen>>
      /\ UNCHANGED <<turn, taken, total, chosen>> /\ unknowns' = unknowns /\ turn' = turn
      /\ todo' \subseteq todo
  BY DEF EndSelection, SkipUnrequested, Upcoming
<1>2. plan[turn].mode = "all_eligible" =>
        todo' = todo /\ (pc' = "dispose" => todo' = {} \/ stop' # None)
  BY DEF EndSelection, SkipUnrequested, Upcoming, Unrequested, Enough, Requirement
<1>3. Current
  BY <1>1 DEF IInv
<1>4. Current'
  BY <1>1, <1>2, <1>3, StaysCurrent
<1>5. Numbers'
  BY <1>1 DEF IInv, Numbers
<1>6. FromInput' /\ BoundAreEligible' /\ (\A n : Served(n) => Served(n)')
      /\ (\E k \in Nat : DOMAIN plan' = 1 .. k) /\ UNCHANGED inputs
  BY <1>1, WithinPlan
<1> QED BY <1>1, <1>4, <1>5, <1>6 DEF IInv, inputs

\* The witness of a bound is a witness.
LEMMA WitnessIsNotNone ==
  ASSUME IInv, NEW x \in snapshot, NEW n \in DOMAIN Bounds, Exceeds(Bounds[n], x), turn \in DOMAIN plan,
         pc \notin {"plan", "failed"}
  PROVE  Witness(Bounds[n], x) # None
<1>1. x.id \in Nat /\ x.cost \in Nat
  BY SnapshotIsSound DEF IInv, Sound
<1>2. Cardinality(DOMAIN chosen) \in Nat
  BY FS_CardinalityType DEF IInv, Numbers
<1>3. taken.count \in Nat /\ taken.bytes \in Nat /\ total \in Nat
  BY DEF IInv, Numbers
<1>4. budget.items \in Nat /\ budget.bytes \in Nat
  BY BudgetsAssumption DEF IInv, FromInput
<1>5. LegalRequirement(plan[turn])
  BY PlansAssumption DEF IInv, FromInput
<1>6. /\ Requirement.maxItems # None => Requirement.maxItems \in Nat
      /\ Requirement.maxBytes # None => Requirement.maxBytes \in Nat
  BY <1>5 DEF LegalRequirement, Requirement
<1>7. Bounds[n] \in {"requirement_max_items", "requirement_max_bytes", "global_max_items", "global_max_bytes"}
  BY DEF Bounds
<1>8. Limit(Bounds[n]) \in Nat
  <2> DEFINE b == Bounds[n]
  <2> HIDE DEF b
  <2>1. CASE b = "requirement_max_items"
    BY <1>6, <2>1 DEF Exceeds, Limit, b
  <2>2. CASE b = "requirement_max_bytes"
    BY <1>6, <2>2 DEF Exceeds, Limit, b
  <2>3. CASE b = "global_max_items"
    BY <1>4, <2>3 DEF Limit, b
  <2>4. CASE b = "global_max_bytes"
    BY <1>4, <2>4 DEF Limit, b
  <2> QED BY <1>7, <2>1, <2>2, <2>3, <2>4 DEF b
<1>9. Witness(Bounds[n], x) \in Witnesses
  <2>1. Bounds[n] \in Range(Bounds)
    BY DEF Range
  <2> QED BY <1>1, <1>2, <1>3, <1>8, <2>1 DEF Witness, Witnesses
<1> QED BY <1>9, NoneAssumption

\* What a requirement still looks at is part of the snapshot.
LEMMA TodoIsSeen ==
  ASSUME Current, NEW x \in todo
  PROVE  x \in View(plan[turn]).eligible /\ x \in snapshot
<1>1. View(plan[turn]).eligible \subseteq {y \in snapshot : MatchesRequirement(plan[turn], y)}
  BY EligibleAreSeen DEF View
<1> QED BY <1>1 DEF Current

\* A budget stop leaves its witness.
LEMMA StopIInv ==
  ASSUME IInv, NEW x \in todo, NEW n \in DOMAIN Bounds, StopOnBudget(x, n)
  PROVE  IInv'
<1>1. /\ pc = "select" /\ pc' = "dispose"
      /\ UNCHANGED <<inputs, chosen>> /\ UNCHANGED <<inputs, turn, disposed, taken, chosen>>
      /\ UNCHANGED <<turn, taken, total, chosen>> /\ unknowns' = unknowns /\ turn' = turn
      /\ todo' = todo /\ Exceeds(Bounds[n], x) /\ stop' = Witness(Bounds[n], x)
  BY DEF StopOnBudget, Upcoming
<1>2. Current
  BY <1>1 DEF IInv
<1>3. x \in snapshot /\ turn \in DOMAIN plan
  BY <1>2, TodoIsSeen DEF Current
<1>4. stop' # None
  BY <1>1, <1>3, WitnessIsNotNone
<1>5. Current'
  BY <1>1, <1>2, <1>4, StaysCurrent
<1>6. Numbers'
  BY <1>1 DEF IInv, Numbers
<1>7. FromInput' /\ BoundAreEligible' /\ (\A m : Served(m) => Served(m)')
      /\ (\E k \in Nat : DOMAIN plan' = 1 .. k) /\ UNCHANGED inputs
  BY <1>1, WithinPlan
<1> QED BY <1>1, <1>5, <1>6, <1>7 DEF IInv, inputs

\* Admitting an item binds that item to that requirement, and nothing else.
LEMMA AdmitBinds ==
  ASSUME IInv, NEW x \in todo, Admit(x)
  PROVE  /\ \A i \in DOMAIN chosen' : chosen'[i] # {}
         /\ \A y \in snapshot : \A n :
              y.id \in DOMAIN chosen' /\ n \in chosen'[y.id] <=>
                \/ y.id \in DOMAIN chosen /\ n \in chosen[y.id]
                \/ y = x /\ n = turn
         /\ IsFiniteSet(DOMAIN chosen')
<1>1. pc = "select" /\ Current
  BY DEF Admit, Upcoming, IInv
<1>2. x \in snapshot
  BY <1>1, TodoIsSeen
<1>3. \A y \in snapshot : y.id = x.id => y = x
  <2>1. Sound(snapshot)
    BY SnapshotIsSound DEF IInv
  <2> QED BY <1>2, <2>1 DEF Sound
<1>4. chosen' = [i \in DOMAIN chosen \cup {x.id} |->
                  (IF i \in DOMAIN chosen THEN chosen[i] ELSE {})
                    \cup (IF i = x.id THEN {turn} ELSE {})]
  BY DEF Admit
<1>5. \A i \in DOMAIN chosen : chosen[i] # {}
  BY <1>1 DEF IInv, BoundAreEligible
<1>6. DOMAIN chosen' = DOMAIN chosen \cup {x.id}
  BY <1>4
<1>7. \A i \in DOMAIN chosen' : chosen'[i] # {}
  BY <1>4, <1>5
<1>8. \A y \in snapshot : \A n :
        y.id \in DOMAIN chosen' /\ n \in chosen'[y.id] <=>
          \/ y.id \in DOMAIN chosen /\ n \in chosen[y.id]
          \/ y = x /\ n = turn
  BY <1>2, <1>3, <1>4, <1>6
<1>9. IsFiniteSet(DOMAIN chosen')
  <2>1. IsFiniteSet(DOMAIN chosen)
    BY DEF IInv, Numbers
  <2>2. IsFiniteSet(DOMAIN chosen \cup {x.id})
    BY <2>1, FS_AddElement
  <2> QED BY <1>6, <2>2
<1> QED BY <1>7, <1>8, <1>9

\* An admitted item was eligible, and what its requirement still lacks is still to
\* be looked at.
LEMMA AdmitIInv ==
  ASSUME IInv, NEW x \in todo, Admit(x)
  PROVE  IInv'
<1>1. /\ pc = "select" /\ pc' = "select"
      /\ UNCHANGED inputs /\ turn' = turn /\ disposed' = disposed /\ unknowns' = unknowns
      /\ todo' = todo \ {x}
      /\ total' = IF x.id \in DOMAIN chosen THEN total ELSE total + x.cost
      /\ taken' = [count |-> taken.count + 1, bytes |-> taken.bytes + x.cost,
                   keys |-> taken.keys \cup {x.key}]
  BY DEF Admit, Upcoming
<1>2. plan' = plan /\ snapshot' = snapshot /\ task' = task /\ budget' = budget
  BY <1>1 DEF inputs
<1>3. Current /\ BoundAreEligible /\ Numbers /\ FromInput
  BY <1>1 DEF IInv
<1>4. x \in View(plan[turn]).eligible /\ x \in snapshot
  BY <1>3, TodoIsSeen
<1>5. x.cost \in Nat
  BY <1>3, <1>4, SnapshotIsSound
<1>6. Numbers'
  <2>1. taken'.count = taken.count + 1 /\ taken'.bytes = taken.bytes + x.cost
    BY <1>1
  <2>2. IsFiniteSet(DOMAIN chosen')
    BY AdmitBinds
  <2> QED BY <1>1, <1>3, <1>5, <2>1, <2>2 DEF Numbers
<1>7. FromInput'
  BY <1>1, <1>2, <1>3 DEF FromInput
<1>8. \A n : View(plan[n])' = View(plan[n]) /\ ConflictingKeys(n)' = ConflictingKeys(n)
  BY <1>1, SameViews
<1>9. BoundAreEligible'
  <2> SUFFICES ASSUME NEW y \in snapshot', y.id \in DOMAIN chosen', NEW n \in chosen'[y.id]
               PROVE  n \in DOMAIN plan' /\ y \in View(plan[n])'.eligible
    BY AdmitBinds DEF BoundAreEligible
  <2>1. \/ y.id \in DOMAIN chosen /\ n \in chosen[y.id]
        \/ y = x /\ n = turn
    BY <1>2, AdmitBinds
  <2>2. n \in DOMAIN plan /\ y \in View(plan[n]).eligible
    BY <1>2, <1>3, <1>4, <2>1 DEF BoundAreEligible, Current
  <2> QED BY <1>2, <1>8, <2>2
<1>10. \A n : Mine(n) \subseteq Mine(n)'
  BY <1>2, AdmitBinds DEF Mine
<1>11. Mine(turn)' = Mine(turn) \cup {x}
  BY <1>1, <1>2, <1>4, AdmitBinds DEF Mine
<1>12. \A n : Served(n) => Served(n)'
  BY <1>1, <1>10, StaysServed
<1>13. View(plan[turn])' = View(plan[turn]) /\ ConflictingKeys(turn)' = ConflictingKeys(turn)
  BY <1>1, <1>2, <1>8 DEF View, ConflictingKeys
<1>14. Current'
  <2>1. taken'.keys = taken.keys \cup {x.key}
    BY <1>1
  <2>2. Recorded(turn)'
    <3>1. \A k : Unknown(turn, "conflict", k, {})' = Unknown(turn, "conflict", k, {})
      BY <1>1, <1>2 DEF Unknown
    <3> QED BY <1>1, <1>3, <1>13, <3>1 DEF Recorded, Current
  <2>3. taken'.keys \subseteq KeysOf(Mine(turn))'
    BY <1>3, <1>11, <2>1 DEF Current, KeysOf
  <2>4. Mine(turn)' # {}
    BY <1>11
  <2> QED BY <1>1, <1>2, <1>3, <1>11, <1>13, <2>2, <2>3, <2>4 DEF Current
<1> QED BY <1>1, <1>2, <1>6, <1>7, <1>9, <1>12, <1>14 DEF IInv

\* A requirement that ends is served if its coverage is complete or says so, and its
\* keys are covered or said to be missing.
LEMMA EndsServed ==
  ASSUME IInv, pc = "dispose", NEW n, n = turn,
         NextRequirement, unknowns \subseteq unknowns',
         \/ plan[n].mode = "all_eligible" => stop = None
         \/ \E u \in unknowns' : /\ u.requirement = n /\ u.reason = "budget"
                                 /\ u.blocking = plan[n].required,
         plan[n].policy = "preserve_unknown" =>
           \/ /\ taken.count >= plan[n].min
              /\ plan[n].mode = "semantic_keys" => MissingKeys = {}
           \/ \E u \in unknowns' : /\ u.requirement = n /\ u.reason \in {"missing", "budget"}
                                   /\ u.details.missing = MissingKeys
  PROVE  IInv'
<1>1. /\ turn' = n + 1 /\ pc' = "begin" /\ UNCHANGED <<inputs, chosen>>
      /\ UNCHANGED <<taken, chosen, total>>
  BY DEF NextRequirement
<1>2. /\ FromInput' /\ BoundAreEligible'
      /\ \A m : Mine(m)' = Mine(m)
      /\ \A m : Served(m) => Served(m)'
      /\ \E k \in Nat : DOMAIN plan' = 1 .. k
      /\ UNCHANGED inputs
  BY <1>1, WithinPlan
<1>3. plan' = plan
  BY <1>2 DEF inputs
<1>4. Current /\ n \in DOMAIN plan /\ turn \in Nat \ {0}
  BY DEF IInv, Current, Numbers
<1>5. Numbers'
  BY <1>1, <1>4 DEF IInv, Numbers
<1>6. View(plan[n])' = View(plan[n]) /\ ConflictingKeys(n)' = ConflictingKeys(n)
  BY <1>2, SameViews
<1>7. Recorded(n)'
  BY <1>2, <1>4, StaysRecorded DEF Current
<1>8. Complete(n)'
  BY <1>2, <1>3, <1>4, <1>6 DEF Complete, Current
<1> DEFINE lacking == plan[n].keys \ (KeysOf(Mine(n)) \cup ConflictingKeys(n))
<1>9. lacking \subseteq MissingKeys
  BY <1>4 DEF MissingKeys, Requirement, Current
<1>10. KeysOf(Mine(n))' = KeysOf(Mine(n))
  BY <1>2 DEF KeysOf
<1>11. plan[n].min \in Nat /\ taken.count \in Nat
  <2>1. LegalRequirement(plan[n])
    BY <1>4, PlansAssumption DEF IInv, FromInput
  <2> QED BY <2>1 DEF LegalRequirement, IInv, Numbers
<1>12. taken.count >= plan[n].min /\ plan[n].min >= 1 => Mine(n) # {}
  BY <1>4, <1>11 DEF Current
<1>13. Answered(n)'
  BY <1>2, <1>3, <1>6, <1>9, <1>10, <1>12 DEF Answered
<1>14. Served(n)'
  BY <1>7, <1>8, <1>13 DEF Served
<1>15. ASSUME NEW m \in DOMAIN plan', m < turn' PROVE Served(m)'
  <2>1. m \in Nat /\ m \in DOMAIN plan
    BY <1>2, <1>3, <1>15
  <2>2. m < turn \/ m = n
    BY <1>1, <1>4, <1>15, <2>1
  <2>3. m < turn => Served(m)
    BY <2>1 DEF IInv
  <2> QED BY <1>2, <1>14, <2>2, <2>3
<1> QED BY <1>1, <1>2, <1>5, <1>15 DEF IInv

LEMMA EndIInv == IInv /\ (EndSatisfied \/ EndOptional \/ EndRecorded) => IInv'
<1> SUFFICES ASSUME IInv, EndSatisfied \/ EndOptional \/ EndRecorded PROVE IInv'
  OBVIOUS
<1>1. PICK n : n = turn
  OBVIOUS
<1>2. Requirement = plan[n] /\ pc = "dispose" /\ NextRequirement
  BY <1>1 DEF Requirement, EndSatisfied, EndOptional, EndRecorded
<1>3. CASE EndSatisfied
  <2>1. /\ unknowns' = unknowns
        /\ taken.count >= plan[n].min
        /\ plan[n].mode = "semantic_keys" => MissingKeys = {}
        /\ plan[n].mode = "all_eligible" => stop = None
    BY <1>2, <1>3 DEF EndSatisfied, Satisfied
  <2> QED BY <1>1, <1>2, <2>1, EndsServed
<1>4. CASE EndOptional
  <2>1. unknowns' = unknowns /\ stop = None /\ plan[n].policy # "preserve_unknown"
    BY <1>2, <1>4 DEF EndOptional
  <2> QED BY <1>1, <1>2, <2>1, EndsServed
<1>5. CASE EndRecorded
  <2> DEFINE u == Unknown(turn, IF stop = None THEN "missing" ELSE "budget", None,
                          [missing |-> MissingKeys, witness |-> stop])
  <2>1. unknowns' = unknowns \cup {u}
    BY <1>5 DEF EndRecorded
  <2>2. /\ u.requirement = n /\ u.reason = (IF stop = None THEN "missing" ELSE "budget")
        /\ u.blocking = plan[n].required /\ u.details.missing = MissingKeys
    BY <1>1 DEF Unknown
  <2> HIDE DEF u
  <2> QED BY <1>1, <1>2, <2>1, <2>2, EndsServed
<1> QED BY <1>3, <1>4, <1>5

\* Once everything is served, what is not proven is said.
LEMMA FinishIInv == IInv /\ Finish => IInv'
<1> SUFFICES ASSUME IInv, Finish PROVE IInv'
  OBVIOUS
<1>1. /\ pc = "begin" /\ pc' = "done" /\ turn \notin DOMAIN plan
      /\ UNCHANGED <<inputs, chosen>> /\ UNCHANGED <<turn, taken, chosen, total>> /\ turn' = turn
      /\ unknowns' = unknowns \cup StatusUnknowns
                              \cup CapabilityUnknowns(task, material, Selected)
                              \cup AuthorityUnknowns(task, material, Selected)
  BY DEF Finish, material
<1>2. FromInput' /\ BoundAreEligible' /\ (\A m : Served(m) => Served(m)')
      /\ (\E k \in Nat : DOMAIN plan' = 1 .. k) /\ UNCHANGED inputs
  BY <1>1, WithinPlan
<1>3. plan' = plan /\ task' = task /\ snapshot' = snapshot /\ chosen' = chosen
  BY <1>1 DEF inputs
<1>4. material' = material /\ Selected' = Selected
  BY <1>3 DEF material, Selected
<1>5. Said'
  BY <1>1, <1>3, <1>4 DEF Said
<1>6. Numbers'
  BY <1>1 DEF IInv, Numbers
<1> QED BY <1>1, <1>2, <1>3, <1>5, <1>6 DEF IInv

LEMMA NextIInv == IInv /\ [Next]_vars => IInv'
<1> SUFFICES ASSUME IInv, [Next]_vars PROVE IInv'
  OBVIOUS
<1>1. CASE PlanContext
  BY <1>1, PlanContextIInv
<1>2. CASE RefuseSnapshot \/ EndBlocked
  BY <1>2, FailIInv
<1>3. CASE BeginRequirement
  BY <1>3, BeginIInv
<1>4. CASE EndSelection \/ \E x \in todo : SkipUnrequested(x)
  BY <1>4, WalkIInv
<1>5. CASE \E x \in todo : Admit(x)
  BY <1>5, AdmitIInv
<1>6. CASE \E x \in todo : \E n \in DOMAIN Bounds : StopOnBudget(x, n)
  BY <1>6, StopIInv
<1>7. CASE EndSatisfied \/ EndOptional \/ EndRecorded
  BY <1>7, EndIInv
<1>8. CASE Finish
  BY <1>8, FinishIInv
<1>9. CASE UNCHANGED vars
  <2>1. /\ UNCHANGED inputs /\ UNCHANGED <<pc, turn, todo, disposed, taken, stop, chosen, total, unknowns>>
        /\ UNCHANGED <<snapshot, task, budget, plan>>
    BY <1>9 DEF vars, inputs
  <2>2. FromInput' /\ Numbers'
    BY <2>1 DEF IInv, FromInput, Numbers
  <2>3. pc \notin {"plan", "failed"} => BoundAreEligible' /\ \A n : Served(n) => Served(n)'
    BY <2>1, StaysBound DEF IInv
  <2>4. pc \in {"select", "dispose"} => Current'
    <3>1. pc \in {"select", "dispose"} => Current
      BY DEF IInv
    <3>2. UNCHANGED <<inputs, turn, disposed, taken, chosen>> /\ unknowns' = unknowns /\ todo' \subseteq todo
      BY <2>1
    <3>3. Current => (plan[turn].mode = "all_eligible" =>
            todo' = todo /\ (pc' = "dispose" => todo' = {} \/ stop' # None))
      BY <2>1 DEF Current
    <3> QED BY <3>1, <3>2, <3>3, StaysCurrent
  <2>5. pc = "done" => Said'
    <3>1. material' = material /\ Selected' = Selected
      BY <2>1 DEF material, Selected
    <3> QED BY <2>1, <3>1 DEF IInv, Said
  <2> QED BY <2>1, <2>2, <2>3, <2>4, <2>5 DEF IInv
<1> QED BY <1>1, <1>2, <1>3, <1>4, <1>5, <1>6, <1>7, <1>8, <1>9 DEF Next

\* Every requirement served is complete and answered, or says what it lacks, and
\* everything its view shows of conflicts and supersession is on record: the
\* invariant of ContextCompiler.compile.
THEOREM Invariance == Spec => []IInv
<1>1. Init => IInv
  BY InitIInv
<1>2. IInv /\ [Next]_vars => IInv'
  BY NextIInv
<1> QED BY <1>1, <1>2, PTL DEF Spec

-----------------------------------------------------------------------------
(* What a finished compile promises. *)

\* A finished compile has served every requirement, and Mine is what closure calls
\* bound.
LEMMA AllServed ==
  ASSUME IInv, pc = "done"
  PROVE  /\ \A n \in DOMAIN plan : Served(n)
         /\ \A n : Bound(compiled, n) = Mine(n)
         /\ Said /\ BoundAreEligible /\ FromInput
<1>1. Said /\ BoundAreEligible /\ FromInput
  BY DEF IInv
<1>2. PICK k \in Nat : DOMAIN plan = 1 .. k
  BY DEF IInv
<1>3. ASSUME NEW n \in DOMAIN plan PROVE Served(n)
  <2>1. turn \in Nat \ {0} /\ turn \notin 1 .. k
    BY <1>1, <1>2 DEF IInv, Numbers, Said
  <2>2. n < turn
    BY <1>2, <2>1
  <2> QED BY <2>2 DEF IInv
<1>4. \A n : Bound(compiled, n) = Mine(n)
  BY DEF Bound, Items, compiled, Mine
<1> QED BY <1>1, <1>3, <1>4

\* What a requirement sees is a sound part of the snapshot, and resolves to its view.
LEMMA ViewOf ==
  ASSUME FromInput, NEW q
  PROVE  LET seen == {y \in snapshot : MatchesRequirement(q, y)} IN
         /\ View(q) = Resolve(seen)
         /\ Sound(seen)
         /\ View(q).eligible \subseteq seen
<1> DEFINE seen == {y \in snapshot : MatchesRequirement(q, y)}
<1>1. View(q) = Resolve(seen)
  BY DEF View
<1>2. Sound(seen)
  BY SnapshotIsSound
<1>3. Resolve(seen).eligible \subseteq seen
  BY EligibleAreSeen
<1> QED BY <1>1, <1>2, <1>3

\* A recorded conflict, or supersession unknown, as the properties read it.
LEMMA RecordsRead ==
  ASSUME NEW n, Recorded(n)
  PROVE  /\ \A k \in ConflictingKeys(n) :
              \E u \in Reported(compiled, n, {"conflict"}) : u.key = k
         /\ \A v \in View(plan[n]).unknowns :
              \E u \in unknowns : u.reason = v.reason /\ u.details = v.claims
<1>1. ASSUME NEW k \in ConflictingKeys(n)
      PROVE  \E u \in Reported(compiled, n, {"conflict"}) : u.key = k
  <2> DEFINE u == Unknown(n, "conflict", k, {})
  <2>1. u.requirement = n /\ u.reason = "conflict" /\ u.key = k
    BY DEF Unknown
  <2>2. u \in unknowns
    BY <1>1 DEF Recorded
  <2> HIDE DEF u
  <2> QED BY <2>1, <2>2 DEF Reported, compiled
<1>2. ASSUME NEW v \in View(plan[n]).unknowns
      PROVE  \E u \in unknowns : u.reason = v.reason /\ u.details = v.claims
  <2>1. Unbound(v) \in unknowns
    BY <1>2 DEF Recorded
  <2>2. Unbound(v).reason = v.reason /\ Unbound(v).details = v.claims
    BY DEF Unbound, Free
  <2> QED BY <2>1, <2>2
<1> QED BY <1>1, <1>2

\* Nothing a requirement asked for in full is lost without a trace, whatever the
\* snapshot, the plan and the budget: _select_for resolves and records it all.
THEOREM NothingIsLostSilently == Spec => []NoSilentLoss
<1>1. ASSUME IInv PROVE NoSilentLoss
  <2> SUFFICES ASSUME pc = "done", NEW n \in DOMAIN plan, plan[n].mode = "all_eligible",
                      NEW x \in snapshot, MatchesRequirement(plan[n], x), x \notin Bound(compiled, n)
               PROVE  LET seen == {y \in snapshot : MatchesRequirement(plan[n], y)} IN
                      \/ Reported(compiled, n, {"budget"}) # {}
                      \/ \E u \in Reported(compiled, n, {"conflict"}) : u.key = x.key
                      \/ \E u \in unknowns : u.reason = "cycle" /\ x.id \in u.details
                      \/ x.status = "superseded"
                      \/ \E y \in seen \ {x} : y.rank <= x.rank /\ NamedBy(x, y)
                      \/ \E y \in Bound(compiled, n) : y.key = x.key /\ Outweighs(y, x)
    BY DEF NoSilentLoss
  <2> DEFINE seen == {y \in snapshot : MatchesRequirement(plan[n], y)}
  <2>1. Served(n) /\ Bound(compiled, n) = Mine(n) /\ FromInput
    BY <1>1, AllServed
  <2>2. View(plan[n]) = Resolve(seen) /\ Sound(seen)
    BY <2>1, ViewOf
  <2>3. CASE \E u \in unknowns : u.requirement = n /\ u.reason = "budget"
    BY <2>3 DEF Reported, compiled
  <2>4. CASE View(plan[n]).eligible \subseteq Mine(n)
    <3>1. x \in seen /\ x \notin Resolve(seen).eligible
      BY <2>1, <2>2, <2>4
    <3>2. \/ <<x.kind, x.key>> \in View(plan[n]).conflicts
          \/ \E u \in View(plan[n]).unknowns : u.reason = "cycle" /\ x.id \in u.claims
          \/ x.status = "superseded"
          \/ \E y \in seen \ {x} : y.rank <= x.rank /\ NamedBy(x, y)
          \/ \E w \in View(plan[n]).eligible : w.key = x.key /\ Outweighs(w, x)
      <4> HIDE DEF seen
      <4> QED BY <2>2, <3>1, Accounted
    <3>3. CASE <<x.kind, x.key>> \in View(plan[n]).conflicts
      <4>1. x.key \in ConflictingKeys(n)
        BY <3>3 DEF ConflictingKeys
      <4> QED BY <2>1, <4>1, RecordsRead DEF Served
    <3>4. CASE \E u \in View(plan[n]).unknowns : u.reason = "cycle" /\ x.id \in u.claims
      BY <2>1, <3>4, RecordsRead DEF Served
    <3> QED BY <2>1, <2>4, <3>2, <3>3, <3>4
  <2> QED BY <2>1, <2>3, <2>4 DEF Served, Complete
<1> QED BY <1>1, Invariance, PTL

\* A planned compile serves each requirement of the planner, and no other.
LEMMA PlannedRequirements ==
  ASSUME FromInput, plan = RequirementPlan(task, snapshot)
  PROVE  /\ \A j \in DOMAIN Ladder :
              \E n \in DOMAIN plan : plan[n] = Baseline(task, snapshot, Ladder[j])
         /\ \A m \in task.needs :
              LegalNeed(m) /\ \E n \in DOMAIN plan : plan[n] = KernelRequirement(task, Signature(m))
         /\ \A n \in DOMAIN plan :
              \/ \E j \in DOMAIN Ladder : plan[n] = Baseline(task, snapshot, Ladder[j])
              \/ \E m \in task.needs : plan[n] = KernelRequirement(task, Signature(m))
<1>1. PICK i \in Inputs : snapshot = i.snapshot /\ task = i.task
  BY DEF FromInput
<1> DEFINE E == Entries(i.task, i.snapshot)
<1>2. /\ \A e \in E : \E n \in DOMAIN plan : plan[n] = e.requirement
      /\ \A n \in DOMAIN plan : \E e \in E : plan[n] = e.requirement
  BY <1>1, PlanHoldsEntries
<1>3. \A e : e \in E <=>
           \E j \in DOMAIN Ladder :
             \/ e = OwnEntry(i, j)
             \/ \E m \in i.task.needs : m.kind = Ladder[j] /\ e = NeedEntry(i, j, m)
  BY EntriesAre
<1>4. \A j : OwnEntry(i, j).requirement = Baseline(task, snapshot, Ladder[j])
  BY <1>1 DEF OwnEntry
<1>5. \A j, m : NeedEntry(i, j, m).requirement = KernelRequirement(task, Signature(m))
  BY <1>1 DEF NeedEntry
<1> HIDE DEF E
<1>6. \A j \in DOMAIN Ladder :
        \E n \in DOMAIN plan : plan[n] = Baseline(task, snapshot, Ladder[j])
  BY <1>2, <1>3, <1>4
<1>7. ASSUME NEW m \in task.needs
      PROVE  LegalNeed(m) /\ \E n \in DOMAIN plan : plan[n] = KernelRequirement(task, Signature(m))
  <2>1. LegalNeed(m)
    BY <1>1, NeedsAssumption
  <2>2. PICK j \in DOMAIN Ladder : Ladder[j] = m.kind
    BY <2>1 DEF LegalNeed, Range
  <2>3. NeedEntry(i, j, m) \in E
    BY <1>1, <1>3, <2>2
  <2> QED BY <1>2, <1>5, <2>1, <2>3
<1>8. ASSUME NEW n \in DOMAIN plan
      PROVE  \/ \E j \in DOMAIN Ladder : plan[n] = Baseline(task, snapshot, Ladder[j])
             \/ \E m \in task.needs : plan[n] = KernelRequirement(task, Signature(m))
  <2>1. PICK e \in E : plan[n] = e.requirement
    BY <1>2
  <2> QED BY <1>1, <1>3, <1>4, <1>5, <2>1
<1> QED BY <1>6, <1>7, <1>8

\* The constraints that discovery saw, the planner's requirement for constraints sees
\* too, and what it sees besides is weaker.
LEMMA SignalsAreEligible ==
  ASSUME FromInput, NEW x \in SignalItems(task, snapshot)
  PROVE  x \in View(Baseline(task, snapshot, "constraint")).eligible /\ x \in snapshot
<1> DEFINE q == Baseline(task, snapshot, "constraint")
           D == {y \in snapshot : DiscoveryEligible(task, y)}
           V == {y \in snapshot : MatchesRequirement(q, y)}
<1>1. x \in Resolve(D).eligible /\ x.kind = "constraint"
  BY DEF SignalItems, Discovered
<1>2. x \in D
  BY <1>1, EligibleAreSeen
<1>3. Sound(D) /\ IsFiniteSet(D) /\ Sound(V) /\ IsFiniteSet(V)
  BY SnapshotIsSound
<1>4. /\ q.kind = "constraint" /\ q.floor = 2 /\ q.refs = EligibleRefs(task)
      /\ q.coordinate = None
  BY DEF Baseline, GoverningScope, ScopedKinds, GovernedOnlyKinds
<1>5. \A y \in snapshot : y.rank \in Nat
  <2>1. Sound(snapshot)
    BY SnapshotIsSound
  <2> QED BY <2>1 DEF Sound
<1> HIDE DEF q
<1>6. ASSUME NEW y \in D, y.kind = "constraint" PROVE y \in V
  <2>1. y.rank \in {0, 1} /\ (y.refs = {} \/ y.refs \cap EligibleRefs(task) # {})
    BY <1>6 DEF DiscoveryEligible, GovernedRanks
  <2>2. y.rank <= q.floor
    BY <1>4, <2>1
  <2> QED BY <1>4, <1>6, <2>1, <2>2
        DEF MatchesRequirement, GovernedOnlyKinds, GloballyApplicableKinds
<1>7. ASSUME NEW y \in V \ D, y.kind = "constraint" PROVE x.rank < y.rank
  <2>1. y.refs = {} \/ y.refs \cap EligibleRefs(task) # {}
    BY <1>4, <1>7 DEF MatchesRequirement
  <2>2. y.rank \notin {0, 1}
    BY <1>7, <2>1 DEF DiscoveryEligible, DiscoveryKinds, GovernedRanks
  <2>3. x.rank \in {0, 1}
    BY <1>2 DEF DiscoveryEligible, GovernedRanks
  <2>4. y.rank \in Nat
    BY <1>5
  <2> QED BY <2>2, <2>3, <2>4
<1>8. x \in Resolve(V).eligible
  <2> HIDE DEF D, V
  <2>1. x.kind \in PlainKinds
    BY <1>1 DEF PlainKinds
  <2> QED BY <1>1, <1>2, <1>3, <1>6, <1>7, <2>1, WeakerCannotTopple
<1> QED BY <1>2, <1>8 DEF View, q

\* What fires architecture materiality reaches the context or the budget stop is on
\* record, and blocks: the planner asks for everything its signals were drawn from.
THEOREM SignalsAreCarried == Spec => []MaterialityIsCarried
<1>1. ASSUME IInv PROVE MaterialityIsCarried
  <2> SUFFICES ASSUME pc = "done", plan = RequirementPlan(task, snapshot),
                      NEW x \in SignalItems(task, snapshot)
               PROVE  \/ x \in Selected
                      \/ \E u \in unknowns : /\ u.reason = "budget"
                                             /\ plan[u.requirement].kind = "constraint"
                                             /\ Material(task, snapshot) => u.blocking
    BY DEF MaterialityIsCarried
  <2>1. FromInput /\ \A n \in DOMAIN plan : Served(n)
    BY <1>1, AllServed
  <2> DEFINE q == Baseline(task, snapshot, "constraint")
  <2>2. PICK n \in DOMAIN plan : plan[n] = q
    <3>1. 1 \in DOMAIN Ladder /\ Ladder[1] = "constraint"
      BY DEF Ladder
    <3> QED BY <2>1, <3>1, PlannedRequirements
  <2>3. /\ q.kind = "constraint" /\ q.mode = "all_eligible"
        /\ Material(task, snapshot) => q.required
    BY DEF Baseline, Demanded
  <2>4. x \in View(q).eligible /\ x \in snapshot
    BY <2>1, SignalsAreEligible
  <2> HIDE DEF q
  <2>5. \/ View(q).eligible \subseteq Mine(n)
        \/ \E u \in unknowns : /\ u.requirement = n /\ u.reason = "budget"
                               /\ u.blocking = q.required
    BY <2>1, <2>2, <2>3 DEF Served, Complete
  <2>6. Mine(n) \subseteq Selected
    BY DEF Mine, Selected
  <2> QED BY <2>2, <2>3, <2>4, <2>5, <2>6
<1> QED BY <1>1, Invariance, PTL

\* A planned requirement for authorities sees every governed fact that applies to the
\* task down to its floor; one for capabilities sees nothing else.
LEMMA PermissionsAreGoverned ==
  ASSUME FromInput, plan = RequirementPlan(task, snapshot), NEW n \in DOMAIN plan
  PROVE  /\ plan[n].coordinate = None
         /\ plan[n].kind = "authority" => plan[n].refs = EligibleRefs(task)
         /\ plan[n].kind = "capability" => plan[n].refs \in {{}, EligibleRefs(task)}
         /\ plan[n].kind \in GovernedOnlyKinds => plan[n].floor \in Nat
<1>1. ASSUME NEW j \in DOMAIN Ladder, plan[n] = Baseline(task, snapshot, Ladder[j])
      PROVE  /\ plan[n].coordinate = None
             /\ plan[n].kind = "authority" => plan[n].refs = EligibleRefs(task)
             /\ plan[n].kind = "capability" => plan[n].refs = {}
             /\ plan[n].kind \in GovernedOnlyKinds => plan[n].floor = 1
  <2> DEFINE kind == Ladder[j]
  <2> HIDE DEF kind
  <2>1. plan[n] = Baseline(task, snapshot, kind)
    BY <1>1 DEF kind
  <2>2. /\ plan[n].coordinate = None /\ plan[n].kind = kind
        /\ plan[n].refs = GoverningScope(task, kind)
    BY <2>1 DEF Baseline
  <2>3. kind \in GovernedOnlyKinds => plan[n].floor = 1
    BY <2>1 DEF Baseline, GovernedOnlyKinds
  <2> QED BY <2>2, <2>3 DEF GoverningScope, ScopedKinds
<1>2. ASSUME NEW m \in task.needs, plan[n] = KernelRequirement(task, Signature(m))
      PROVE  /\ plan[n].coordinate = None
             /\ plan[n].kind = "authority" => plan[n].refs = EligibleRefs(task)
             /\ plan[n].kind = "capability" => plan[n].refs = EligibleRefs(task)
             /\ plan[n].floor \in Nat
  <2>1. LegalNeed(m)
    BY PlannedRequirements
  <2>2. Floor(m) \in Nat
    BY <2>1 DEF Floor, LegalNeed
  <2>3. /\ plan[n].coordinate = None /\ plan[n].floor = Signature(m).floor
        /\ plan[n].kind = Signature(m).kind
        /\ plan[n].refs = IF Signature(m).kind = "memory" THEN {} ELSE EligibleRefs(task)
    BY <1>2 DEF KernelRequirement
  <2>4. Signature(m).floor = Floor(m)
    BY DEF Signature
  <2> QED BY <2>2, <2>3, <2>4
<1> QED BY <1>1, <1>2, PlannedRequirements

\* A selected permission is governed and applies to the task, and no applicable fact
\* of equal or greater authority under the key of an authority says otherwise.
LEMMA SelectedPermissions ==
  ASSUME IInv, pc = "done", plan = RequirementPlan(task, snapshot),
         NEW x \in Selected, x.kind \in GovernedOnlyKinds
  PROVE  /\ x \in snapshot
         /\ x.rank \in GovernedRanks
         /\ x.refs = {} \/ x.refs \cap EligibleRefs(task) # {}
         /\ x.kind = "authority" =>
              \A y \in snapshot :
                /\ y.kind = "authority" /\ y.key = x.key /\ y.rank <= x.rank
                /\ y.rank \in GovernedRanks
                /\ y.refs = {} \/ y.refs \cap EligibleRefs(task) # {}
                => y.state = x.state
<1>1. FromInput /\ BoundAreEligible
  BY AllServed
<1>2. x \in snapshot /\ x.id \in DOMAIN chosen
  BY DEF Selected
<1>3. PICK n \in chosen[x.id] : n \in DOMAIN plan /\ x \in View(plan[n]).eligible
  BY <1>1, <1>2 DEF BoundAreEligible
<1> DEFINE q == plan[n]
           seen == {y \in snapshot : MatchesRequirement(q, y)}
<1>4. View(q) = Resolve(seen) /\ Sound(seen) /\ x \in seen
  BY <1>1, <1>3, ViewOf
<1>5. IsFiniteSet(seen)
  BY <1>1, SnapshotIsSound
<1>6. /\ q.coordinate = None
      /\ q.kind = "authority" => q.refs = EligibleRefs(task)
      /\ q.kind = "capability" => q.refs \in {{}, EligibleRefs(task)}
      /\ q.kind \in GovernedOnlyKinds => q.floor \in Nat
  BY <1>1, <1>3, PermissionsAreGoverned
<1> HIDE DEF q
<1>7. /\ x.kind = q.kind /\ x.rank <= q.floor /\ x.rank \in GovernedRanks
      /\ x.refs = {} \/ x.refs \cap q.refs # {}
  BY <1>4 DEF MatchesRequirement
<1>8. x.refs = {} \/ x.refs \cap EligibleRefs(task) # {}
  BY <1>6, <1>7 DEF GovernedOnlyKinds
<1>9. ASSUME x.kind = "authority", NEW y \in snapshot,
             y.kind = "authority", y.key = x.key, y.rank <= x.rank,
             y.rank \in GovernedRanks,
             y.refs = {} \/ y.refs \cap EligibleRefs(task) # {}
      PROVE  y.state = x.state
  <2>1. y.rank <= q.floor
    BY <1>6, <1>7, <1>9 DEF GovernedRanks
  <2>2. y \in seen
    BY <1>6, <1>7, <1>9, <2>1 DEF MatchesRequirement, GloballyApplicableKinds
  <2>3. x \in Resolve(seen).eligible /\ x.kind \in PlainKinds
    BY <1>3, <1>4, <1>9 DEF q, PlainKinds
  <2> HIDE DEF seen
  <2> QED BY <1>4, <1>5, <1>9, <2>2, <2>3, RivalsAgree
<1> QED BY <1>2, <1>7, <1>8, <1>9

\* No permission rests on absence, on informative context or on a grant that is
\* outranked: _compile_authority and _compile_capabilities over any snapshot.
THEOREM PermissionsAreProven == Spec => []NoUnprovenPermission
<1>1. ASSUME IInv PROVE NoUnprovenPermission
  <2> DEFINE applies(x) == /\ x.rank \in GovernedRanks
                           /\ x.refs = {} \/ x.refs \cap EligibleRefs(task) # {}
             open(reason, about) ==
               \E u \in unknowns : u.reason = reason /\ u.details.about = about
  <2> SUFFICES ASSUME pc = "done", plan = RequirementPlan(task, snapshot)
               PROVE  /\ \A q \in RequiredAuthorities(task, material, Selected) :
                           \/ open("authority", q)
                           \/ \E x \in {y \in Facts(snapshot, "authority", "granted") : applies(y)} :
                                /\ GrantCovers(x, q)
                                /\ \A y \in snapshot : /\ y.kind = "authority" /\ y.key = x.key
                                                       /\ applies(y) /\ y.rank <= x.rank
                                                       => y.state = "granted"
                      /\ \A c \in RequiredCapabilities(task, material) :
                           \/ open("capability", c)
                           \/ \E x \in Facts(snapshot, "capability", "available") :
                                applies(x) /\ x.names = c
    BY DEF NoUnprovenPermission, compiled
  <2>1. Said
    BY <1>1, AllServed
  <2>2. \A reason, about, state, negatives :
          /\ Gap(reason, about, state, negatives).reason = reason
          /\ Gap(reason, about, state, negatives).details.about = about
    BY DEF Gap, Free
  <2>3. ASSUME NEW q \in RequiredAuthorities(task, material, Selected)
        PROVE  \/ open("authority", q)
               \/ \E x \in {y \in Facts(snapshot, "authority", "granted") : applies(y)} :
                    /\ GrantCovers(x, q)
                    /\ \A y \in snapshot : /\ y.kind = "authority" /\ y.key = x.key
                                           /\ applies(y) /\ y.rank <= x.rank
                                           => y.state = "granted"
    <3> DEFINE state == AuthorityDisposition(q, Selected)
    <3>1. CASE state # "granted"
      <4>1. Gap("authority", q, state, {"limited_without_grant", "insufficient_scope"}) \in unknowns
        BY <2>1, <2>3, <3>1 DEF Said, AuthorityUnknowns
      <4> QED BY <2>2, <4>1
    <3>2. CASE state = "granted"
      <4>1. PICK x \in About(q, Selected, "granted") : GrantCovers(x, q)
        BY <3>2 DEF AuthorityDisposition
      <4>2. x \in Selected /\ x.kind = "authority" /\ x.state = "granted"
        BY DEF About, Facts
      <4>3. /\ x \in snapshot /\ applies(x)
            /\ \A y \in snapshot : /\ y.kind = "authority" /\ y.key = x.key
                                   /\ applies(y) /\ y.rank <= x.rank
                                   => y.state = x.state
        BY <1>1, <4>2, SelectedPermissions DEF GovernedOnlyKinds
      <4>4. x \in Facts(snapshot, "authority", "granted")
        BY <4>2, <4>3 DEF Facts
      <4> HIDE DEF applies
      <4> QED BY <4>1, <4>2, <4>3, <4>4
    <3> QED BY <3>1, <3>2
  <2>4. ASSUME NEW c \in RequiredCapabilities(task, material)
        PROVE  \/ open("capability", c)
               \/ \E x \in Facts(snapshot, "capability", "available") : applies(x) /\ x.names = c
    <3> DEFINE state == CapabilityDisposition(c, Selected)
    <3>1. CASE state # "available"
      <4>1. Gap("capability", c, state, {"unavailable"}) \in unknowns
        BY <2>1, <2>4, <3>1 DEF Said, CapabilityUnknowns
      <4> QED BY <2>2, <4>1
    <3>2. CASE state = "available"
      <4>1. PICK x \in Facts(Selected, "capability", "available") : x.names = c
        BY <3>2 DEF CapabilityDisposition
      <4>2. x \in Selected /\ x.kind = "capability" /\ x.state = "available"
        BY DEF Facts
      <4>3. x \in snapshot /\ applies(x)
        BY <1>1, <4>2, SelectedPermissions DEF GovernedOnlyKinds
      <4> QED BY <4>1, <4>2, <4>3 DEF Facts
    <3> QED BY <3>1, <3>2
  <2> QED BY <2>3, <2>4
<1> QED BY <1>1, Invariance, PTL

\* What is bound to a requirement has its kind and reaches its authority floor.
LEMMA BoundMeets ==
  ASSUME IInv, pc = "done", NEW n, NEW x \in Mine(n)
  PROVE  x \in Selected /\ x.kind = plan[n].kind /\ x.rank <= plan[n].floor
<1>1. x \in Selected /\ x \in View(plan[n]).eligible
  BY AllServed DEF Mine, Selected, BoundAreEligible
<1>2. View(plan[n]).eligible \subseteq {y \in snapshot : MatchesRequirement(plan[n], y)}
  BY AllServed, ViewOf
<1> QED BY <1>1, <1>2 DEF MatchesRequirement

\* Every required need of a kernel is met or visibly unmet: _kernel_requirements
\* plans it, and _dispose_unsatisfied says what it lacks.
THEOREM NeedsAreMetOrSaid == Spec => []KernelNeedsAreMet
<1>1. ASSUME IInv PROVE KernelNeedsAreMet
  <2> SUFFICES ASSUME pc = "done", plan = RequirementPlan(task, snapshot),
                      NEW m \in task.needs, m.required
               PROVE  LET met(x) == x.kind = m.kind /\ x.rank <= m.floor
                          said(k) == \E u \in unknowns :
                                       /\ u.requirement # None
                                       /\ plan[u.requirement].kind = m.kind
                                       /\ \/ u.reason = "conflict" /\ k \in {None, u.key}
                                          \/ /\ u.reason \in {"missing", "budget"}
                                             /\ k \in {None} \cup u.details.missing
                      IN  IF m.keys = {}
                            THEN said(None) \/ \E x \in Selected : met(x)
                            ELSE \A k \in m.keys : said(k) \/ \E x \in Selected : met(x) /\ x.key = k
    BY DEF KernelNeedsAreMet
  <2> DEFINE met(x) == x.kind = m.kind /\ x.rank <= m.floor
             said(k) == \E u \in unknowns :
                          /\ u.requirement # None
                          /\ plan[u.requirement].kind = m.kind
                          /\ \/ u.reason = "conflict" /\ k \in {None, u.key}
                             \/ /\ u.reason \in {"missing", "budget"}
                                /\ k \in {None} \cup u.details.missing
  <2>1. FromInput /\ \A n \in DOMAIN plan : Served(n)
    BY <1>1, AllServed
  <2>2. LegalNeed(m)
    BY <2>1, PlannedRequirements
  <2>3. PICK n \in DOMAIN plan : plan[n] = KernelRequirement(task, Signature(m))
    BY <2>1, PlannedRequirements
  <2>4. /\ plan[n].kind = m.kind /\ plan[n].floor = Floor(m) /\ plan[n].keys = m.keys
        /\ plan[n].mode = m.mode /\ plan[n].policy = "preserve_unknown"
        /\ m.mode # "semantic_keys" => plan[n].min = 1
    BY <2>3 DEF KernelRequirement, Signature
  <2>5. n # None
    <3>1. PICK k \in Nat : DOMAIN plan = 1 .. k
      BY <1>1 DEF IInv
    <3> QED BY <3>1, NoneAssumption
  <2>6. \A x \in Mine(n) : x \in Selected /\ met(x)
    <3>1. ASSUME NEW x \in Mine(n) PROVE x \in Selected /\ met(x)
      <4>1. x \in Selected /\ x.kind = plan[n].kind /\ x.rank <= plan[n].floor
        BY <1>1, BoundMeets
      <4>2. x.rank \in Nat
        <5>1. Sound(snapshot)
          BY <2>1, SnapshotIsSound
        <5> QED BY <4>1, <5>1 DEF Selected, Sound
      <4>3. Floor(m) \in Nat /\ m.floor \in Nat /\ Floor(m) <= m.floor
        BY <2>2 DEF LegalNeed, Floor
      <4> QED BY <2>4, <4>1, <4>2, <4>3
    <3> QED BY <3>1
  <2>7. \A k \in ConflictingKeys(n) : said(k)
    <3>1. \A k \in ConflictingKeys(n) : \E u \in Reported(compiled, n, {"conflict"}) : u.key = k
      BY <2>1, RecordsRead DEF Served
    <3> QED BY <2>4, <2>5, <3>1 DEF Reported, compiled
  <2> DEFINE lacking == m.keys \ (KeysOf(Mine(n)) \cup ConflictingKeys(n))
  <2>8. \/ /\ plan[n].min >= 1 => Mine(n) # {}
           /\ m.mode = "semantic_keys" => lacking = {}
        \/ said(None) /\ \A k \in lacking : said(k)
    BY <2>1, <2>4, <2>5 DEF Served, Answered
  <2> HIDE DEF met, said
  <2>9. CASE m.keys = {}
    <3>1. m.mode # "semantic_keys" /\ plan[n].min = 1
      BY <2>2, <2>4, <2>9 DEF LegalNeed
    <3> QED BY <2>6, <2>8, <2>9, <3>1 DEF met, said
  <2>10. CASE m.keys # {}
    <3>1. m.mode = "semantic_keys"
      BY <2>2, <2>10 DEF LegalNeed
    <3>2. ASSUME NEW k \in m.keys PROVE said(k) \/ \E x \in Selected : met(x) /\ x.key = k
      <4>1. CASE k \in KeysOf(Mine(n))
        BY <2>6, <4>1 DEF KeysOf
      <4>2. CASE k \in ConflictingKeys(n)
        BY <2>7, <4>2
      <4>3. CASE k \in lacking
        BY <2>8, <3>1, <4>3
      <4> QED BY <4>1, <4>2, <4>3
    <3> QED BY <2>10, <3>2 DEF met, said
  <2> QED BY <2>9, <2>10
<1> QED BY <1>1, Invariance, PTL

-----------------------------------------------------------------------------
(* What a requirement got, and what it is short of. *)

\* What requirement n asks for of what it may see, what of that it did not get, and
\* what was selected before its turn.
Wanted(n, x) == plan[n].mode = "semantic_keys" => x.key \in plan[n].keys

Requested(n) == {x \in View(plan[n]).eligible : Wanted(n, x)}

Left(n) == Requested(n) \ Mine(n)

Earlier(n) == {x \in Selected : \E m \in chosen[x.id] : m < n}

\* The keys it names that neither an item nor a contradiction accounts for.
Lacking(n) == plan[n].keys \ (KeysOf(Mine(n)) \cup ConflictingKeys(n))

\* The records of what it is short of.
Shortfalls(n) == {u \in unknowns : u.requirement = n /\ u.reason \in {"missing", "budget"}}

\* x comes first in S.
Leads(x, S) == x \in S /\ \A y \in S \ {x} : SelectedBefore(x, y)

\* Witness w names the first item the requirement did not get, and the bound that
\* does not admit it.
Stopped(n, w) ==
  /\ w.bound \in Range(Bounds)
  /\ plan[n].mode = "minimum" => Cardinality(Mine(n)) < plan[n].min
  /\ \E x \in Left(n) :
       /\ Leads(x, Left(n))
       /\ w.blocked = x.id /\ w.cost = x.cost
       /\ Reached(plan[n], w, x, Mine(n), Earlier(n) \cup Mine(n))

\* What it got is the beginning of what it asked for, within its ceilings.
Orderly(n) ==
  LET q == plan[n] IN
  /\ Mine(n) \subseteq Requested(n)
  /\ \A x \in Mine(n) : \A y \in Left(n) : SelectedBefore(x, y)
  /\ q.maxItems # None => Cardinality(Mine(n)) <= q.maxItems
  /\ q.maxBytes # None => CostOf(Mine(n)) <= q.maxBytes
  /\ q.mode = "minimum" => Cardinality(Mine(n)) <= q.min

\* It got as much as it must have, or as much as there is.
Met(n) ==
  /\ Cardinality(Mine(n)) >= plan[n].min
  /\ plan[n].mode = "semantic_keys" => Lacking(n) = {}

Exhausted(n) ==
  \/ Left(n) = {}
  \/ plan[n].mode = "minimum" /\ Cardinality(Mine(n)) >= plan[n].min

\* A requirement that was served is met, has all there is, or one record says what
\* it lacks and why.
Settled(n) ==
  /\ Orderly(n)
  /\ \/ /\ Shortfalls(n) = {}
        /\ Exhausted(n) \/ (plan[n].mode = "semantic_keys" /\ Met(n))
        /\ plan[n].required => Met(n)
     \/ \E u \in Shortfalls(n) :
          /\ Shortfalls(n) = {u}
          /\ u.blocking = plan[n].required
          /\ u.details.missing = Lacking(n)
          /\ IF u.reason = "missing" THEN Exhausted(n) /\ ~ Met(n)
             ELSE Stopped(n, u.details.witness)

\* The counters of the requirement being served are those of what it got, and what
\* it can still get is still to be looked at.
Serving(n) ==
  /\ n = turn
  /\ Orderly(n)
  /\ taken = [count |-> Cardinality(Mine(n)), bytes |-> CostOf(Mine(n)),
              keys |-> KeysOf(Mine(n))]
  /\ Left(n) = {x \in todo : Wanted(n, x)}
  /\ pc = "select" => stop = None
  /\ pc = "dispose" => IF stop = None THEN Exhausted(n) ELSE Stopped(n, stop)

\* The shared counters are those of the selection.
Totals ==
  /\ DOMAIN chosen = {x.id : x \in Selected}
  /\ Cardinality(Selected) <= budget.items
  /\ total = CostOf(Selected) /\ total <= budget.bytes

\* Only requirements whose turn has come have selected anything.
InTurn ==
  \A x \in Selected : \A n \in chosen[x.id] :
    n < turn \/ (n = turn /\ pc \in {"select", "dispose"})

\* An unknown is of no requirement, or a contradiction that one met, or the
\* shortfall of one that was served; gaps are reported at the end.
Shaped(u) ==
  /\ \/ u.requirement = None /\ u.reason \notin {"missing", "budget"}
     \/ /\ u.requirement \in DOMAIN plan
        /\ \E k \in ConflictingKeys(u.requirement) : u = Unknown(u.requirement, "conflict", k, {})
     \/ u.requirement \in DOMAIN plan /\ u.requirement < turn /\ u.reason \in {"missing", "budget"}
  /\ u.reason = "capability" =>
       pc = "done" /\ u \in CapabilityUnknowns(task, material, Selected)
  /\ u.reason = "authority" =>
       pc = "done" /\ u \in AuthorityUnknowns(task, material, Selected)

Ledger ==
  /\ pc = "plan" => total = 0
  /\ pc \notin {"plan", "failed"} =>
       /\ Totals /\ InTurn
       /\ \A u \in unknowns : Shaped(u)
       /\ \A n \in DOMAIN plan : n < turn => Settled(n)
  /\ pc \in {"select", "dispose"} => \E n \in DOMAIN plan : Serving(n)

-----------------------------------------------------------------------------
(* What items cost together. *)

\* The bytes of finitely many items of known size are finitely many.
LEMMA BytesFinite ==
  ASSUME NEW S, IsFiniteSet(S), \A x \in S : x.cost \in Nat
  PROVE  IsFiniteSet(Bytes(S)) /\ CostOf(S) \in Nat
<1> DEFINE of(x) == {x} \X (1 .. x.cost)
           F == {of(x) : x \in S}
<1>1. \A x \in S : IsFiniteSet(of(x))
  <2> TAKE x \in S
  <2>1. IsFiniteSet({x})
    BY FS_Singleton
  <2>2. IsFiniteSet(1 .. x.cost)
    BY FS_Interval
  <2> QED BY <2>1, <2>2, FS_Product
<1>2. IsFiniteSet(F)
  <2> DEFINE f == [x \in S |-> of(x)]
  <2>1. DOMAIN f = S /\ f = [x \in DOMAIN f |-> f[x]] /\ Range(f) = F
    <3> HIDE DEF of
    <3> QED BY DEF Range
  <2> HIDE DEF f, F
  <2> QED BY <2>1, FiniteRange
<1>3. \A T \in F : IsFiniteSet(T)
  <2> HIDE DEF of
  <2> QED BY <1>1
<1>4. IsFiniteSet(UNION F)
  <2> HIDE DEF F
  <2> QED BY <1>2, <1>3, FS_UNION
<1>5. Bytes(S) = UNION F
  BY DEF Bytes
<1> QED BY <1>4, <1>5, FS_CardinalityType DEF CostOf

\* Nothing costs nothing.
LEMMA NothingIsFree == CostOf({}) = 0
<1>1. Bytes({}) = {}
  BY DEF Bytes
<1> QED BY <1>1, FS_EmptySet DEF CostOf

\* One more item costs what it costs.
LEMMA CostAdds ==
  ASSUME NEW S, IsFiniteSet(S), \A y \in S : y.cost \in Nat, NEW x, x \notin S, x.cost \in Nat
  PROVE  CostOf(S \cup {x}) = CostOf(S) + x.cost
<1> DEFINE own == {x} \X (1 .. x.cost)
<1>1. Bytes(S \cup {x}) = Bytes(S) \cup own
  BY DEF Bytes
<1>2. IsFiniteSet(own) /\ Cardinality(own) = x.cost
  <2>1. IsFiniteSet({x}) /\ Cardinality({x}) = 1
    BY FS_Singleton
  <2>2. IsFiniteSet(1 .. x.cost) /\ Cardinality(1 .. x.cost) = x.cost
    <3>1. \A c \in Nat : IsFiniteSet(1 .. c) /\ Cardinality(1 .. c) = c
      <4> TAKE c \in Nat
      <4>1. 1 \in Int /\ c \in Int
        OBVIOUS
      <4>2. IsFiniteSet(1 .. c) /\ Cardinality(1 .. c) = IF 1 > c THEN 0 ELSE c - 1 + 1
        BY <4>1, FS_Interval
      <4> QED BY <4>2
    <3> QED BY <3>1
  <2>3. \A A, B : IsFiniteSet(A) /\ IsFiniteSet(B) =>
          IsFiniteSet(A \X B) /\ Cardinality(A \X B) = Cardinality(A) * Cardinality(B)
    BY FS_Product
  <2>4. IsFiniteSet(own) /\ Cardinality(own) = Cardinality({x}) * Cardinality(1 .. x.cost)
    BY <2>1, <2>2, <2>3
  <2>5. 1 * x.cost = x.cost
    OBVIOUS
  <2> HIDE DEF own
  <2> QED BY <2>1, <2>2, <2>4, <2>5
<1>3. Bytes(S) \cap own = {}
  BY DEF Bytes
<1>4. IsFiniteSet(Bytes(S)) /\ Cardinality(Bytes(S)) \in Nat
  BY BytesFinite DEF CostOf
<1> HIDE DEF own
<1>5. Cardinality(Bytes(S) \cap own) = 0
  BY <1>3, FS_EmptySet
<1>6. Cardinality(Bytes(S) \cup own) = Cardinality(Bytes(S)) + Cardinality(own) - Cardinality(Bytes(S) \cap own)
  BY <1>2, <1>4, FS_Union
<1>7. Cardinality(Bytes(S) \cup own) = Cardinality(Bytes(S)) + x.cost
  BY <1>2, <1>4, <1>5, <1>6
<1> QED BY <1>1, <1>7 DEF CostOf

\* A part costs no more than the whole.
LEMMA CostOfPart ==
  ASSUME NEW S, IsFiniteSet(S), \A x \in S : x.cost \in Nat, NEW T \in SUBSET S
  PROVE  CostOf(T) <= CostOf(S)
<1>1. Bytes(T) \in SUBSET Bytes(S)
  BY DEF Bytes
<1> QED BY <1>1, BytesFinite, FS_Subset DEF CostOf

-----------------------------------------------------------------------------
(* The order of selection. *)

\* Scoped before global, then rank, key and id.
LEMMA SelectionOrder ==
  ASSUME NEW x, NEW y, x.rank \in Nat, x.key \in Nat, x.id \in Nat,
         y.rank \in Nat, y.key \in Nat, y.id \in Nat
  PROVE  SelectedBefore(x, y) <=>
           \/ x.refs # {} /\ y.refs = {}
           \/ /\ (x.refs = {}) = (y.refs = {})
              /\ \/ x.rank < y.rank
                 \/ x.rank = y.rank /\ x.key < y.key
                 \/ x.rank = y.rank /\ x.key = y.key /\ x.id < y.id
<1> DEFINE a == IF x.refs = {} THEN 1 ELSE 0
           b == IF y.refs = {} THEN 1 ELSE 0
           k == <<a, x.rank, x.key, x.id>>
           l == <<b, y.rank, y.key, y.id>>
<1>1. /\ DOMAIN k = 1 .. 4
      /\ k[1] = a /\ k[2] = x.rank /\ k[3] = x.key /\ k[4] = x.id
      /\ l[1] = b /\ l[2] = y.rank /\ l[3] = y.key /\ l[4] = y.id
  OBVIOUS
<1>2. SelectedBefore(x, y) <=> Before(k, l)
  BY DEF SelectedBefore
<1> HIDE DEF k, l
<1>3. Before(k, l) <=>
        \/ k[1] < l[1]
        \/ k[1] = l[1] /\ k[2] < l[2]
        \/ k[1] = l[1] /\ k[2] = l[2] /\ k[3] < l[3]
        \/ k[1] = l[1] /\ k[2] = l[2] /\ k[3] = l[3] /\ k[4] < l[4]
  <2>1. Before(k, l) <=> \E n \in 1 .. 4 : k[n] < l[n] /\ \A m \in 1 .. n - 1 : k[m] = l[m]
    BY <1>1 DEF Before
  <2>2. \A n \in 1 .. 4 : n = 1 \/ n = 2 \/ n = 3 \/ n = 4
    OBVIOUS
  <2>3. /\ (\A m \in 1 .. 1 - 1 : k[m] = l[m]) <=> TRUE
        /\ (\A m \in 1 .. 2 - 1 : k[m] = l[m]) <=> k[1] = l[1]
        /\ (\A m \in 1 .. 3 - 1 : k[m] = l[m]) <=> k[1] = l[1] /\ k[2] = l[2]
        /\ (\A m \in 1 .. 4 - 1 : k[m] = l[m]) <=> k[1] = l[1] /\ k[2] = l[2] /\ k[3] = l[3]
    OBVIOUS
  <2>4. 1 \in 1 .. 4 /\ 2 \in 1 .. 4 /\ 3 \in 1 .. 4 /\ 4 \in 1 .. 4
    OBVIOUS
  <2> QED BY <2>1, <2>2, <2>3, <2>4
<1>4. /\ a < b <=> x.refs # {} /\ y.refs = {}
      /\ a = b <=> (x.refs = {}) = (y.refs = {})
  OBVIOUS
<1> HIDE DEF a, b
<1> QED BY <1>1, <1>2, <1>3, <1>4

\* Of two candidates, one comes first, and only one.
LEMMA OrderIsStrict ==
  ASSUME FromInput, NEW x \in snapshot, NEW y \in snapshot
  PROVE  /\ ~ (SelectedBefore(x, y) /\ SelectedBefore(y, x))
         /\ ~ SelectedBefore(x, x)
<1>1. /\ x.rank \in Nat /\ x.key \in Nat /\ x.id \in Nat
      /\ y.rank \in Nat /\ y.key \in Nat /\ y.id \in Nat
  BY SnapshotsAssumption DEF FromInput
<1>2. ~ SelectedBefore(x, x)
  BY <1>1, SelectionOrder
<1>3. ~ (SelectedBefore(x, y) /\ SelectedBefore(y, x))
  BY <1>1, SelectionOrder
<1> QED BY <1>2, <1>3

-----------------------------------------------------------------------------
(* The second invariant. *)

\* What a compile that has a plan works with.
LEMMA WorkedWith ==
  ASSUME IInv, pc \notin {"plan", "failed"}
  PROVE  /\ FromInput /\ BoundAreEligible /\ turn \in Nat \ {0}
         /\ IsFiniteSet(snapshot) /\ \A x \in snapshot : x.cost \in Nat /\ x.id \in Nat
         /\ \A x, y \in snapshot : x.id = y.id => x = y
         /\ budget.items \in Nat /\ budget.bytes \in Nat
         /\ \A n \in DOMAIN plan :
              n \in Nat /\ LegalRequirement(plan[n]) /\ View(plan[n]).eligible \subseteq snapshot
         /\ Selected \subseteq snapshot /\ \A n : Mine(n) \subseteq Selected
<1>1. FromInput /\ BoundAreEligible /\ turn \in Nat \ {0}
  BY DEF IInv, Numbers
<1>2. IsFiniteSet(snapshot) /\ Sound(snapshot) /\ \A x \in snapshot : x.cost \in Nat
  BY <1>1, SnapshotIsSound
<1>3. budget.items \in Nat /\ budget.bytes \in Nat
  BY <1>1, BudgetsAssumption DEF FromInput
<1>4. PICK k \in Nat : DOMAIN plan = 1 .. k
  BY DEF IInv
<1>5. \A n \in DOMAIN plan : LegalRequirement(plan[n])
  BY <1>1, PlansAssumption DEF FromInput
<1>6. \A n \in DOMAIN plan : View(plan[n]).eligible \subseteq snapshot
  BY <1>1, ViewOf
<1>7. Selected \subseteq snapshot /\ \A n : Mine(n) \subseteq Selected
  BY DEF Selected, Mine
<1> QED BY <1>1, <1>2, <1>3, <1>4, <1>5, <1>6, <1>7 DEF Sound

\* A part of the snapshot has a size and a cost.
LEMMA PartsAreMeasured ==
  ASSUME IInv, pc \notin {"plan", "failed"}, NEW S \in SUBSET snapshot
  PROVE  IsFiniteSet(S) /\ Cardinality(S) \in Nat /\ CostOf(S) \in Nat
<1>1. IsFiniteSet(S) /\ \A x \in S : x.cost \in Nat
  BY WorkedWith, FS_Subset
<1> QED BY <1>1, FS_CardinalityType, BytesFinite

\* The selection is counted by its ids.
LEMMA CountedById ==
  ASSUME IInv, pc \notin {"plan", "failed"}, DOMAIN chosen = {x.id : x \in Selected}
  PROVE  Cardinality(DOMAIN chosen) = Cardinality(Selected)
<1> DEFINE f == [x \in Selected |-> x.id]
<1>1. IsFiniteSet(Selected) /\ Selected \subseteq snapshot
  BY WorkedWith, PartsAreMeasured
<1>2. f \in Surjection(Selected, DOMAIN chosen)
  BY DEF Surjection
<1>3. f \in Injection(Selected, DOMAIN chosen)
  BY <1>1, WorkedWith DEF Injection, IsInjective
<1> QED BY <1>1, <1>2, <1>3, FS_Surjection

\* What a requirement asks for depends on the inputs, what it lacks on those and on
\* what it got.
LEMMA SameStanding ==
  ASSUME UNCHANGED inputs, NEW n, Mine(n)' = Mine(n)
  PROVE  /\ Requested(n)' = Requested(n) /\ Left(n)' = Left(n) /\ Lacking(n)' = Lacking(n)
         /\ Orderly(n)' <=> Orderly(n)
         /\ Met(n)' <=> Met(n)
         /\ Exhausted(n)' <=> Exhausted(n)
         /\ Earlier(n)' = Earlier(n) => \A w : Stopped(n, w)' <=> Stopped(n, w)
<1>1. plan' = plan /\ budget' = budget
  BY DEF inputs
<1>2. View(plan[n])' = View(plan[n]) /\ ConflictingKeys(n)' = ConflictingKeys(n)
  BY SameViews
<1>3. Requested(n)' = Requested(n)
  BY <1>1, <1>2 DEF Requested, Wanted
<1>4. Left(n)' = Left(n)
  BY <1>3 DEF Left
<1>5. KeysOf(Mine(n))' = KeysOf(Mine(n))
  BY DEF KeysOf
<1>6. Lacking(n)' = Lacking(n)
  BY <1>1, <1>2, <1>5 DEF Lacking
<1>7. Orderly(n)' <=> Orderly(n)
  BY <1>1, <1>3, <1>4 DEF Orderly
<1>8. Met(n)' <=> Met(n)
  BY <1>1, <1>6 DEF Met
<1>9. Exhausted(n)' <=> Exhausted(n)
  BY <1>1, <1>4 DEF Exhausted
<1>10. ASSUME Earlier(n)' = Earlier(n), NEW w PROVE Stopped(n, w)' <=> Stopped(n, w)
  <2>1. \A x : Reached(plan[n], w, x, Mine(n), Earlier(n) \cup Mine(n))'
                 <=> Reached(plan[n], w, x, Mine(n), Earlier(n) \cup Mine(n))
    BY <1>1, <1>10 DEF Reached
  <2> QED BY <1>1, <1>4, <2>1 DEF Stopped
<1> QED BY <1>3, <1>4, <1>6, <1>7, <1>8, <1>9, <1>10

\* A requirement stays settled while nothing is bound to it or before it, and nothing
\* more is said of it.
LEMMA StaysSettled ==
  ASSUME UNCHANGED inputs, NEW n, Settled(n),
         Mine(n)' = Mine(n), Earlier(n)' = Earlier(n), Shortfalls(n)' = Shortfalls(n)
  PROVE  Settled(n)'
<1>1. plan' = plan
  BY DEF inputs
<1>2. /\ Lacking(n)' = Lacking(n) /\ (Orderly(n)' <=> Orderly(n)) /\ (Met(n)' <=> Met(n))
      /\ (Exhausted(n)' <=> Exhausted(n))
      /\ \A w : Stopped(n, w)' <=> Stopped(n, w)
  BY SameStanding
<1>3. CASE Shortfalls(n) = {}
  BY <1>1, <1>2, <1>3 DEF Settled
<1>4. CASE Shortfalls(n) # {}
  <2>1. PICK u \in Shortfalls(n) :
          /\ Shortfalls(n) = {u}
          /\ u.blocking = plan[n].required
          /\ u.details.missing = Lacking(n)
          /\ IF u.reason = "missing" THEN Exhausted(n) /\ ~ Met(n)
             ELSE Stopped(n, u.details.witness)
    BY <1>4 DEF Settled
  <2>2. Stopped(n, u.details.witness)' <=> Stopped(n, u.details.witness)
    BY <1>2
  <2> QED BY <1>1, <1>2, <2>1, <2>2 DEF Settled
<1> QED BY <1>3, <1>4

\* What resolution leaves unknown is about supersession.
LEMMA ResolutionReasons ==
  ASSUME NEW S, NEW u \in Resolve(S).unknowns
  PROVE  u.reason \in {"cycle", "refused", "dangling"}
<1>1. Resolve(S).unknowns = UNION {Outcome(IndexOf(S, kind)).unknowns : kind \in SupersessionKinds}
  <2> DEFINE outcomes == {Outcome(IndexOf(S, kind)) : kind \in SupersessionKinds}
             U == UNION {o.unknowns : o \in outcomes}
  <2>1. Resolve(S) = Resolved(ResolveGroups(Standing(S)), U)
    BY DEF Resolve, Standing
  <2>2. U = UNION {Outcome(IndexOf(S, kind)).unknowns : kind \in SupersessionKinds}
    OBVIOUS
  <2> HIDE DEF U
  <2> QED BY <2>1, <2>2 DEF Resolved
<1>2. PICK c : u \in Outcome(c).unknowns
  BY <1>1
<1> DEFINE E == Edges(c)
           cyclic == Cyclic(DOMAIN c, E)
<1>3. u \in CycleUnknowns(c, E, cyclic) \/ u \in RefusedUnknowns(c, E) \/ u \in DanglingUnknowns(c)
  BY <1>2 DEF Outcome
<1> HIDE DEF E, cyclic
<1>4. CASE u \in CycleUnknowns(c, E, cyclic)
  BY <1>4 DEF CycleUnknowns
<1>5. CASE u \in RefusedUnknowns(c, E)
  BY <1>5 DEF RefusedUnknowns
<1>6. CASE u \in DanglingUnknowns(c)
  BY <1>6 DEF DanglingUnknowns
<1> QED BY <1>3, <1>4, <1>5, <1>6

\* An unknown keeps its shape while turns only advance.
LEMMA StaysShaped ==
  ASSUME UNCHANGED inputs, pc # "done", turn \in Nat, turn' \in Nat, turn <= turn',
         \A n \in DOMAIN plan : n \in Nat,
         NEW u, Shaped(u)
  PROVE  Shaped(u)'
<1>1. plan' = plan
  BY DEF inputs
<1> DEFINE n == u.requirement
<1>2. ConflictingKeys(n)' = ConflictingKeys(n)
  BY SameViews
<1>3. \A k : Unknown(n, "conflict", k, {})' = Unknown(n, "conflict", k, {})
  BY <1>1 DEF Unknown
<1>4. u.reason \notin {"capability", "authority"}
  BY DEF Shaped
<1>5. CASE n = None /\ u.reason \notin {"missing", "budget"}
  BY <1>4, <1>5 DEF Shaped
<1>6. CASE n \in DOMAIN plan /\ \E k \in ConflictingKeys(n) : u = Unknown(n, "conflict", k, {})
  BY <1>1, <1>2, <1>3, <1>4, <1>6 DEF Shaped
<1>7. CASE n \in DOMAIN plan /\ n < turn /\ u.reason \in {"missing", "budget"}
  <2>1. n < turn'
    BY <1>7
  <2> QED BY <1>1, <1>4, <1>7, <2>1 DEF Shaped
<1> QED BY <1>5, <1>6, <1>7 DEF Shaped

\* A step that leaves the selection alone keeps what was selected, and by whom.
LEMMA SameSelection ==
  ASSUME UNCHANGED <<inputs, chosen, total>>
  PROVE  /\ UNCHANGED inputs /\ plan' = plan
         /\ Selected' = Selected /\ material' = material
         /\ \A n : Mine(n)' = Mine(n) /\ Earlier(n)' = Earlier(n)
         /\ Totals => Totals'
<1>1. /\ UNCHANGED inputs /\ plan' = plan /\ snapshot' = snapshot /\ task' = task
      /\ budget' = budget /\ chosen' = chosen /\ total' = total
  BY DEF inputs
<1>2. Selected' = Selected /\ material' = material
  BY <1>1 DEF Selected, material
<1>3. \A n : Mine(n)' = Mine(n) /\ Earlier(n)' = Earlier(n)
  BY <1>1, <1>2 DEF Mine, Earlier
<1>4. Totals => Totals'
  BY <1>1, <1>2 DEF Totals
<1> QED BY <1>1, <1>2, <1>3, <1>4

\* Steps that add no shortfall settle and unsettle nothing.
LEMMA SameShortfalls ==
  ASSUME UNCHANGED inputs, unknowns \subseteq unknowns',
         \A u \in unknowns' \ unknowns : u.reason \notin {"missing", "budget"}
  PROVE  /\ \A n : Shortfalls(n)' = Shortfalls(n)
         /\ \A n : Settled(n) /\ Mine(n)' = Mine(n) /\ Earlier(n)' = Earlier(n) => Settled(n)'
<1>1. \A n : Shortfalls(n)' = Shortfalls(n)
  BY DEF Shortfalls
<1> QED BY <1>1, StaysSettled

LEMMA InitLedger == Init => Ledger
  BY DEF Init, Ledger

\* The plan starts with an empty selection, and what discovery could not decide.
LEMMA PlanContextLedger == IInv /\ Ledger /\ IInv' /\ PlanContext => Ledger'
<1> SUFFICES ASSUME IInv, Ledger, IInv', PlanContext PROVE Ledger'
  OBVIOUS
<1>1. /\ pc = "plan" /\ pc' = "begin" /\ chosen' = <<>> /\ turn' = 1 /\ total' = 0
      /\ unknowns' = ScopeUnknowns(task) \cup DiscoveryUnknowns(task, snapshot)
  BY DEF IInv, Ledger, PlanContext
<1>2. DOMAIN chosen' = {}
  BY <1>1
<1>3. Selected' = {}
  BY <1>2 DEF Selected
<1>4. budget' \in Budgets
  BY DEF IInv, FromInput
<1>5. Totals' /\ InTurn'
  <2>1. CostOf({}) = 0 /\ Cardinality({}) = 0
    BY NothingIsFree, FS_EmptySet
  <2>2. 0 <= budget'.items /\ 0 <= budget'.bytes
    BY <1>4, BudgetsAssumption
  <2> QED BY <1>1, <1>2, <1>3, <2>1, <2>2 DEF Totals, InTurn
<1>6. ASSUME NEW u \in unknowns' PROVE Shaped(u)'
  <2> DEFINE view == Discovered(task, snapshot)
             plain == u.requirement = None /\
                      u.reason \notin {"missing", "budget", "capability", "authority"}
  <2>1. \A v \in view.unknowns : v.reason \in {"cycle", "refused", "dangling"}
    BY ResolutionReasons DEF Discovered
  <2>2. \/ u \in ScopeUnknowns(task)
        \/ \E v \in view.unknowns : u = Unbound(v)
        \/ \E g \in view.conflicts : u = Free("conflict", g[2], FALSE, {g[1]})
    BY <1>1 DEF DiscoveryUnknowns
  <2> HIDE DEF view
  <2>3. plain
    <3>1. CASE u \in ScopeUnknowns(task)
      <4>1. u.requirement = None /\ u.reason = "scope"
        BY <3>1 DEF ScopeUnknowns, Free
      <4> QED BY <4>1
    <3>2. CASE \E v \in view.unknowns : u = Unbound(v)
      BY <2>1, <3>2 DEF Unbound, Free
    <3>3. CASE \E g \in view.conflicts : u = Free("conflict", g[2], FALSE, {g[1]})
      BY <3>3 DEF Free
    <3> QED BY <2>2, <3>1, <3>2, <3>3
  <2> QED BY <2>3 DEF Shaped
<1>7. \A n \in DOMAIN plan' : ~ (n < turn')
  <2>1. PICK k \in Nat : DOMAIN plan' = 1 .. k
    BY <1>1 DEF IInv
  <2> QED BY <1>1, <2>1
<1> QED BY <1>1, <1>5, <1>6, <1>7 DEF Ledger

\* What a compile in progress owes to the ledger.
LEMMA LedgerSoFar ==
  ASSUME IInv, Ledger, pc \in {"begin", "select", "dispose"}
  PROVE  /\ Totals /\ InTurn /\ \A u \in unknowns : Shaped(u)
         /\ \A n \in DOMAIN plan : n < turn => Settled(n)
         /\ \A n : n = turn => Shortfalls(n) = {}
<1>1. /\ Totals /\ InTurn /\ \A u \in unknowns : Shaped(u)
      /\ \A n \in DOMAIN plan : n < turn => Settled(n)
  BY DEF Ledger
<1>2. turn \in Nat
  BY WorkedWith
<1>3. ASSUME NEW n, n = turn, NEW u \in Shortfalls(n) PROVE FALSE
  <2>1. u \in unknowns /\ u.requirement = turn /\ u.reason \in {"missing", "budget"}
    BY <1>3 DEF Shortfalls
  <2>2. Shaped(u)
    BY <1>1, <2>1
  <2>3. turn # None
    BY <1>2, NoneAssumption
  <2>4. \A k : Unknown(turn, "conflict", k, {}).reason = "conflict"
    BY DEF Unknown
  <2> QED BY <1>2, <2>1, <2>2, <2>3, <2>4 DEF Shaped
<1> QED BY <1>1, <1>3

\* Beginning a requirement says nothing of a shortfall, and nothing is bound to it yet.
LEMMA BeginLedger == IInv /\ Ledger /\ BeginRequirement => Ledger'
<1> SUFFICES ASSUME IInv, Ledger, BeginRequirement PROVE Ledger'
  OBVIOUS
<1>1. PICK n : n = turn
  OBVIOUS
<1> DEFINE view == View(plan[n])
<1>2. /\ pc = "begin" /\ pc' = "select" /\ n \in DOMAIN plan /\ turn' = turn
      /\ todo' = view.eligible
      /\ disposed' = {g[2] : g \in view.conflicts}
      /\ unknowns' = unknowns \cup {Unbound(u) : u \in view.unknowns}
                              \cup {Unknown(n, "conflict", k, {}) : k \in disposed'}
      /\ taken' = Nothing /\ stop' = None
      /\ UNCHANGED <<inputs, chosen, total>>
  BY <1>1 DEF BeginRequirement, Requirement
<1> HIDE DEF view
<1>3. /\ UNCHANGED inputs /\ plan' = plan
      /\ Selected' = Selected
      /\ \A m : Mine(m)' = Mine(m) /\ Earlier(m)' = Earlier(m)
      /\ Totals => Totals'
  BY <1>2, SameSelection
<1>4. /\ Totals /\ InTurn /\ (\A u \in unknowns : Shaped(u))
      /\ (\A m \in DOMAIN plan : m < turn => Settled(m))
  BY <1>2, LedgerSoFar
<1>5. \A v \in view.unknowns : v.reason \in {"cycle", "refused", "dangling"}
  BY ResolutionReasons DEF view, View
<1>6. \A u \in unknowns' \ unknowns :
        \/ u.requirement = None /\ u.reason \in {"cycle", "refused", "dangling"}
        \/ \E k \in ConflictingKeys(n) : u = Unknown(n, "conflict", k, {})
  BY <1>2, <1>5 DEF Unbound, Free, ConflictingKeys, view
<1>7. \A u \in unknowns' \ unknowns : u.reason \notin {"missing", "budget", "capability", "authority"}
  BY <1>6 DEF Unknown
<1>8. \A m \in DOMAIN plan' : m < turn' => Settled(m)'
  BY <1>2, <1>3, <1>4, <1>7, SameShortfalls
<1>9. ASSUME NEW u \in unknowns' PROVE Shaped(u)'
  <2>1. CASE u \in unknowns
    BY <1>2, <1>3, <1>4, <2>1, StaysShaped, WorkedWith
  <2>2. CASE u \notin unknowns
    <3>1. CASE u.requirement = None /\ u.reason \in {"cycle", "refused", "dangling"}
      BY <3>1 DEF Shaped
    <3>2. CASE \E k \in ConflictingKeys(n) : u = Unknown(n, "conflict", k, {})
      <4>1. u.requirement = n /\ u.reason = "conflict"
        BY <3>2 DEF Unknown
      <4>2. PICK k \in ConflictingKeys(n) : u = Unknown(n, "conflict", k, {})
        BY <3>2
      <4>3. ConflictingKeys(u.requirement)' = ConflictingKeys(u.requirement)
        BY <1>3, SameViews
      <4>4. k \in ConflictingKeys(u.requirement)'
        BY <4>1, <4>2, <4>3
      <4>5. u = Unknown(u.requirement, "conflict", k, {})'
        BY <1>3, <4>1, <4>2 DEF Unknown
      <4> QED BY <1>2, <1>3, <4>1, <4>4, <4>5 DEF Shaped
    <3> QED BY <1>6, <2>2, <3>1, <3>2
  <2> QED BY <2>1, <2>2
<1>10. InTurn'
  BY <1>2, <1>3, <1>4 DEF InTurn
<1>11. Mine(n) = {}
  <2>1. \A x \in Mine(n) : x \in Selected /\ n \in chosen[x.id]
    BY DEF Mine, Selected
  <2>2. turn \in Nat
    BY <1>2, WorkedWith
  <2> QED BY <1>1, <1>2, <1>4, <2>1, <2>2 DEF InTurn
<1>12. LegalRequirement(plan[n])
  BY <1>2, WorkedWith
<1>13. Serving(n)'
  <2>1. Mine(n)' = {}
    BY <1>3, <1>11
  <2>2. Cardinality({}) = 0 /\ CostOf({}) = 0
    BY FS_EmptySet, NothingIsFree
  <2>3. Orderly(n)'
    BY <1>3, <1>12, <2>1, <2>2 DEF Orderly, LegalRequirement
  <2>4. KeysOf(Mine(n))' = {}
    BY <2>1 DEF KeysOf
  <2>5. taken' = [count |-> Cardinality(Mine(n))', bytes |-> CostOf(Mine(n))', keys |-> KeysOf(Mine(n))']
    BY <1>2, <2>1, <2>2, <2>4 DEF Nothing
  <2>6. View(plan[n])' = view
    BY <1>3, SameViews DEF view
  <2>7. Left(n)' = {x \in todo' : Wanted(n, x)'}
    BY <1>2, <2>1, <2>6 DEF Left, Requested
  <2> QED BY <1>1, <1>2, <2>3, <2>5, <2>7 DEF Serving
<1> QED BY <1>2, <1>3, <1>4, <1>8, <1>9, <1>10, <1>13 DEF Ledger

\* A step that only moves the walk keeps the ledger if the requirement it serves
\* stays accounted for.
LEMMA WalkKeepsLedger ==
  ASSUME IInv, Ledger, pc = "select", pc' \in {"select", "dispose"},
         UNCHANGED <<inputs, chosen, total>>, turn' = turn, unknowns' = unknowns,
         NEW n \in DOMAIN plan, Serving(n)'
  PROVE  Ledger'
<1>1. /\ UNCHANGED inputs /\ plan' = plan
      /\ Selected' = Selected
      /\ \A m : Mine(m)' = Mine(m) /\ Earlier(m)' = Earlier(m)
      /\ Totals => Totals'
  BY SameSelection
<1>2. /\ Totals /\ InTurn /\ (\A u \in unknowns : Shaped(u))
      /\ (\A m \in DOMAIN plan : m < turn => Settled(m))
  BY LedgerSoFar
<1>3. \A m \in DOMAIN plan' : m < turn' => Settled(m)'
  BY <1>1, <1>2, SameShortfalls
<1>4. \A u \in unknowns' : Shaped(u)'
  BY <1>1, <1>2, StaysShaped, WorkedWith
<1>5. InTurn'
  BY <1>1, <1>2 DEF InTurn
<1> QED BY <1>1, <1>2, <1>3, <1>4, <1>5 DEF Ledger

\* The requirement being served.
LEMMA OneIsServed ==
  ASSUME IInv, Ledger, pc \in {"select", "dispose"}
  PROVE  \E n \in DOMAIN plan : Serving(n) /\ n = turn /\ Requirement = plan[n]
  BY DEF Ledger, Serving, Requirement

\* The walk ends with nothing left or with enough, and passes only what was not
\* asked for.
LEMMA WalkLedger ==
  IInv /\ Ledger /\ (EndSelection \/ \E x \in todo : SkipUnrequested(x)) => Ledger'
<1> SUFFICES ASSUME IInv, Ledger, EndSelection \/ \E x \in todo : SkipUnrequested(x)
             PROVE  Ledger'
  OBVIOUS
<1>1. /\ pc = "select" /\ pc' \in {"select", "dispose"}
      /\ UNCHANGED <<inputs, chosen, total>> /\ turn' = turn /\ unknowns' = unknowns
      /\ taken' = taken /\ stop' = stop
  BY DEF EndSelection, SkipUnrequested, Upcoming
<1>2. PICK n \in DOMAIN plan : Serving(n) /\ n = turn /\ Requirement = plan[n]
  BY <1>1, OneIsServed
<1>3. /\ UNCHANGED inputs /\ plan' = plan /\ Mine(n)' = Mine(n)
  BY <1>1, SameSelection
<1>4. Left(n)' = Left(n) /\ (Orderly(n)' <=> Orderly(n)) /\ (Exhausted(n)' <=> Exhausted(n))
  BY <1>3, SameStanding
<1>5. KeysOf(Mine(n))' = KeysOf(Mine(n))
  BY <1>3 DEF KeysOf
<1>6. \A x : Wanted(n, x)' <=> Wanted(n, x)
  BY <1>3 DEF Wanted
<1>7. Serving(n)'
  <2>1. CASE EndSelection
    <3>1. todo' = todo /\ pc' = "dispose" /\ (todo = {} \/ Enough)
      BY <2>1 DEF EndSelection
    <3>2. Exhausted(n)
      BY <1>2, <3>1 DEF Serving, Exhausted, Enough
    <3> QED BY <1>1, <1>2, <1>3, <1>4, <1>5, <1>6, <3>1, <3>2 DEF Serving
  <2>2. CASE \E x \in todo : SkipUnrequested(x)
    <3>1. PICK x \in todo : SkipUnrequested(x)
      BY <2>2
    <3>2. todo' = todo \ {x} /\ pc' = "select" /\ ~ Wanted(n, x)
      BY <1>2, <3>1 DEF SkipUnrequested, Upcoming, Unrequested, Wanted
    <3>3. {y \in todo' : Wanted(n, y)'} = {y \in todo : Wanted(n, y)}
      BY <1>6, <3>2
    <3> QED BY <1>1, <1>2, <1>3, <1>4, <1>5, <3>2, <3>3 DEF Serving
  <2> QED BY <2>1, <2>2
<1> QED BY <1>1, <1>2, <1>7, WalkKeepsLedger

\* The item looked at next leads what the requirement did not get, and the counters
\* it is measured against are those of the selection.
LEMMA UpcomingLeads ==
  ASSUME IInv, Ledger, NEW n \in DOMAIN plan, Serving(n),
         NEW x \in todo, Upcoming(x), ~ Unrequested(x)
  PROVE  /\ x \in snapshot /\ Leads(x, Left(n)) /\ x \notin Mine(n)
         /\ taken.count = Cardinality(Mine(n)) /\ taken.bytes = CostOf(Mine(n))
         /\ plan[n].mode = "minimum" => Cardinality(Mine(n)) < plan[n].min
         /\ Selected = Earlier(n) \cup Mine(n)
         /\ Cardinality(DOMAIN chosen) = Cardinality(Selected) /\ total = CostOf(Selected)
         /\ x.id \in DOMAIN chosen <=> x \in Selected
<1>1. pc = "select" /\ ~ Enough /\ x \in todo /\ (\A y \in todo \ {x} : SelectedBefore(x, y))
  BY DEF Upcoming
<1>2. n = turn /\ Requirement = plan[n] /\ Left(n) = {y \in todo : Wanted(n, y)}
      /\ taken.count = Cardinality(Mine(n)) /\ taken.bytes = CostOf(Mine(n))
  BY DEF Serving, Requirement
<1>3. Wanted(n, x)
  BY <1>2 DEF Unrequested, Wanted
<1>4. Leads(x, Left(n))
  BY <1>1, <1>2, <1>3 DEF Leads
<1>5. x \in snapshot
  BY <1>1, TodoIsSeen DEF IInv
<1>6. x \notin Mine(n)
  BY <1>4 DEF Leads, Left
<1>7. Cardinality(Mine(n)) \in Nat /\ plan[n].min \in Nat
  <2>1. Mine(n) \subseteq snapshot /\ LegalRequirement(plan[n])
    BY <1>1, WorkedWith
  <2> QED BY <1>1, <2>1, PartsAreMeasured DEF LegalRequirement
<1>8. plan[n].mode = "minimum" => Cardinality(Mine(n)) < plan[n].min
  BY <1>1, <1>2, <1>7 DEF Enough
<1>9. Totals /\ InTurn
  BY <1>1, LedgerSoFar
<1>10. \A y \in Selected : chosen[y.id] # {}
  BY <1>1, WorkedWith DEF BoundAreEligible, Selected
<1>11. Selected = Earlier(n) \cup Mine(n)
  <2>1. \A y \in Selected : y \in snapshot /\ y.id \in DOMAIN chosen
    BY DEF Selected
  <2>2. \A y \in Selected : \E m \in chosen[y.id] : m < n \/ m = n
    BY <1>2, <1>9, <1>10 DEF InTurn
  <2>3. Selected \subseteq Earlier(n) \cup Mine(n)
    BY <2>1, <2>2 DEF Earlier, Mine
  <2>4. Earlier(n) \cup Mine(n) \subseteq Selected
    BY DEF Earlier, Mine, Selected
  <2> QED BY <2>3, <2>4
<1>12. Cardinality(DOMAIN chosen) = Cardinality(Selected) /\ total = CostOf(Selected)
  BY <1>1, <1>9, CountedById DEF Totals
<1>13. x.id \in DOMAIN chosen <=> x \in Selected
  BY <1>5 DEF Selected
<1> QED BY <1>2, <1>4, <1>5, <1>6, <1>8, <1>11, <1>12, <1>13

\* The witness of a stop says what stopped it.
LEMMA StopLedger ==
  ASSUME IInv, Ledger, NEW x \in todo, NEW k \in DOMAIN Bounds, StopOnBudget(x, k)
  PROVE  Ledger'
<1> DEFINE b == Bounds[k]
<1>1. /\ pc = "select" /\ pc' = "dispose" /\ UNCHANGED <<inputs, chosen, total>>
      /\ turn' = turn /\ unknowns' = unknowns /\ taken' = taken /\ todo' = todo
      /\ Upcoming(x) /\ ~ Unrequested(x) /\ Exceeds(b, x)
      /\ stop' = Witness(b, x)
  BY DEF StopOnBudget, Upcoming
<1>2. PICK n \in DOMAIN plan : Serving(n) /\ n = turn /\ Requirement = plan[n]
  BY <1>1, OneIsServed
<1>3. /\ UNCHANGED inputs /\ plan' = plan /\ Mine(n)' = Mine(n) /\ Earlier(n)' = Earlier(n)
  BY <1>1, SameSelection
<1>4. /\ Left(n)' = Left(n) /\ (Orderly(n)' <=> Orderly(n))
      /\ \A w : Stopped(n, w)' <=> Stopped(n, w)
  BY <1>3, SameStanding
<1>5. /\ x \in snapshot /\ Leads(x, Left(n)) /\ x \notin Mine(n)
      /\ taken.count = Cardinality(Mine(n)) /\ taken.bytes = CostOf(Mine(n))
      /\ plan[n].mode = "minimum" => Cardinality(Mine(n)) < plan[n].min
      /\ Selected = Earlier(n) \cup Mine(n)
      /\ Cardinality(DOMAIN chosen) = Cardinality(Selected) /\ total = CostOf(Selected)
      /\ x.id \in DOMAIN chosen <=> x \in Selected
  BY <1>1, <1>2, UpcomingLeads
<1>6. b \in Range(Bounds) /\ b \in {"requirement_max_items", "requirement_max_bytes",
                                    "global_max_items", "global_max_bytes"}
  BY DEF Range, Bounds
<1> HIDE DEF b
<1>7. PICK w : w = Witness(b, x)
  OBVIOUS
<1>8. /\ w.bound = b /\ w.blocked = x.id /\ w.cost = x.cost /\ w.limit = Limit(b)
      /\ w.count = IF b \in {"requirement_max_items", "requirement_max_bytes"}
                     THEN taken.count ELSE Cardinality(DOMAIN chosen)
      /\ w.bytes = IF b \in {"requirement_max_items", "requirement_max_bytes"}
                     THEN taken.bytes ELSE total
  BY <1>7 DEF Witness
<1>9. w # None
  BY <1>1, <1>2, <1>5, <1>7, WitnessIsNotNone DEF b
<1>10. Reached(plan[n], w, x, Mine(n), Earlier(n) \cup Mine(n))
  <2>1. CASE b = "requirement_max_items"
    BY <1>1, <1>2, <1>5, <1>8, <2>1 DEF Reached, Exceeds, Limit
  <2>2. CASE b = "requirement_max_bytes"
    BY <1>1, <1>2, <1>5, <1>8, <2>2 DEF Reached, Exceeds, Limit
  <2>3. CASE b = "global_max_items"
    BY <1>1, <1>2, <1>5, <1>8, <2>3 DEF Reached, Exceeds, Limit
  <2>4. CASE b = "global_max_bytes"
    BY <1>1, <1>2, <1>5, <1>8, <2>4 DEF Reached, Exceeds, Limit
  <2> QED BY <1>6, <2>1, <2>2, <2>3, <2>4
<1>11. Stopped(n, w)
  <2>1. x \in Left(n)
    BY <1>5 DEF Leads
  <2> QED BY <1>5, <1>6, <1>8, <1>10, <2>1 DEF Stopped
<1>12. Stopped(n, w)'
  BY <1>4, <1>11
<1>13. KeysOf(Mine(n))' = KeysOf(Mine(n)) /\ \A y : Wanted(n, y)' <=> Wanted(n, y)
  BY <1>3 DEF KeysOf, Wanted
<1>14. stop' = w
  BY <1>1, <1>7
<1>15. Serving(n)'
  <2>1. Stopped(n, stop)'
    BY <1>12, <1>14 DEF Stopped, Reached
  <2>2. {y \in todo' : Wanted(n, y)'} = {y \in todo : Wanted(n, y)}
    BY <1>1, <1>13
  <2> QED BY <1>1, <1>2, <1>3, <1>4, <1>9, <1>13, <1>14, <2>1, <2>2 DEF Serving
<1> QED BY <1>1, <1>2, <1>15, WalkKeepsLedger

\* No bound keeps an admitted item out.
LEMMA AdmitFits ==
  ASSUME NEW x, \A k \in DOMAIN Bounds : ~ Exceeds(Bounds[k], x)
  PROVE  /\ Requirement.maxItems # None => ~ (taken.count + 1 > Requirement.maxItems)
         /\ Requirement.maxBytes # None => ~ (taken.bytes + x.cost > Requirement.maxBytes)
         /\ x.id \notin DOMAIN chosen => /\ ~ (Cardinality(DOMAIN chosen) + 1 > budget.items)
                                         /\ ~ (total + x.cost > budget.bytes)
<1>1. /\ 1 \in DOMAIN Bounds /\ Bounds[1] = "requirement_max_items"
      /\ 2 \in DOMAIN Bounds /\ Bounds[2] = "requirement_max_bytes"
      /\ 3 \in DOMAIN Bounds /\ Bounds[3] = "global_max_items"
      /\ 4 \in DOMAIN Bounds /\ Bounds[4] = "global_max_bytes"
  BY DEF Bounds
<1>2. /\ ~ Exceeds("requirement_max_items", x) /\ ~ Exceeds("requirement_max_bytes", x)
      /\ ~ Exceeds("global_max_items", x) /\ ~ Exceeds("global_max_bytes", x)
  BY <1>1
<1> QED BY <1>2 DEF Exceeds

\* An admitted item moves from what is left to what was got, and is paid for once.
LEMMA AdmitLedger ==
  ASSUME IInv, Ledger, NEW x \in todo, Admit(x)
  PROVE  Ledger'
<1>1. /\ pc = "select" /\ pc' = "select" /\ UNCHANGED inputs /\ turn' = turn
      /\ stop' = stop /\ unknowns' = unknowns /\ todo' = todo \ {x}
      /\ Upcoming(x) /\ ~ Unrequested(x)
      /\ \A k \in DOMAIN Bounds : ~ Exceeds(Bounds[k], x)
      /\ total' = IF x.id \in DOMAIN chosen THEN total ELSE total + x.cost
      /\ taken' = [count |-> taken.count + 1, bytes |-> taken.bytes + x.cost,
                   keys |-> taken.keys \cup {x.key}]
      /\ DOMAIN chosen' = DOMAIN chosen \cup {x.id}
  BY DEF Admit, Upcoming
<1>2. plan' = plan /\ snapshot' = snapshot /\ budget' = budget
  BY <1>1 DEF inputs
<1>3. PICK n \in DOMAIN plan : Serving(n) /\ n = turn /\ Requirement = plan[n]
  BY <1>1, OneIsServed
<1>4. /\ x \in snapshot /\ Leads(x, Left(n)) /\ x \notin Mine(n)
      /\ taken.count = Cardinality(Mine(n)) /\ taken.bytes = CostOf(Mine(n))
      /\ plan[n].mode = "minimum" => Cardinality(Mine(n)) < plan[n].min
      /\ Cardinality(DOMAIN chosen) = Cardinality(Selected) /\ total = CostOf(Selected)
      /\ x.id \in DOMAIN chosen <=> x \in Selected
  BY <1>1, <1>3, UpcomingLeads
<1>5. /\ Requirement.maxItems # None => ~ (taken.count + 1 > Requirement.maxItems)
      /\ Requirement.maxBytes # None => ~ (taken.bytes + x.cost > Requirement.maxBytes)
      /\ x.id \notin DOMAIN chosen => /\ ~ (Cardinality(DOMAIN chosen) + 1 > budget.items)
                                      /\ ~ (total + x.cost > budget.bytes)
  BY <1>1, AdmitFits
<1>6. /\ FromInput /\ turn \in Nat
      /\ \A y, z \in snapshot : y.id = z.id => y = z
      /\ budget.items \in Nat /\ budget.bytes \in Nat /\ n \in Nat
      /\ LegalRequirement(plan[n])
      /\ Selected \subseteq snapshot /\ Mine(n) \subseteq snapshot
      /\ x.cost \in Nat /\ \A m \in DOMAIN plan : m \in Nat
  BY <1>1, <1>4, WorkedWith
<1>7. /\ IsFiniteSet(Selected) /\ Cardinality(Selected) \in Nat /\ CostOf(Selected) \in Nat
      /\ IsFiniteSet(Mine(n)) /\ Cardinality(Mine(n)) \in Nat /\ CostOf(Mine(n)) \in Nat
  BY <1>1, <1>6, PartsAreMeasured
<1>8. /\ \A y \in Selected : y.cost \in Nat
      /\ \A y \in Mine(n) : y.cost \in Nat
  BY <1>1, <1>6, WorkedWith
<1>9. /\ Totals /\ InTurn /\ (\A u \in unknowns : Shaped(u))
      /\ (\A m \in DOMAIN plan : m < turn => Settled(m))
  BY <1>1, LedgerSoFar
<1>10. \A y \in snapshot : \A m :
         y.id \in DOMAIN chosen' /\ m \in chosen'[y.id] <=>
           \/ y.id \in DOMAIN chosen /\ m \in chosen[y.id]
           \/ y = x /\ m = turn
  BY AdmitBinds
<1>11. /\ Selected' = Selected \cup {x}
       /\ Mine(n)' = Mine(n) \cup {x}
       /\ \A m \in Nat : m < turn => Mine(m)' = Mine(m) /\ Earlier(m)' = Earlier(m)
  <2>1. Selected' = Selected \cup {x}
    BY <1>1, <1>2, <1>4, <1>6 DEF Selected
  <2>2. Mine(n)' = Mine(n) \cup {x}
    BY <1>2, <1>3, <1>4, <1>10 DEF Mine
  <2>3. ASSUME NEW m \in Nat, m < turn PROVE Mine(m)' = Mine(m) /\ Earlier(m)' = Earlier(m)
    <3>1. Mine(m)' = Mine(m)
      BY <1>2, <1>6, <1>10, <2>3 DEF Mine
    <3>2. ASSUME NEW y PROVE y \in Earlier(m)' <=> y \in Earlier(m)
      <4>1. y \in Earlier(m)' <=> y \in snapshot /\ \E l : l < m /\ y.id \in DOMAIN chosen' /\ l \in chosen'[y.id]
        BY <1>2 DEF Earlier, Selected
      <4>2. y \in Earlier(m) <=> y \in snapshot /\ \E l : l < m /\ y.id \in DOMAIN chosen /\ l \in chosen[y.id]
        BY DEF Earlier, Selected
      <4>3. ~ (turn < m)
        BY <1>6, <2>3
      <4> QED BY <1>10, <4>1, <4>2, <4>3
    <3> QED BY <3>1, <3>2
  <2> QED BY <2>1, <2>2, <2>3
<1>12. Totals'
  <2>1. DOMAIN chosen' = {y.id : y \in Selected'}
    BY <1>1, <1>9, <1>11 DEF Totals
  <2>2. CASE x \in Selected
    <3>1. Selected' = Selected /\ total' = total
      BY <1>1, <1>4, <1>11, <2>2
    <3> QED BY <1>2, <1>9, <2>1, <3>1 DEF Totals
  <2>3. CASE x \notin Selected
    <3>1. Cardinality(Selected') = Cardinality(Selected) + 1
      BY <1>7, <1>11, <2>3, FS_AddElement
    <3>2. CostOf(Selected') = CostOf(Selected) + x.cost
      BY <1>6, <1>7, <1>8, <1>11, <2>3, CostAdds
    <3>3. /\ total' = CostOf(Selected) + x.cost
          /\ Cardinality(Selected) + 1 <= budget.items
          /\ CostOf(Selected) + x.cost <= budget.bytes
      BY <1>1, <1>4, <1>5, <1>6, <1>7, <2>3
    <3> QED BY <1>2, <2>1, <3>1, <3>2, <3>3 DEF Totals
  <2> QED BY <2>2, <2>3
<1>13. InTurn'
  <2> SUFFICES ASSUME NEW y \in Selected', NEW m \in chosen'[y.id]
               PROVE  m < turn' \/ (m = turn' /\ pc' \in {"select", "dispose"})
    BY DEF InTurn
  <2>1. y \in snapshot /\ y.id \in DOMAIN chosen'
    BY <1>2 DEF Selected
  <2>2. (y.id \in DOMAIN chosen /\ m \in chosen[y.id]) \/ m = turn
    BY <1>10, <2>1
  <2>3. y.id \in DOMAIN chosen => y \in Selected
    BY <2>1 DEF Selected
  <2> QED BY <1>1, <1>9, <2>2, <2>3 DEF InTurn
<1>14. \A u \in unknowns' : Shaped(u)'
  BY <1>1, <1>6, <1>9, StaysShaped
<1>15. \A m \in DOMAIN plan' : m < turn' => Settled(m)'
  <2>1. \A m : Shortfalls(m)' = Shortfalls(m)
    BY <1>1 DEF Shortfalls
  <2>2. \A m \in DOMAIN plan : m < turn => Mine(m)' = Mine(m) /\ Earlier(m)' = Earlier(m)
    BY <1>6, <1>11
  <2> QED BY <1>1, <1>2, <1>9, <2>1, <2>2, StaysSettled
<1>16. Serving(n)'
  <2>1. /\ Orderly(n) /\ Left(n) = {y \in todo : Wanted(n, y)} /\ stop = None
        /\ taken = [count |-> Cardinality(Mine(n)), bytes |-> CostOf(Mine(n)),
                    keys |-> KeysOf(Mine(n))]
    BY <1>1, <1>3 DEF Serving
  <2>2. View(plan[n])' = View(plan[n])
    BY <1>1, SameViews
  <2>3. Requested(n)' = Requested(n) /\ \A y : Wanted(n, y)' <=> Wanted(n, y)
    BY <1>2, <2>2 DEF Requested, Wanted
  <2>4. Left(n)' = Left(n) \ {x}
    BY <1>11, <2>3 DEF Left
  <2>5. Left(n)' = {y \in todo' : Wanted(n, y)'}
    BY <1>1, <2>1, <2>3, <2>4
  <2>6. Cardinality(Mine(n) \cup {x}) = Cardinality(Mine(n)) + 1
    BY <1>4, <1>7, FS_AddElement
  <2>7. CostOf(Mine(n) \cup {x}) = CostOf(Mine(n)) + x.cost
    BY <1>4, <1>6, <1>7, <1>8, CostAdds
  <2>8. KeysOf(Mine(n) \cup {x}) = KeysOf(Mine(n)) \cup {x.key}
    BY DEF KeysOf
  <2>9. /\ Cardinality(Mine(n))' = Cardinality(Mine(n)) + 1
        /\ CostOf(Mine(n))' = CostOf(Mine(n)) + x.cost
        /\ KeysOf(Mine(n))' = KeysOf(Mine(n)) \cup {x.key}
    BY <1>11, <2>6, <2>7, <2>8 DEF KeysOf
  <2>10. taken' = [count |-> Cardinality(Mine(n))', bytes |-> CostOf(Mine(n))',
                   keys |-> KeysOf(Mine(n))']
    <3>1. taken.keys = KeysOf(Mine(n))
      BY <2>1
    <3> QED BY <1>1, <1>4, <2>9, <3>1
  <2>11. Orderly(n)'
    <3>1. x \in Requested(n)
      BY <1>4 DEF Leads, Left
    <3>2. Mine(n)' \subseteq Requested(n)'
      BY <1>11, <2>1, <2>3, <3>1 DEF Orderly
    <3>3. \A y \in Mine(n)' : \A z \in Left(n)' : SelectedBefore(y, z)
      BY <1>4, <1>11, <2>1, <2>4 DEF Orderly, Leads
    <3>4. plan[n].maxItems # None => Cardinality(Mine(n)) + 1 <= plan[n].maxItems
      BY <1>3, <1>4, <1>5, <1>6, <1>7 DEF LegalRequirement
    <3>5. plan[n].maxBytes # None => CostOf(Mine(n)) + x.cost <= plan[n].maxBytes
      BY <1>3, <1>4, <1>5, <1>6, <1>7 DEF LegalRequirement
    <3>6. plan[n].mode = "minimum" => Cardinality(Mine(n)) + 1 <= plan[n].min
      BY <1>4, <1>6, <1>7 DEF LegalRequirement
    <3> QED BY <1>2, <2>9, <3>2, <3>3, <3>4, <3>5, <3>6 DEF Orderly
  <2> QED BY <1>1, <1>3, <2>1, <2>5, <2>10, <2>11 DEF Serving
<1> QED BY <1>1, <1>2, <1>12, <1>13, <1>14, <1>15, <1>16 DEF Ledger

\* What a requirement is short of when its turn ends, in the terms of the code.
LEMMA WhatIsLacking ==
  ASSUME IInv, Ledger, pc = "dispose", NEW n \in DOMAIN plan, Serving(n)
  PROVE  /\ MissingKeys = Lacking(n) /\ taken.count = Cardinality(Mine(n))
         /\ Satisfied <=> Met(n) /\ (plan[n].mode = "all_eligible" => stop = None)
<1>1. n = turn /\ Requirement = plan[n] /\ taken.keys = KeysOf(Mine(n))
      /\ taken.count = Cardinality(Mine(n))
  BY DEF Serving, Requirement
<1>2. disposed = ConflictingKeys(n)
  BY <1>1 DEF IInv, Current
<1>3. MissingKeys = Lacking(n)
  BY <1>1, <1>2 DEF MissingKeys, Lacking
<1> QED BY <1>1, <1>3 DEF Satisfied, Met

\* A turn ends with what it got as it is, and with one more record at most.
LEMMA EndsSettled ==
  ASSUME IInv, Ledger, pc = "dispose", NextRequirement,
         NEW n \in DOMAIN plan, n = turn, NEW U, unknowns' = unknowns \cup U,
         \A u \in U : u.requirement = n /\ u.reason \in {"missing", "budget"},
         Settled(n)'
  PROVE  Ledger'
<1>1. turn' = turn + 1 /\ pc' = "begin" /\ UNCHANGED <<inputs, chosen, total>>
  BY DEF NextRequirement
<1>2. /\ UNCHANGED inputs /\ plan' = plan
      /\ Selected' = Selected
      /\ \A m : Mine(m)' = Mine(m) /\ Earlier(m)' = Earlier(m)
      /\ Totals => Totals'
  BY <1>1, SameSelection
<1>3. /\ Totals /\ InTurn /\ (\A u \in unknowns : Shaped(u))
      /\ (\A m \in DOMAIN plan : m < turn => Settled(m))
  BY LedgerSoFar
<1>4. turn \in Nat /\ \A m \in DOMAIN plan : m \in Nat
  BY WorkedWith
<1>5. InTurn'
  <2> SUFFICES ASSUME NEW x \in Selected, NEW m \in chosen[x.id] PROVE m < turn'
    BY <1>1, <1>2 DEF InTurn, inputs
  <2>1. m \in DOMAIN plan
    <3>1. x \in snapshot /\ x.id \in DOMAIN chosen
      BY DEF Selected
    <3> QED BY <3>1, WorkedWith DEF BoundAreEligible
  <2>2. m < turn \/ m = turn
    BY <1>3 DEF InTurn
  <2> QED BY <1>1, <1>4, <2>1, <2>2
<1>6. ASSUME NEW u \in unknowns' PROVE Shaped(u)'
  <2>1. CASE u \in unknowns
    BY <1>1, <1>2, <1>3, <1>4, <2>1, StaysShaped
  <2>2. CASE u \in U
    BY <1>1, <1>2, <1>4, <2>2 DEF Shaped
  <2> QED BY <2>1, <2>2
<1>7. ASSUME NEW m \in DOMAIN plan', m < turn' PROVE Settled(m)'
  <2>1. m \in DOMAIN plan /\ (m < turn \/ m = n)
    BY <1>1, <1>2, <1>4, <1>7
  <2>2. CASE m = n
    BY <2>2
  <2>3. CASE m < turn /\ m # n
    <3>1. Shortfalls(m)' = Shortfalls(m)
      BY <2>3 DEF Shortfalls
    <3> QED BY <1>2, <1>3, <2>1, <2>3, <3>1, StaysSettled
  <2> QED BY <2>1, <2>2, <2>3
<1> QED BY <1>1, <1>2, <1>3, <1>5, <1>6, <1>7 DEF Ledger

\* A turn that ends has its requirement met, or nothing left, or a record of what it
\* lacks.
LEMMA EndLedger == IInv /\ Ledger /\ (EndSatisfied \/ EndOptional \/ EndRecorded) => Ledger'
<1> SUFFICES ASSUME IInv, Ledger, EndSatisfied \/ EndOptional \/ EndRecorded PROVE Ledger'
  OBVIOUS
<1>1. pc = "dispose" /\ NextRequirement
  BY DEF EndSatisfied, EndOptional, EndRecorded
<1>2. PICK n \in DOMAIN plan : Serving(n) /\ n = turn /\ Requirement = plan[n]
  BY <1>1, OneIsServed
<1>3. UNCHANGED <<inputs, chosen, total>>
  BY <1>1 DEF NextRequirement
<1>4. UNCHANGED inputs /\ plan' = plan /\ Mine(n)' = Mine(n) /\ Earlier(n)' = Earlier(n)
  BY <1>3, SameSelection
<1>5. /\ Lacking(n)' = Lacking(n) /\ (Orderly(n)' <=> Orderly(n)) /\ (Met(n)' <=> Met(n))
      /\ (Exhausted(n)' <=> Exhausted(n))
      /\ \A w : Stopped(n, w)' <=> Stopped(n, w)
  BY <1>4, SameStanding
<1>6. /\ MissingKeys = Lacking(n)
      /\ Satisfied <=> Met(n) /\ (plan[n].mode = "all_eligible" => stop = None)
  BY <1>1, <1>2, WhatIsLacking
<1>7. Orderly(n) /\ IF stop = None THEN Exhausted(n) ELSE Stopped(n, stop)
  BY <1>1, <1>2 DEF Serving
<1>8. Shortfalls(n) = {}
  BY <1>1, <1>2, LedgerSoFar
<1>9. LegalRequirement(plan[n])
  BY <1>1, <1>2, WorkedWith
<1>10. Cardinality(Mine(n)) \in Nat /\ plan[n].min \in Nat
  <2>1. Mine(n) \subseteq snapshot
    BY <1>1, WorkedWith
  <2> QED BY <1>1, <1>9, <2>1, PartsAreMeasured DEF LegalRequirement
<1>11. ASSUME unknowns' = unknowns,
              Exhausted(n) \/ (plan[n].mode = "semantic_keys" /\ Met(n)),
              plan[n].required => Met(n)
       PROVE  Ledger'
  <2>1. Shortfalls(n)' = {}
    BY <1>8, <1>11 DEF Shortfalls
  <2>2. Settled(n)'
    BY <1>4, <1>5, <1>7, <1>11, <2>1 DEF Settled
  <2>3. PICK U : U = {}
    OBVIOUS
  <2>4. unknowns' = unknowns \cup U /\ \A u \in U : FALSE
    BY <1>11, <2>3
  <2> QED BY <1>1, <1>2, <2>2, <2>4, EndsSettled
<1>12. CASE EndSatisfied
  <2>1. Met(n) /\ (plan[n].mode = "all_eligible" => stop = None) /\ unknowns' = unknowns
    BY <1>6, <1>12 DEF EndSatisfied
  <2>2. plan[n].mode \in CoverageModes
    BY <1>9 DEF LegalRequirement
  <2>3. plan[n].mode = "minimum" => Exhausted(n)
    BY <2>1 DEF Met, Exhausted
  <2>4. Exhausted(n) \/ (plan[n].mode = "semantic_keys" /\ Met(n))
    BY <1>7, <2>1, <2>2, <2>3 DEF CoverageModes
  <2> QED BY <1>11, <2>1, <2>4
<1>13. CASE EndOptional
  <2>1. unknowns' = unknowns /\ stop = None /\ plan[n].policy = "optional"
    BY <1>2, <1>13 DEF EndOptional
  <2>2. ~ plan[n].required
    BY <1>9, <2>1 DEF LegalRequirement
  <2> QED BY <1>7, <1>11, <2>1, <2>2
<1>14. CASE EndRecorded
  <2>1. PICK u : u = Unknown(n, IF stop = None THEN "missing" ELSE "budget", None,
                             [missing |-> MissingKeys, witness |-> stop])
    OBVIOUS
  <2>2. unknowns' = unknowns \cup {u} /\ ~ Satisfied
    BY <1>2, <1>14, <2>1 DEF EndRecorded
  <2>3. /\ u.requirement = n /\ u.reason = (IF stop = None THEN "missing" ELSE "budget")
        /\ u.blocking = plan[n].required
        /\ u.details.missing = Lacking(n) /\ u.details.witness = stop
    BY <1>6, <2>1 DEF Unknown
  <2>4. Shortfalls(n)' = {u}
    BY <1>8, <2>2, <2>3 DEF Shortfalls
  <2>5. IF u.reason = "missing" THEN Exhausted(n) /\ ~ Met(n) ELSE Stopped(n, u.details.witness)
    BY <1>6, <1>7, <2>2, <2>3
  <2>6. Stopped(n, u.details.witness)' <=> Stopped(n, u.details.witness)
    BY <1>5
  <2>7. u.details.missing = Lacking(n)' /\ u.blocking = plan'[n].required
    BY <1>4, <1>5, <2>3
  <2>8. Settled(n)'
    BY <1>5, <1>7, <2>4, <2>5, <2>6, <2>7 DEF Settled
  <2>9. PICK U : U = {u}
    OBVIOUS
  <2>10. /\ unknowns' = unknowns \cup U
         /\ \A v \in U : v.requirement = n /\ v.reason \in {"missing", "budget"}
    BY <2>2, <2>3, <2>9
  <2> QED BY <1>1, <1>2, <2>8, <2>10, EndsSettled
<1> QED BY <1>12, <1>13, <1>14

\* In the end the gaps are reported, and nothing else changes.
LEMMA FinishLedger == IInv /\ Ledger /\ Finish => Ledger'
<1> SUFFICES ASSUME IInv, Ledger, Finish PROVE Ledger'
  OBVIOUS
<1>1. /\ pc = "begin" /\ pc' = "done" /\ turn' = turn /\ UNCHANGED <<inputs, chosen, total>>
      /\ unknowns' = unknowns \cup StatusUnknowns
                              \cup CapabilityUnknowns(task, material, Selected)
                              \cup AuthorityUnknowns(task, material, Selected)
  BY DEF Finish, material
<1>2. /\ UNCHANGED inputs /\ plan' = plan
      /\ Selected' = Selected /\ material' = material
      /\ \A m : Mine(m)' = Mine(m) /\ Earlier(m)' = Earlier(m)
      /\ Totals => Totals'
  BY <1>1, SameSelection
<1>3. task' = task
  BY <1>2 DEF inputs
<1>4. /\ Totals /\ InTurn /\ (\A u \in unknowns : Shaped(u))
      /\ (\A m \in DOMAIN plan : m < turn => Settled(m))
  BY <1>1, LedgerSoFar
<1>5. /\ \A u \in StatusUnknowns : u.requirement = None /\ u.reason = "status"
      /\ \A u \in CapabilityUnknowns(task, material, Selected) :
           u.requirement = None /\ u.reason = "capability"
      /\ \A u \in AuthorityUnknowns(task, material, Selected) :
           u.requirement = None /\ u.reason = "authority"
  BY DEF StatusUnknowns, CapabilityUnknowns, AuthorityUnknowns, Gap, Free
<1>6. \A m \in DOMAIN plan' : m < turn' => Settled(m)'
  BY <1>1, <1>2, <1>4, <1>5, SameShortfalls
<1>7. ASSUME NEW u \in unknowns' PROVE Shaped(u)'
  <2>1. CASE u \in unknowns
    BY <1>1, <1>2, <1>4, <2>1, StaysShaped, WorkedWith
  <2>2. CASE u \in StatusUnknowns
    BY <1>5, <2>2 DEF Shaped
  <2>3. CASE u \in CapabilityUnknowns(task, material, Selected)
    <3>1. u \in CapabilityUnknowns(task, material, Selected)'
      BY <1>2, <1>3, <2>3 DEF CapabilityUnknowns
    <3> QED BY <1>1, <1>5, <2>3, <3>1 DEF Shaped
  <2>4. CASE u \in AuthorityUnknowns(task, material, Selected)
    <3>1. u \in AuthorityUnknowns(task, material, Selected)'
      BY <1>2, <1>3, <2>4 DEF AuthorityUnknowns
    <3> QED BY <1>1, <1>5, <2>4, <3>1 DEF Shaped
  <2> QED BY <1>1, <2>1, <2>2, <2>3, <2>4
<1>8. InTurn'
  BY <1>1, <1>2, <1>4 DEF InTurn
<1> QED BY <1>1, <1>2, <1>4, <1>6, <1>7, <1>8 DEF Ledger

LEMMA NextLedger == IInv /\ Ledger /\ [Next]_vars /\ IInv' => Ledger'
<1> SUFFICES ASSUME IInv, Ledger, [Next]_vars, IInv' PROVE Ledger'
  OBVIOUS
<1>1. CASE PlanContext
  BY <1>1, PlanContextLedger
<1>2. CASE RefuseSnapshot \/ EndBlocked
  BY <1>2 DEF RefuseSnapshot, EndBlocked, Ledger
<1>3. CASE BeginRequirement
  BY <1>3, BeginLedger
<1>4. CASE EndSelection \/ \E x \in todo : SkipUnrequested(x)
  BY <1>4, WalkLedger
<1>5. CASE \E x \in todo : Admit(x)
  BY <1>5, AdmitLedger
<1>6. CASE \E x \in todo : \E n \in DOMAIN Bounds : StopOnBudget(x, n)
  BY <1>6, StopLedger
<1>7. CASE EndSatisfied \/ EndOptional \/ EndRecorded
  BY <1>7, EndLedger
<1>8. CASE Finish
  BY <1>8, FinishLedger
<1>9. CASE UNCHANGED vars
  <2>1. /\ UNCHANGED inputs /\ UNCHANGED <<inputs, chosen, total>> /\ turn' = turn /\ pc' = pc
        /\ todo' = todo /\ taken' = taken /\ stop' = stop /\ unknowns' = unknowns /\ total' = total
    BY <1>9 DEF vars, inputs
  <2>2. /\ plan' = plan /\ Selected' = Selected /\ material' = material
        /\ \A m : Mine(m)' = Mine(m) /\ Earlier(m)' = Earlier(m)
        /\ Totals => Totals'
    BY <2>1, SameSelection
  <2>3. task' = task
    BY <2>1 DEF inputs
  <2>4. pc \notin {"plan", "failed"} => \A m : Settled(m) => Settled(m)'
    BY <2>1, <2>2, SameShortfalls
  <2>5. \A u : Shaped(u) => Shaped(u)'
    <3> SUFFICES ASSUME NEW u, Shaped(u) PROVE Shaped(u)'
      OBVIOUS
    <3>1. ConflictingKeys(u.requirement)' = ConflictingKeys(u.requirement)
      BY <2>1, SameViews
    <3>2. \A k : Unknown(u.requirement, "conflict", k, {})' = Unknown(u.requirement, "conflict", k, {})
      BY <2>2 DEF Unknown
    <3>3. /\ CapabilityUnknowns(task, material, Selected)' = CapabilityUnknowns(task, material, Selected)
          /\ AuthorityUnknowns(task, material, Selected)' = AuthorityUnknowns(task, material, Selected)
      BY <2>2, <2>3
    <3> QED BY <2>1, <2>2, <3>1, <3>2, <3>3 DEF Shaped
  <2>6. ASSUME NEW n, Serving(n) PROVE Serving(n)'
    <3>1. Mine(n)' = Mine(n) /\ Earlier(n)' = Earlier(n)
      BY <2>2
    <3>2. /\ Left(n)' = Left(n) /\ (Orderly(n)' <=> Orderly(n)) /\ (Exhausted(n)' <=> Exhausted(n))
          /\ \A w : Stopped(n, w)' <=> Stopped(n, w)
      BY <2>1, <3>1, SameStanding
    <3>3. KeysOf(Mine(n))' = KeysOf(Mine(n)) /\ \A y : Wanted(n, y)' <=> Wanted(n, y)
      BY <2>2, <3>1 DEF KeysOf, Wanted
    <3>4. Stopped(n, stop)' <=> Stopped(n, stop)
      <4>1. PICK w : w = stop
        OBVIOUS
      <4>2. (Stopped(n, w)' <=> Stopped(n, stop)') /\ (Stopped(n, w) <=> Stopped(n, stop))
        BY <2>1, <4>1 DEF Stopped, Reached
      <4> QED BY <3>2, <4>2
    <3>5. {y \in todo' : Wanted(n, y)'} = {y \in todo : Wanted(n, y)}
      BY <2>1, <3>3
    <3>6. taken' = [count |-> Cardinality(Mine(n)), bytes |-> CostOf(Mine(n)), keys |-> KeysOf(Mine(n))]'
      BY <2>1, <2>6, <3>1, <3>3 DEF Serving
    <3>7. /\ n = turn' /\ Orderly(n)' /\ Left(n)' = {y \in todo : Wanted(n, y)}'
          /\ pc' = "select" => stop' = None
      BY <2>1, <2>6, <3>2, <3>5 DEF Serving
    <3>8. pc' = "dispose" => IF stop' = None THEN Exhausted(n)' ELSE Stopped(n, stop)'
      BY <2>1, <2>6, <3>2, <3>4 DEF Serving
    <3> QED BY <3>6, <3>7, <3>8 DEF Serving
  <2>7. InTurn => InTurn'
    BY <2>1, <2>2 DEF InTurn, inputs
  <2> QED BY <2>1, <2>2, <2>4, <2>5, <2>6, <2>7 DEF Ledger
<1> QED BY <1>1, <1>2, <1>3, <1>4, <1>5, <1>6, <1>7, <1>8, <1>9 DEF Next

\* The books of a compile balance at every step: the shared counters are those of
\* the selection, every requirement got the beginning of what it asked for, and its
\* one record of a shortfall, if it has one, says what it lacks and which bound
\* stopped it (_select_for, _budget_stop_record and _dispose_unsatisfied).
THEOREM BooksBalance == Spec => []Ledger
<1>1. Init => Ledger
  BY InitLedger
<1>2. IInv /\ Ledger /\ [Next]_vars /\ IInv' => Ledger'
  BY NextLedger
<1> QED BY <1>1, <1>2, Invariance, PTL DEF Spec

-----------------------------------------------------------------------------
(* What closure makes of a finished compile. *)

\* A finished compile has settled every requirement, and closure reads it as it is.
LEMMA AllSettled ==
  ASSUME IInv, Ledger, pc = "done"
  PROVE  /\ \A n \in DOMAIN plan : Settled(n) /\ Served(n)
         /\ \A n : Bound(compiled, n) = Mine(n)
         /\ Items(compiled) = Selected /\ compiled.unknowns = unknowns /\ compiled.chosen = chosen
         /\ Totals /\ \A u \in unknowns : Shaped(u)
<1>1. PICK k \in Nat : DOMAIN plan = 1 .. k
  BY DEF IInv
<1>2. turn \in Nat \ {0} /\ turn \notin DOMAIN plan
  BY DEF IInv, Numbers, Said
<1>3. \A n \in DOMAIN plan : n < turn
  BY <1>1, <1>2
<1>4. Items(compiled) = Selected /\ compiled.unknowns = unknowns /\ compiled.chosen = chosen
  BY DEF Items, Selected, compiled
<1> QED BY <1>3, <1>4, AllServed DEF Ledger

\* The leader of a set is the one it starts with.
LEMMA LeaderIsFirst ==
  ASSUME FromInput, NEW S \in SUBSET snapshot, NEW x, Leads(x, S)
  PROVE  FirstOf(S) = x
<1>1. x \in S /\ \A y \in S \ {x} : SelectedBefore(x, y)
  BY DEF Leads
<1>2. ASSUME NEW z \in S, \A y \in S \ {z} : SelectedBefore(z, y) PROVE z = x
  BY <1>1, <1>2, OrderIsStrict
<1> QED BY <1>1, <1>2 DEF FirstOf

\* What a requirement got is the beginning of its frontier, which goes no further
\* than what it asked for.
LEMMA FrontierHolds ==
  ASSUME IInv, pc = "done", NEW n \in DOMAIN plan, Orderly(n)
  PROVE  LET F == Frontier(plan[n], View(plan[n])) IN
         /\ Mine(n) \subseteq F /\ F \subseteq Requested(n)
         /\ \A x \in Left(n) :
              /\ Leads(x, Left(n))
              /\ plan[n].mode = "minimum" => Cardinality(Mine(n)) < plan[n].min
              => x \in F
<1> DEFINE F == Frontier(plan[n], View(plan[n]))
           E == View(plan[n]).eligible
           before(x) == {y \in E : SelectedBefore(y, x)}
<1>1. /\ FromInput /\ E \subseteq snapshot /\ LegalRequirement(plan[n])
      /\ Mine(n) \subseteq Requested(n)
      /\ \A x \in Mine(n) : \A y \in Left(n) : SelectedBefore(x, y)
      /\ plan[n].mode = "minimum" => Cardinality(Mine(n)) <= plan[n].min
  BY WorkedWith DEF Orderly
<1>2. plan[n].mode \in CoverageModes /\ plan[n].min \in Nat
  BY <1>1 DEF LegalRequirement
<1>3. CASE plan[n].mode = "all_eligible"
  <2>1. F = E /\ Requested(n) = E
    BY <1>3 DEF Frontier, Requested, Wanted
  <2> QED BY <1>1, <2>1 DEF Left
<1>4. CASE plan[n].mode = "semantic_keys"
  <2>1. F = Requested(n)
    BY <1>4 DEF Frontier, Requested, Wanted
  <2> QED BY <1>1, <2>1 DEF Left
<1>5. CASE plan[n].mode = "minimum"
  <2>1. F = {x \in E : Cardinality(before(x)) < plan[n].min} /\ Requested(n) = E
    BY <1>5 DEF Frontier, Requested, Wanted
  <2>2. Mine(n) \subseteq snapshot /\ IsFiniteSet(Mine(n)) /\ Cardinality(Mine(n)) \in Nat
    <3>1. Mine(n) \subseteq snapshot
      BY WorkedWith
    <3> QED BY <3>1, PartsAreMeasured
  <2>3. ASSUME NEW x \in Mine(n) PROVE Cardinality(before(x)) < plan[n].min
    <3>1. before(x) \in SUBSET (Mine(n) \ {x})
      <4> SUFFICES ASSUME NEW y \in before(x) PROVE y \in Mine(n) /\ y # x
        OBVIOUS
      <4>1. y \in snapshot /\ x \in snapshot /\ y \in E /\ SelectedBefore(y, x)
        BY <1>1, <2>2
      <4>2. y # x /\ ~ SelectedBefore(x, y)
        BY <1>1, <4>1, OrderIsStrict
      <4>3. y \notin Left(n)
        BY <1>1, <4>2
      <4> QED BY <2>1, <4>1, <4>2, <4>3 DEF Left
    <3>2. IsFiniteSet(Mine(n) \ {x}) /\ Cardinality(Mine(n) \ {x}) = Cardinality(Mine(n)) - 1
      BY <2>2, FS_RemoveElement
    <3>3. IsFiniteSet(before(x)) /\ Cardinality(before(x)) <= Cardinality(Mine(n)) - 1
      <4> HIDE DEF before
      <4> QED BY <3>1, <3>2, FS_Subset
    <3>4. Cardinality(before(x)) \in Nat
      <4> HIDE DEF before
      <4> QED BY <3>3, FS_CardinalityType
    <3> HIDE DEF before
    <3> QED BY <1>1, <1>2, <1>5, <2>2, <3>3, <3>4
  <2>4. ASSUME NEW x \in Left(n), Leads(x, Left(n)), Cardinality(Mine(n)) < plan[n].min
        PROVE  Cardinality(before(x)) < plan[n].min
    <3>1. before(x) \in SUBSET Mine(n)
      <4> SUFFICES ASSUME NEW y \in before(x) PROVE y \in Mine(n)
        OBVIOUS
      <4>1. y \in snapshot /\ x \in snapshot /\ y \in E /\ SelectedBefore(y, x)
        BY <1>1, <2>1 DEF Left
      <4>2. y # x /\ ~ SelectedBefore(x, y)
        BY <1>1, <4>1, OrderIsStrict
      <4>3. y \notin Left(n)
        BY <2>4, <4>2 DEF Leads
      <4> QED BY <2>1, <4>1, <4>3 DEF Left
    <3>2. IsFiniteSet(before(x)) /\ Cardinality(before(x)) <= Cardinality(Mine(n))
      <4> HIDE DEF before
      <4> QED BY <2>2, <3>1, FS_Subset
    <3>3. Cardinality(before(x)) \in Nat
      <4> HIDE DEF before
      <4> QED BY <3>2, FS_CardinalityType
    <3> HIDE DEF before
    <3> QED BY <1>2, <2>2, <2>4, <3>2, <3>3
  <2>5. Left(n) \subseteq E /\ Mine(n) \subseteq E
    BY <1>1, <2>1 DEF Left
  <2> HIDE DEF before, E, F
  <2> QED BY <1>5, <2>1, <2>3, <2>4, <2>5 DEF F
<1> QED BY <1>2, <1>3, <1>4, <1>5 DEF CoverageModes

\* A stop the compiler recorded, closure proves.
LEMMA StoppedIsProven ==
  ASSUME IInv, Ledger, pc = "done", NEW n \in DOMAIN plan, Orderly(n), NEW w, Stopped(n, w)
  PROVE  Proven(compiled, n, View(plan[n]), w)
<1> DEFINE F == Frontier(plan[n], View(plan[n]))
<1>1. PICK x \in Left(n) :
        /\ Leads(x, Left(n))
        /\ w.blocked = x.id /\ w.cost = x.cost
        /\ Reached(plan[n], w, x, Mine(n), Earlier(n) \cup Mine(n))
        /\ plan[n].mode = "minimum" => Cardinality(Mine(n)) < plan[n].min
  BY DEF Stopped
<1>2. Mine(n) \subseteq F /\ F \subseteq Requested(n) /\ x \in F
  BY <1>1, FrontierHolds
<1>3. FromInput /\ Requested(n) \subseteq snapshot
  BY WorkedWith DEF Requested
<1> HIDE DEF F
<1>4. F \cap Mine(n) = Mine(n) /\ F \ Mine(n) \subseteq Left(n) /\ x \in F \ Mine(n)
  BY <1>1, <1>2 DEF Left
<1>5. FirstOf(F \ Mine(n)) = x
  <2>1. Leads(x, F \ Mine(n))
    BY <1>1, <1>4 DEF Leads
  <2>2. F \ Mine(n) \in SUBSET snapshot
    BY <1>2, <1>3
  <2> QED BY <1>3, <2>1, <2>2, LeaderIsFirst
<1>6. Bound(compiled, n) = Mine(n)
  BY AllSettled
<1>7. AtStop(compiled, n, Mine(n)) = Earlier(n) \cup Mine(n)
  BY AllSettled DEF AtStop, Earlier
<1> QED BY <1>1, <1>4, <1>5, <1>6, <1>7 DEF Proven, F

\* The contradictions closure counts for a requirement are those its view shows, and
\* they are finitely many.
LEMMA ConflictsCounted ==
  ASSUME IInv, Ledger, pc = "done", NEW n \in DOMAIN plan
  PROVE  /\ ConflictKeys(compiled, n, View(plan[n])) = ConflictingKeys(n)
         /\ ConflictsVisible(compiled, n, View(plan[n]))
         /\ IsFiniteSet(ConflictingKeys(n))
<1>1. Recorded(n) /\ \A k \in ConflictingKeys(n) :
        \E u \in Reported(compiled, n, {"conflict"}) : u.key = k
  BY AllSettled, RecordsRead DEF Served
<1>2. ConflictKeys(compiled, n, View(plan[n])) = ConflictingKeys(n)
  BY <1>1 DEF ConflictKeys, ConflictingKeys
<1>3. ConflictsVisible(compiled, n, View(plan[n]))
  BY <1>1 DEF ConflictsVisible, ConflictingKeys
<1>4. IsFiniteSet(ConflictingKeys(n))
  <2> DEFINE T == {y \in snapshot : MatchesRequirement(plan[n], y)}
             f == [y \in snapshot |-> y.key]
  <2>1. View(plan[n]) = Resolve(T)
    BY DEF View
  <2>2. \A g \in Resolve(T).conflicts : \E y \in T : g = <<y.kind, y.key>>
    <3> HIDE DEF T
    <3> QED BY ResolvedByGroup, EligibleAreSeen
  <2>3. ConflictingKeys(n) \in SUBSET Range(f)
    BY <2>1, <2>2 DEF ConflictingKeys, Range
  <2>4. IsFiniteSet(Range(f))
    <3>1. IsFiniteSet(snapshot)
      BY WorkedWith
    <3>2. DOMAIN f = snapshot /\ f = [y \in DOMAIN f |-> f[y]]
      OBVIOUS
    <3> HIDE DEF f
    <3> QED BY <3>1, <3>2, FiniteRange
  <2> HIDE DEF f
  <2> QED BY <2>3, <2>4, FS_Subset
<1> QED BY <1>2, <1>3, <1>4

\* A settled requirement passes every check closure makes of it.
LEMMA RequirementIsClosed ==
  ASSUME IInv, Ledger, pc = "done", NEW n \in DOMAIN plan
  PROVE  LET view == View(plan[n]) IN
         /\ Disposed(compiled, n)
         /\ ConflictsVisible(compiled, n, view)
         /\ WithinBounds(compiled, n, view)
         /\ Covered(compiled, n, view)
<1> DEFINE view == View(plan[n])
           q == plan[n]
           items == Bound(compiled, n)
           keys == {x.key : x \in items}
           gone == ConflictKeys(compiled, n, view)
           said == Reported(compiled, n, {"missing", "budget"})
<1>1. /\ Settled(n) /\ items = Mine(n) /\ compiled.unknowns = unknowns
  BY AllSettled
<1>2. /\ gone = ConflictingKeys(n) /\ ConflictsVisible(compiled, n, view)
      /\ IsFiniteSet(gone)
  BY ConflictsCounted
<1>3. said = Shortfalls(n)
  BY <1>1 DEF Reported, Shortfalls
<1>4. keys = KeysOf(Mine(n))
  BY <1>1 DEF KeysOf
<1>5. /\ LegalRequirement(q) /\ view.eligible \subseteq snapshot /\ Mine(n) \subseteq snapshot
  BY WorkedWith
<1>6. /\ IsFiniteSet(Mine(n)) /\ Cardinality(Mine(n)) \in Nat
      /\ IsFiniteSet(view.eligible) /\ Cardinality(view.eligible) \in Nat /\ q.min \in Nat
  BY <1>5, PartsAreMeasured DEF LegalRequirement
<1>7. Orderly(n)
  BY <1>1 DEF Settled
<1>8. Mine(n) \subseteq Requested(n) /\ Requested(n) \subseteq view.eligible
      /\ Left(n) = Requested(n) \ Mine(n)
      /\ \A x \in Requested(n) : Wanted(n, x)
  BY <1>7 DEF Orderly, Requested, Left
<1>9. Lacking(n) = q.keys \ (keys \cup gone)
  BY <1>2, <1>4 DEF Lacking
<1>10. Cardinality(gone \ keys) \in Nat
  <2>1. gone \ keys \in SUBSET gone
    OBVIOUS
  <2> HIDE DEF gone, keys
  <2>2. IsFiniteSet(gone \ keys)
    BY <1>2, <2>1, FS_Subset
  <2> QED BY <2>2, FS_CardinalityType
<1>11. Met(n) => Cardinality(Mine(n)) >= q.min /\ (q.mode = "semantic_keys" => Lacking(n) = {})
  BY DEF Met
<1>12. \/ /\ said = {}
          /\ Exhausted(n) \/ (q.mode = "semantic_keys" /\ Met(n))
          /\ q.required => Met(n)
       \/ \E u \in said : /\ said = {u} /\ u.details.missing = Lacking(n)
                          /\ u.reason \in {"missing", "budget"}
                          /\ IF u.reason = "missing" THEN Exhausted(n) /\ ~ Met(n)
                             ELSE Stopped(n, u.details.witness)
  <2> HIDE DEF said
  <2> QED BY <1>1, <1>3 DEF Settled, Shortfalls
<1>13. /\ q.required => q.min >= 1
       /\ q.mode \in CoverageModes
       /\ q.maxItems # None => Cardinality(Mine(n)) <= q.maxItems
       /\ q.maxBytes # None => CostOf(Mine(n)) <= q.maxBytes
       /\ q.mode = "minimum" => Cardinality(Mine(n)) <= q.min
  BY <1>5, <1>7 DEF LegalRequirement, Orderly
<1>14. \A w : Stopped(n, w) => Proven(compiled, n, view, w)
  BY <1>7, StoppedIsProven
<1> HIDE DEF said, gone, keys, items, view, q
<1>15. Disposed(compiled, n)
  <2>1. CASE said # {}
    <3>1. Reported(compiled, n, {"missing", "budget", "conflict"}) # {}
      BY <2>1 DEF Reported, said
    <3> QED BY <3>1 DEF Disposed
  <2>2. CASE said = {}
    <3>1. q.required => Cardinality(Mine(n)) >= 1
      BY <1>6, <1>11, <1>12, <1>13, <2>2
    <3>2. q.required => Mine(n) # {}
      BY <3>1, FS_EmptySet
    <3> QED BY <1>1, <3>2 DEF Disposed, items, q
  <2> QED BY <2>1, <2>2
<1>16. WithinBounds(compiled, n, view)
  <2> DEFINE missing == UNION {u.details.missing : u \in said}
  <2>1. said = {} /\ q.required => Met(n)
    BY <1>12
  <2>2. said # {} => missing = Lacking(n)
    BY <1>12
  <2>3. q.required => \/ Cardinality(items) + Cardinality(gone \ keys) >= q.min
                      \/ said # {}
    BY <1>1, <1>6, <1>10, <1>11, <2>1
  <2>4. q.required /\ q.mode = "semantic_keys" => q.keys \subseteq keys \cup gone \cup missing
    BY <1>9, <1>11, <2>1, <2>2
  <2> HIDE DEF missing
  <2> QED BY <1>1, <1>13, <2>3, <2>4 DEF WithinBounds, said, gone, keys, items, view, q, missing
<1>17. Covered(compiled, n, view)
  <2> DEFINE expected == IF q.min < Cardinality(view.eligible) THEN q.min
                         ELSE Cardinality(view.eligible)
             reachable == {x.key : x \in view.eligible} \cap q.keys
  <2>1. Truncated(compiled, n, view) \/ Exhausted(n) \/ (q.mode = "semantic_keys" /\ Met(n))
    <3>1. ASSUME NEW u \in said, u.reason = "budget", Stopped(n, u.details.witness)
          PROVE  Truncated(compiled, n, view)
      <4>1. u \in Reported(compiled, n, {"budget"})
        BY <3>1 DEF Reported, said
      <4> QED BY <1>14, <3>1, <4>1 DEF Truncated
    <3> QED BY <1>12, <3>1
  <2>2. Cardinality(Mine(n)) <= Cardinality(view.eligible)
        /\ (Mine(n) = view.eligible => Cardinality(Mine(n)) = Cardinality(view.eligible))
    BY <1>6, <1>8, FS_Subset
  <2>3. CASE q.mode = "all_eligible"
    <3>1. Requested(n) = view.eligible
      BY <2>3 DEF Requested, Wanted, view, q
    <3>2. Exhausted(n) => view.eligible \subseteq items
      BY <1>1, <1>8, <2>3, <3>1 DEF Exhausted, q
    <3> QED BY <1>1, <1>8, <2>1, <2>3, <3>2 DEF Covered, items, q, view
  <2>4. CASE q.mode = "minimum"
    <3>1. Requested(n) = view.eligible
      BY <2>4 DEF Requested, Wanted, view, q
    <3>2. Cardinality(items) <= expected
      BY <1>1, <1>6, <1>13, <2>2, <2>4
    <3>3. Exhausted(n) => Cardinality(items) >= expected
      <4>1. Left(n) = {} => Mine(n) = view.eligible
        BY <1>8, <3>1
      <4>2. Exhausted(n) => Left(n) = {} \/ Cardinality(Mine(n)) >= q.min
        BY DEF Exhausted, q
      <4> QED BY <1>1, <1>6, <2>2, <4>1, <4>2
    <3> QED BY <1>1, <1>8, <2>1, <2>4, <3>2, <3>3 DEF Covered, items, q, view
  <2>5. CASE q.mode = "semantic_keys"
    <3>1. keys \subseteq q.keys
      BY <1>4, <1>8, <2>5 DEF KeysOf, Wanted, q
    <3>2. Exhausted(n) => reachable \subseteq keys
      BY <1>4, <1>8, <2>5 DEF Exhausted, Requested, Wanted, KeysOf, view, q
    <3>3. Met(n) => reachable \subseteq keys \cup gone
      BY <1>9, <1>11, <2>5
    <3>4. reachable \subseteq keys \cup gone \/ Truncated(compiled, n, view)
      BY <2>1, <3>2, <3>3
    <3> QED BY <1>1, <1>8, <2>5, <3>1, <3>4 DEF Covered, items, keys, gone, q, view
  <2> QED BY <1>13, <2>3, <2>4, <2>5 DEF CoverageModes
<1> QED BY <1>2, <1>15, <1>16, <1>17 DEF view

\* A selected item is bound, and each requirement it is bound to may see it.
LEMMA SelectedIsBound ==
  ASSUME IInv, Ledger, pc = "done", NEW x \in Selected
  PROVE  /\ x \in snapshot /\ x.id \in DOMAIN chosen /\ chosen[x.id] # {}
         /\ \A n \in chosen[x.id] : /\ n \in DOMAIN plan /\ x \in Mine(n)
                                    /\ x \in View(plan[n]).eligible
                                    /\ MatchesRequirement(plan[n], x)
<1>1. x \in snapshot /\ x.id \in DOMAIN chosen
  BY DEF Selected
<1>2. BoundAreEligible /\ FromInput
  BY AllServed
<1>3. chosen[x.id] # {}
  BY <1>1, <1>2 DEF BoundAreEligible
<1>4. ASSUME NEW n \in chosen[x.id]
      PROVE  /\ n \in DOMAIN plan /\ x \in Mine(n)
             /\ x \in View(plan[n]).eligible
             /\ MatchesRequirement(plan[n], x)
  <2>1. n \in DOMAIN plan /\ x \in View(plan[n]).eligible
    BY <1>1, <1>2 DEF BoundAreEligible
  <2>2. View(plan[n]).eligible \subseteq {y \in snapshot : MatchesRequirement(plan[n], y)}
    BY <1>2, ViewOf
  <2> QED BY <1>1, <2>1, <2>2 DEF Mine
<1> QED BY <1>1, <1>3, <1>4

\* In a planner's plan, a requirement is the planner's own or stands for a need.
LEMMA PlannedByKind ==
  ASSUME FromInput, plan = RequirementPlan(task, snapshot), NEW n \in DOMAIN plan
  PROVE  /\ plan[n].coordinate = None
         /\ \/ /\ plan[n].kind = "capability" => plan[n].refs = {}
               /\ plan[n].kind \in {"repository", "capability"} => plan[n].floor = 1
            \/ \E m \in task.needs :
                 /\ LegalNeed(m) /\ plan[n].kind = m.kind /\ plan[n].floor = Floor(m)
                 /\ m.kind # "memory" => plan[n].refs = EligibleRefs(task)
<1>1. \/ \E j \in DOMAIN Ladder : plan[n] = Baseline(task, snapshot, Ladder[j])
      \/ \E m \in task.needs : plan[n] = KernelRequirement(task, Signature(m))
  BY PlannedRequirements
<1>2. CASE \E j \in DOMAIN Ladder : plan[n] = Baseline(task, snapshot, Ladder[j])
  <2>1. PICK j \in DOMAIN Ladder : plan[n] = Baseline(task, snapshot, Ladder[j])
    BY <1>2
  <2> DEFINE k == Ladder[j]
  <2>2. plan[n] = Baseline(task, snapshot, k)
    BY <2>1
  <2> HIDE DEF k
  <2>3. /\ plan[n].kind = k /\ plan[n].coordinate = None
        /\ plan[n].refs = GoverningScope(task, k)
    BY <2>2 DEF Baseline
  <2>4. k \in {"repository", "capability"} => plan[n].floor = 1
    BY <2>2 DEF Baseline, GovernedOnlyKinds
  <2> QED BY <2>3, <2>4 DEF GoverningScope, ScopedKinds
<1>3. CASE \E m \in task.needs : plan[n] = KernelRequirement(task, Signature(m))
  <2>1. PICK m \in task.needs : plan[n] = KernelRequirement(task, Signature(m))
    BY <1>3
  <2>2. LegalNeed(m)
    BY PlannedRequirements
  <2>3. /\ plan[n].kind = m.kind /\ plan[n].floor = Floor(m) /\ plan[n].coordinate = None
        /\ m.kind # "memory" => plan[n].refs = EligibleRefs(task)
    BY <2>1 DEF KernelRequirement, Signature
  <2> QED BY <2>2, <2>3
<1> QED BY <1>1, <1>2, <1>3

\* An unverified repository fact is there because a requirement asked for it.
LEMMA UnverifiedOnRequest ==
  ASSUME IInv, Ledger, pc = "done", ~ NoUnverifiedState(compiled)
  PROVE  UnverifiedWasAsked
<1>1. PICK x \in Selected : x.kind = "repository" /\ x.rank = 3
  BY AllSettled DEF NoUnverifiedState
<1>2. PICK n \in chosen[x.id] : TRUE
  BY SelectedIsBound
<1>3. n \in DOMAIN plan /\ x \in Mine(n) /\ plan[n].kind = "repository" /\ 3 <= plan[n].floor
  BY <1>1, SelectedIsBound DEF MatchesRequirement
<1>4. x \in Bound(compiled, n)
  BY <1>3, AllSettled
<1>5. ASSUME plan = RequirementPlan(task, snapshot)
      PROVE  \E m \in task.needs : m.kind = "repository" /\ m.floor = 3
  <2>1. plan[n].floor # 1
    BY <1>3
  <2>2. PICK m \in task.needs : LegalNeed(m) /\ plan[n].kind = m.kind /\ plan[n].floor = Floor(m)
    BY <1>3, <1>5, <2>1, PlannedByKind, AllServed
  <2>3. m.kind = "repository" /\ Floor(m) = m.floor /\ m.floor \in 0 .. 3
    BY <1>3, <2>2 DEF Floor, LegalNeed, GovernedOnlyKinds
  <2> QED BY <1>3, <2>2, <2>3
<1> QED BY <1>1, <1>3, <1>4, <1>5 DEF UnverifiedWasAsked

\* Facts that contradict each other about one capability, the second no weaker, were
\* let in by requirements of which the first could not see the second.
LEMMA RivalsAreApart ==
  ASSUME IInv, Ledger, pc = "done", NEW x \in Selected, NEW y \in Selected,
         x.kind = "capability", y.kind = "capability", y.key = x.key, y.state # x.state,
         NEW n \in chosen[x.id], y.rank <= x.rank
  PROVE  ~ MatchesRequirement(plan[n], y)
<1> SUFFICES ASSUME MatchesRequirement(plan[n], y) PROVE FALSE
  OBVIOUS
<1> DEFINE seen == {z \in snapshot : MatchesRequirement(plan[n], z)}
<1>1. View(plan[n]) = Resolve(seen) /\ Sound(seen) /\ IsFiniteSet(seen)
  <2>1. FromInput /\ seen \in SUBSET snapshot
    BY AllServed
  <2>2. View(plan[n]) = Resolve(seen)
    BY DEF View
  <2> HIDE DEF seen
  <2> QED BY <2>1, <2>2, SnapshotIsSound
<1>2. x \in Resolve(seen).eligible /\ y \in seen
  BY <1>1, SelectedIsBound
<1>3. x.kind \in PlainKinds
  BY DEF PlainKinds
<1> HIDE DEF seen
<1> QED BY <1>1, <1>2, <1>3, RivalsAgree

\* A selection that says two things of one capability is the case that is named.
LEMMA ContradictionIsTorn ==
  ASSUME IInv, Ledger, pc = "done", Contradictory(Items(compiled)) # {}
  PROVE  CapabilityIsTorn
<1>1. FromInput
  BY AllServed
<1>2. PICK x \in Selected, y \in Selected :
        /\ x.kind = "capability" /\ y.kind = "capability" /\ x.names = y.names
        /\ x.state # y.state
  <2>1. Contradictory(Selected) # {}
    BY AllSettled
  <2>2. PICK c : /\ c \in {x.names : x \in Facts(Selected, "capability", "available")}
                 /\ c \in {x.names : x \in Facts(Selected, "capability", "unavailable")}
    BY <2>1 DEF Contradictory
  <2> QED BY <2>2 DEF Facts
<1>3. \A a, b \in Selected : /\ a.kind = "capability" /\ b.kind = "capability"
                             => ((a.key = b.key) = (a.names = b.names))
  BY <1>1, SnapshotsAssumption DEF FromInput, Selected
<1>4. \A a \in Selected : a.rank \in Nat
  <2>1. Sound(snapshot)
    BY <1>1, SnapshotIsSound
  <2> QED BY <2>1 DEF Sound, Selected
<1>5. PICK a \in Selected, b \in Selected :
        /\ a.kind = "capability" /\ b.kind = "capability" /\ b.key = a.key
        /\ b.state # a.state /\ b.rank <= a.rank
  <2>1. x.key = y.key
    BY <1>2, <1>3
  <2>2. x.rank <= y.rank \/ y.rank <= x.rank
    BY <1>4
  <2> QED BY <1>2, <2>1, <2>2
<1>6. PICK m \in chosen[a.id] : TRUE
  BY SelectedIsBound
<1>7. PICK n \in chosen[b.id] : TRUE
  BY SelectedIsBound
<1>8. /\ m \in DOMAIN plan /\ a \in Bound(compiled, m) /\ MatchesRequirement(plan[m], a)
      /\ n \in DOMAIN plan /\ b \in Bound(compiled, n) /\ MatchesRequirement(plan[n], b)
  BY <1>6, <1>7, SelectedIsBound, AllSettled
<1>9. ~ MatchesRequirement(plan[m], b)
  BY <1>5, <1>6, RivalsAreApart
<1>10. plan[m].kind = "capability" /\ plan[n].kind = "capability"
  BY <1>5, <1>8 DEF MatchesRequirement
<1>11. ASSUME plan = RequirementPlan(task, snapshot)
       PROVE  /\ \E need \in task.needs : need.kind = "capability"
              /\ a.refs = {} /\ b.rank < a.rank /\ b.refs \cap EligibleRefs(task) # {}
  <2>1. /\ plan[m].coordinate = None /\ plan[n].coordinate = None
        /\ plan[m].refs \in {{}, EligibleRefs(task)}
        /\ plan[n].refs \in {{}, EligibleRefs(task)}
        /\ plan[n].refs # {} => \E need \in task.needs : need.kind = "capability"
    BY <1>1, <1>8, <1>10, <1>11, PlannedByKind
  <2>2. "capability" \in GovernedOnlyKinds /\ "capability" \in GloballyApplicableKinds
    BY DEF GovernedOnlyKinds, GloballyApplicableKinds
  <2>3. a.rank <= plan[m].floor /\ b.rank <= plan[n].floor /\ b.rank \in GovernedRanks
    BY <1>5, <1>8, <2>2 DEF MatchesRequirement
  <2>4. b.rank <= plan[m].floor
    <3>1. plan[m].floor \in Nat
      BY <1>1, <1>8, <1>10, <1>11, PlannedByKind DEF LegalNeed, Floor
    <3> QED BY <1>4, <1>5, <2>3, <3>1
  <2>5. /\ plan[m].refs = {} => b.refs # {}
        /\ plan[m].refs # {} => b.refs # {} /\ b.refs \cap plan[m].refs = {}
    BY <1>5, <1>9, <1>10, <2>1, <2>2, <2>3, <2>4 DEF MatchesRequirement
  <2>6. plan[n].refs # {} /\ b.refs \cap plan[n].refs # {}
    BY <1>8, <2>1, <2>5 DEF MatchesRequirement
  <2>7. plan[m].refs = {}
    BY <2>1, <2>5, <2>6
  <2>8. a.refs = {}
    BY <1>8, <2>7 DEF MatchesRequirement
  <2>9. b.rank # a.rank
    <3> SUFFICES ASSUME b.rank = a.rank PROVE FALSE
      OBVIOUS
    <3>1. MatchesRequirement(plan[n], a)
      BY <1>5, <1>10, <2>1, <2>2, <2>3, <2>8 DEF MatchesRequirement
    <3>2. ~ MatchesRequirement(plan[n], a)
      BY <1>4, <1>5, <1>7, RivalsAreApart
    <3> QED BY <3>1, <3>2
  <2>10. b.rank < a.rank
    BY <1>4, <1>5, <2>9
  <2> QED BY <2>1, <2>6, <2>8, <2>10
<1>12. /\ \E k, l \in DOMAIN plan : \E u \in Bound(compiled, k), v \in Bound(compiled, l) :
            /\ plan[k].kind = "capability" /\ v.key = u.key /\ v.state # u.state
            /\ ~ MatchesRequirement(plan[k], v)
  BY <1>5, <1>8, <1>9, <1>10
<1> QED BY <1>5, <1>11, <1>12 DEF CapabilityIsTorn

\* The checks closure makes of the context as a whole.
LEMMA WholeIsClosed ==
  ASSUME IInv, Ledger, pc = "done"
  PROVE  /\ Planned(compiled) /\ MemoryEnriches(compiled)
         /\ WithinBudget(compiled) /\ UnknownsBound(compiled)
         /\ Contradictory(Items(compiled)) = {} => GapsExplicit(compiled)
<1>1. /\ Items(compiled) = Selected /\ compiled.unknowns = unknowns /\ compiled.chosen = chosen
      /\ Totals /\ \A u \in unknowns : Shaped(u)
  BY AllSettled
<1>2. FromInput /\ BoundAreEligible /\ Said
  BY AllServed
<1>3. Planned(compiled)
  <2> SUFFICES ASSUME NEW i \in DOMAIN chosen
               PROVE  chosen[i] # {} /\ chosen[i] \subseteq DOMAIN plan
    BY <1>1 DEF Planned
  <2>1. PICK x \in Selected : x.id = i
    BY <1>1 DEF Totals
  <2> QED BY <2>1, SelectedIsBound
<1>4. MemoryEnriches(compiled)
  <2> SUFFICES ASSUME NEW x \in Selected, x.kind = "memory"
               PROVE  /\ \A n \in chosen[x.id] : plan[n].kind = "memory"
                      /\ x.rank \notin GovernedRanks
    BY <1>1 DEF MemoryEnriches
  <2>1. \A n \in chosen[x.id] : plan[n].kind = "memory"
    BY SelectedIsBound DEF MatchesRequirement
  <2>2. x.rank \notin GovernedRanks
    BY <1>2, SnapshotsAssumption DEF FromInput, Selected
  <2> QED BY <2>1, <2>2
<1>5. WithinBudget(compiled)
  BY <1>1 DEF WithinBudget, Totals
<1>6. UnknownsBound(compiled)
  <2> SUFFICES ASSUME NEW u \in unknowns, u.requirement # None
               PROVE  /\ u.requirement \in DOMAIN plan
                      /\ plan[u.requirement].required => plan[u.requirement].policy # "optional"
    BY <1>1 DEF UnknownsBound
  <2>1. u.requirement \in DOMAIN plan
    BY <1>1 DEF Shaped
  <2>2. LegalRequirement(plan[u.requirement])
    BY <2>1, WorkedWith
  <2> QED BY <2>1, <2>2 DEF LegalRequirement
<1>7. ASSUME Contradictory(Items(compiled)) = {} PROVE GapsExplicit(compiled)
  <2>1. ASSUME NEW c \in RequiredCapabilities(task, material),
               CapabilityDisposition(c, Selected) # "available"
        PROVE  \E u \in unknowns : u.reason = "capability" /\ u.details.about = c
    <3> DEFINE u == Gap("capability", c, CapabilityDisposition(c, Selected), {"unavailable"})
    <3>1. u \in CapabilityUnknowns(task, material, Selected)
      BY <2>1 DEF CapabilityUnknowns
    <3>2. u.reason = "capability" /\ u.details.about = c
      BY DEF Gap, Free
    <3> HIDE DEF u
    <3> QED BY <1>2, <3>1, <3>2 DEF Said
  <2>2. ASSUME NEW q \in RequiredAuthorities(task, material, Selected),
               AuthorityDisposition(q, Selected) # "granted"
        PROVE  \E u \in unknowns : u.reason = "authority" /\ u.details.about = q
    <3> DEFINE u == Gap("authority", q, AuthorityDisposition(q, Selected),
                        {"limited_without_grant", "insufficient_scope"})
    <3>1. u \in AuthorityUnknowns(task, material, Selected)
      BY <2>2 DEF AuthorityUnknowns
    <3>2. u.reason = "authority" /\ u.details.about = q
      BY DEF Gap, Free
    <3> HIDE DEF u
    <3> QED BY <1>2, <3>1, <3>2 DEF Said
  <2>3. compiled.authorities = RequiredAuthorities(task, material, Selected)
    BY DEF compiled
  <2> QED BY <1>1, <1>7, <2>1, <2>2, <2>3 DEF GapsExplicit
<1> QED BY <1>3, <1>4, <1>5, <1>6, <1>7

\* What compile produces, ContextClosureValidator.validate accepts, whatever the
\* snapshot, the task, the plan and the budget, but for the two cases named.
THEOREM CompiledContextCloses == Spec => []CompiledContextIsClosed
<1>1. ASSUME IInv, Ledger PROVE CompiledContextIsClosed
  <2> SUFFICES ASSUME pc = "done", ~ UnverifiedWasAsked, ~ CapabilityIsTorn
               PROVE  Accepts(compiled)
    BY DEF CompiledContextIsClosed
  <2>1. NoUnverifiedState(compiled)
    BY <1>1, UnverifiedOnRequest
  <2>2. GapsExplicit(compiled)
    BY <1>1, ContradictionIsTorn, WholeIsClosed
  <2>3. \A n \in DOMAIN plan :
          /\ Disposed(compiled, n)
          /\ ConflictsVisible(compiled, n, View(plan[n]))
          /\ WithinBounds(compiled, n, View(plan[n]))
          /\ Covered(compiled, n, View(plan[n]))
    BY <1>1, RequirementIsClosed
  <2> QED BY <1>1, <2>1, <2>2, <2>3, WholeIsClosed DEF Accepts
<1> QED BY <1>1, Invariance, BooksBalance, PTL

-----------------------------------------------------------------------------
(* What closure makes of a context that is not what the compiler made. *)

\* The record of what a requirement is short of is one.
LEMMA OneShortfall ==
  ASSUME IInv, Ledger, pc = "done", NEW u \in unknowns, u.reason \in {"missing", "budget"}
  PROVE  /\ u.requirement \in DOMAIN plan /\ Shortfalls(u.requirement) = {u}
         /\ u.blocking = plan[u.requirement].required
         /\ u.reason = "missing" => ~ Met(u.requirement)
         /\ u.reason = "budget" => Stopped(u.requirement, u.details.witness)
<1>1. Shaped(u) /\ \A n \in DOMAIN plan : Settled(n)
  BY AllSettled
<1>2. u.requirement \in DOMAIN plan /\ Settled(u.requirement)
  BY <1>1 DEF Shaped, Unknown
<1>3. u \in Shortfalls(u.requirement)
  BY DEF Shortfalls
<1>4. PICK v \in Shortfalls(u.requirement) :
        /\ Shortfalls(u.requirement) = {v}
        /\ v.blocking = plan[u.requirement].required
        /\ IF v.reason = "missing" THEN Exhausted(u.requirement) /\ ~ Met(u.requirement)
           ELSE Stopped(u.requirement, v.details.witness)
  BY <1>2, <1>3 DEF Settled
<1>5. v = u
  BY <1>3, <1>4
<1> QED BY <1>2, <1>4, <1>5

\* A requirement that did not get all it asked for is covered only by a proven stop.
LEMMA ShortIsNotCovered ==
  ASSUME IInv, pc = "done", NEW n \in DOMAIN plan, plan[n].mode # "semantic_keys",
         NEW ctx, NEW S \in SUBSET snapshot, Bound(ctx, n) = S,
         NEW x \in View(plan[n]).eligible, x \notin S, S \subseteq View(plan[n]).eligible,
         plan[n].mode = "minimum" => Cardinality(S) < plan[n].min,
         \A u \in Reported(ctx, n, {"budget"}) : ~ Proven(ctx, n, View(plan[n]), u.details.witness)
  PROVE  ~ Accepts(ctx)
<1> DEFINE E == View(plan[n]).eligible
<1>1. E \in SUBSET snapshot /\ plan[n].mode \in CoverageModes /\ plan[n].min \in Nat
  BY WorkedWith DEF LegalRequirement
<1>2. ~ Truncated(ctx, n, View(plan[n]))
  BY DEF Truncated
<1>3. Cardinality(S) < Cardinality(E) /\ Cardinality(S) \in Nat /\ Cardinality(E) \in Nat
  <2>1. IsFiniteSet(E) /\ Cardinality(E) \in Nat /\ Cardinality(S) \in Nat
    BY <1>1, PartsAreMeasured
  <2>2. S \in SUBSET E /\ S # E
    OBVIOUS
  <2> HIDE DEF E
  <2>3. Cardinality(S) <= Cardinality(E) /\ (Cardinality(S) = Cardinality(E) => S = E)
    BY <2>1, <2>2, FS_Subset
  <2> QED BY <2>1, <2>2, <2>3
<1>4. ~ Covered(ctx, n, View(plan[n]))
  <2>1. CASE plan[n].mode = "all_eligible"
    BY <1>2, <2>1 DEF Covered
  <2>2. CASE plan[n].mode = "minimum"
    <3> DEFINE expected == IF plan[n].min < Cardinality(E) THEN plan[n].min ELSE Cardinality(E)
    <3>1. ~ (Cardinality(S) >= expected)
      BY <1>1, <1>3, <2>2
    <3> QED BY <1>2, <2>2, <3>1 DEF Covered
  <2> QED BY <1>1, <2>1, <2>2 DEF CoverageModes
<1> QED BY <1>4 DEF Accepts

\* Without the item it selected, a requirement has not reached any bound.
LEMMA NotReached ==
  ASSUME IInv, Ledger, pc = "done", NEW n \in DOMAIN plan, NEW x \in Mine(n),
         NEW shared \in SUBSET Selected, NEW w, w.bound \in Range(Bounds)
  PROVE  ~ Reached(plan[n], w, x, Mine(n) \ {x}, shared)
<1> DEFINE q == plan[n]
           rest == Mine(n) \ {x}
<1>1. /\ Orderly(n) /\ Totals /\ LegalRequirement(q)
      /\ Mine(n) \subseteq Selected /\ Selected \subseteq snapshot
      /\ budget.items \in Nat /\ budget.bytes \in Nat /\ x.cost \in Nat
  BY AllSettled, WorkedWith DEF Settled
<1>2. ASSUME NEW S \in SUBSET snapshot, x \notin S, NEW T \in SUBSET snapshot, S \cup {x} \subseteq T
      PROVE  /\ Cardinality(S) + 1 <= Cardinality(T) /\ CostOf(S) + x.cost <= CostOf(T)
  <2>1. /\ IsFiniteSet(S) /\ IsFiniteSet(T)
        /\ \A y \in T : y.cost \in Nat
    BY PartsAreMeasured, WorkedWith
  <2>2. IsFiniteSet(S \cup {x}) /\ Cardinality(S \cup {x}) = Cardinality(S) + 1
    BY <1>2, <2>1, FS_AddElement
  <2>3. CostOf(S \cup {x}) = CostOf(S) + x.cost
    BY <1>1, <1>2, <2>1, CostAdds
  <2>4. S \cup {x} \in SUBSET T
    BY <1>2
  <2>5. Cardinality(S \cup {x}) <= Cardinality(T)
    BY <2>1, <2>4, FS_Subset
  <2>6. CostOf(S \cup {x}) <= CostOf(T)
    BY <2>1, <2>4, CostOfPart
  <2> QED BY <2>2, <2>3, <2>5, <2>6
<1>3. Cardinality(rest) + 1 <= Cardinality(Mine(n)) /\ CostOf(rest) + x.cost <= CostOf(Mine(n))
  <2>1. rest \in SUBSET snapshot /\ x \notin rest /\ Mine(n) \in SUBSET snapshot
        /\ rest \cup {x} \subseteq Mine(n)
    BY <1>1
  <2> HIDE DEF rest
  <2> QED BY <1>2, <2>1
<1>4. /\ Cardinality(rest) \in Nat /\ CostOf(rest) \in Nat
      /\ Cardinality(Mine(n)) \in Nat /\ CostOf(Mine(n)) \in Nat
      /\ Cardinality(shared) \in Nat /\ CostOf(shared) \in Nat
      /\ Cardinality(Selected) \in Nat /\ CostOf(Selected) \in Nat
  <2>1. rest \in SUBSET snapshot /\ Mine(n) \in SUBSET snapshot /\ shared \in SUBSET snapshot
        /\ Selected \in SUBSET snapshot
    BY <1>1
  <2> HIDE DEF rest
  <2> QED BY <2>1, PartsAreMeasured
<1>5. x \notin shared =>
        /\ Cardinality(shared) + 1 <= Cardinality(Selected)
        /\ CostOf(shared) + x.cost <= CostOf(Selected)
  BY <1>1, <1>2
<1>6. w.bound \in {"requirement_max_items", "requirement_max_bytes",
                   "global_max_items", "global_max_bytes"}
  BY DEF Range, Bounds
<1>7. /\ q.maxItems # None => q.maxItems \in Nat /\ Cardinality(Mine(n)) <= q.maxItems
      /\ q.maxBytes # None => q.maxBytes \in Nat /\ CostOf(Mine(n)) <= q.maxBytes
  BY <1>1 DEF LegalRequirement, Orderly
<1>8. /\ Cardinality(Selected) <= budget.items
      /\ CostOf(Selected) <= budget.bytes
  BY <1>1 DEF Totals
<1> HIDE DEF q, rest
<1>9. CASE w.bound = "requirement_max_items"
  BY <1>3, <1>4, <1>7, <1>9 DEF Reached, q, rest
<1>10. CASE w.bound = "requirement_max_bytes"
  BY <1>1, <1>3, <1>4, <1>7, <1>10 DEF Reached, q, rest
<1>11. CASE w.bound = "global_max_items"
  BY <1>1, <1>4, <1>5, <1>8, <1>11 DEF Reached
<1>12. CASE w.bound = "global_max_bytes"
  BY <1>1, <1>4, <1>5, <1>8, <1>12 DEF Reached
<1> QED BY <1>6, <1>9, <1>10, <1>11, <1>12

\* No record makes a bound of what the item in fact got past.
LEMMA NoExcuse ==
  ASSUME IInv, Ledger, pc = "done", NEW n \in DOMAIN plan, NEW x \in Mine(n),
         NEW ctx, Items(ctx) \subseteq Selected, Bound(ctx, n) = Mine(n) \ {x},
         NEW w, w.bound \in Range(Bounds)
  PROVE  ~ Proven(ctx, n, View(plan[n]), w)
<1> DEFINE F == Frontier(plan[n], View(plan[n]))
           rest == Mine(n) \ {x}
<1>1. /\ FromInput /\ Orderly(n) /\ Mine(n) \subseteq Selected /\ Selected \subseteq snapshot
      /\ Requested(n) \subseteq snapshot
  BY AllSettled, WorkedWith DEF Settled, Requested
<1>2. Mine(n) \subseteq F /\ F \subseteq Requested(n)
  BY <1>1, FrontierHolds
<1> HIDE DEF F
<1>3. FirstOf(F \ rest) = x
  <2>1. \A y \in (F \ rest) \ {x} : y \in Left(n)
    BY <1>2 DEF Left
  <2>2. Leads(x, F \ rest)
    BY <1>1, <1>2, <2>1 DEF Leads, Orderly
  <2>3. F \ rest \in SUBSET snapshot
    BY <1>1, <1>2
  <2> QED BY <1>1, <2>2, <2>3, LeaderIsFirst
<1>4. F \cap rest = rest
  BY <1>2
<1>5. AtStop(ctx, n, rest) \in SUBSET Selected
  BY <1>1 DEF AtStop
<1>6. ~ Reached(plan[n], w, x, rest, AtStop(ctx, n, rest))
  BY <1>5, NotReached
<1> QED BY <1>3, <1>4, <1>6 DEF Proven, F

\* The context of a selector that failed to bind one item to one requirement.
LEMMA OneBindingLess ==
  ASSUME IInv, Ledger, pc = "done", NEW x \in Selected, NEW n \in chosen[x.id]
  PROVE  LET ctx == WithoutBinding(x.id, n) IN
         /\ Items(ctx) \subseteq Selected
         /\ Bound(ctx, n) = Mine(n) \ {x}
         /\ ctx.unknowns = unknowns
<1> DEFINE ctx == WithoutBinding(x.id, n)
           left == [j \in DOMAIN chosen |-> IF j = x.id THEN chosen[j] \ {n} ELSE chosen[j]]
           kept == {j \in DOMAIN chosen : left[j] # {}}
<1>1. /\ ctx.unknowns = unknowns
      /\ ctx.chosen = [j \in kept |-> left[j]]
  BY DEF WithoutBinding, compiled, Restrict
<1>2. Items(ctx) = {y \in snapshot : y.id \in kept}
  BY <1>1 DEF Items
<1>3. \A y \in snapshot : y.id = x.id => y = x
  BY WorkedWith
<1>4. Items(ctx) \subseteq Selected
  BY <1>2 DEF Selected
<1>5. ASSUME NEW y \in snapshot
      PROVE  y.id \in kept /\ n \in ctx.chosen[y.id] <=> y \in Mine(n) /\ y # x
  <2>1. y.id \in kept => ctx.chosen[y.id] = left[y.id]
    BY <1>1
  <2>2. y.id \in DOMAIN chosen =>
          left[y.id] = IF y = x THEN chosen[y.id] \ {n} ELSE chosen[y.id]
    BY <1>3
  <2>3. y \in Mine(n) <=> y.id \in DOMAIN chosen /\ n \in chosen[y.id]
    BY DEF Mine
  <2>4. y.id \in kept <=> y.id \in DOMAIN chosen /\ left[y.id] # {}
    OBVIOUS
  <2> HIDE DEF ctx, kept, left
  <2> QED BY <2>1, <2>2, <2>3, <2>4
<1>6. Bound(ctx, n) = {y \in snapshot : y.id \in kept /\ n \in ctx.chosen[y.id]}
  BY <1>2 DEF Bound
<1>7. Mine(n) \subseteq snapshot
  BY DEF Mine
<1> HIDE DEF ctx, kept, left
<1>8. Bound(ctx, n) = Mine(n) \ {x}
  BY <1>5, <1>6, <1>7
<1> QED BY <1>1, <1>4, <1>8 DEF ctx

\* A context in which one selected item is not bound to one requirement that asked
\* for it is refused, whatever records of budget stops it carries.
LEMMA DroppedIsRefused ==
  ASSUME IInv, Ledger, pc = "done", NEW n \in DOMAIN plan, plan[n].mode # "semantic_keys",
         NEW x \in Mine(n), NEW ctx, Items(ctx) \subseteq Selected, Bound(ctx, n) = Mine(n) \ {x},
         \A u \in Reported(ctx, n, {"budget"}) : u.details.witness.bound \in Range(Bounds)
  PROVE  ~ Accepts(ctx)
<1> DEFINE rest == Mine(n) \ {x}
<1>1. /\ Orderly(n) /\ LegalRequirement(plan[n])
      /\ Mine(n) \subseteq Selected /\ Selected \subseteq snapshot
  BY AllSettled, WorkedWith DEF Settled
<1>2. Mine(n) \subseteq View(plan[n]).eligible
  BY <1>1 DEF Orderly, Requested
<1>3. plan[n].mode = "minimum" => Cardinality(rest) < plan[n].min
  <2>1. Mine(n) \in SUBSET snapshot
    BY <1>1
  <2>2. IsFiniteSet(Mine(n)) /\ Cardinality(Mine(n)) \in Nat
    BY <2>1, PartsAreMeasured
  <2>3. Cardinality(rest) = Cardinality(Mine(n)) - 1
    BY <2>2, FS_RemoveElement
  <2>4. plan[n].min \in Nat
    BY <1>1 DEF LegalRequirement
  <2>5. plan[n].mode = "minimum" => Cardinality(Mine(n)) <= plan[n].min
    BY <1>1 DEF Orderly
  <2> HIDE DEF rest
  <2> QED BY <2>2, <2>3, <2>4, <2>5
<1>4. \A u \in Reported(ctx, n, {"budget"}) : ~ Proven(ctx, n, View(plan[n]), u.details.witness)
  BY NoExcuse
<1>5. rest \in SUBSET snapshot /\ x \notin rest /\ rest \subseteq View(plan[n]).eligible
      /\ x \in View(plan[n]).eligible /\ Bound(ctx, n) = rest
  BY <1>1, <1>2
<1> HIDE DEF rest
<1> QED BY <1>3, <1>4, <1>5, ShortIsNotCovered

\* An eligible item that the selector fails to take does not go unnoticed, and no
\* record of a budget stop excuses it.
THEOREM DropsAreNoticed == Spec => []DroppedItemIsNoticed
<1>1. ASSUME IInv, Ledger PROVE DroppedItemIsNoticed
  <2> SUFFICES ASSUME pc = "done", NEW i \in DOMAIN chosen, NEW n \in chosen[i],
                      plan[n].mode # "semantic_keys"
               PROVE  LET ctx == WithoutBinding(i, n) IN
                      /\ ~ Accepts(ctx)
                      /\ \A k \in DOMAIN Bounds : ~ Accepts(WithExcuse(ctx, n, Bounds[k]))
    BY DEF DroppedItemIsNoticed
  <2> DEFINE ctx == WithoutBinding(i, n)
  <2>1. PICK x \in Selected : x.id = i
    BY <1>1, AllSettled DEF Totals
  <2>2. n \in DOMAIN plan /\ x \in Mine(n)
    BY <1>1, <2>1, SelectedIsBound
  <2>3. Items(ctx) \subseteq Selected /\ Bound(ctx, n) = Mine(n) \ {x} /\ ctx.unknowns = unknowns
    BY <1>1, <2>1, OneBindingLess
  <2> HIDE DEF ctx
  <2>4. ~ Accepts(ctx)
    <3>1. ASSUME NEW u \in Reported(ctx, n, {"budget"})
          PROVE  u.details.witness.bound \in Range(Bounds)
      <4>1. u \in unknowns /\ u.requirement = n /\ u.reason = "budget"
        BY <2>3, <3>1 DEF Reported
      <4> QED BY <1>1, <4>1, OneShortfall DEF Stopped
    <3> QED BY <1>1, <2>2, <2>3, <3>1, DroppedIsRefused
  <2>5. ASSUME NEW k \in DOMAIN Bounds PROVE ~ Accepts(WithExcuse(ctx, n, Bounds[k]))
    <3> DEFINE excused == WithExcuse(ctx, n, Bounds[k])
               record == Unknown(n, "budget", None,
                                 [missing |-> {}, witness |-> Excuse(ctx, n, Bounds[k])])
    <3>1. record.details.witness.bound = Bounds[k]
      BY DEF Unknown, Excuse
    <3>2. /\ Items(excused) = Items(ctx) /\ Bound(excused, n) = Bound(ctx, n)
          /\ Reported(excused, n, {"budget"}) \subseteq {record}
      <4> HIDE DEF record
      <4>1. ctx = [compiled EXCEPT !.chosen = ctx.chosen]
        BY DEF ctx, WithoutBinding, compiled
      <4>2. excused.chosen = ctx.chosen
            /\ excused.unknowns = (ctx.unknowns \ Reported(ctx, n, {"budget"})) \cup {record}
        BY <4>1 DEF WithExcuse, record, compiled
      <4> HIDE DEF excused
      <4>3. Items(excused) = Items(ctx) /\ Bound(excused, n) = Bound(ctx, n)
        BY <4>2 DEF Items, Bound
      <4>4. Reported(excused, n, {"budget"}) \subseteq {record}
        BY <4>2 DEF Reported
      <4> QED BY <4>3, <4>4
    <3> HIDE DEF excused, record
    <3>3. Bounds[k] \in Range(Bounds)
      BY DEF Range
    <3> QED BY <1>1, <2>2, <2>3, <3>1, <3>2, <3>3, DroppedIsRefused DEF excused
  <2> QED BY <2>4, <2>5 DEF ctx
<1> QED BY <1>1, Invariance, BooksBalance, PTL

\* Without the record of a contradiction it met, a requirement's contradiction shows.
LEMMA HiddenConflict ==
  ASSUME IInv, Ledger, pc = "done", NEW u \in unknowns,
         u.reason = "conflict", u.requirement # None,
         NEW ctx, ctx.unknowns = unknowns \ {u}
  PROVE  ~ Accepts(ctx)
<1> DEFINE n == u.requirement
<1>1. \A v \in unknowns : Shaped(v)
  BY AllSettled
<1>2. n \in DOMAIN plan
  BY <1>1 DEF Shaped
<1>3. ASSUME NEW v \in unknowns, v.requirement = n, v.reason = "conflict"
      PROVE  \E k \in ConflictingKeys(n) : v = Unknown(n, "conflict", k, {}) /\ v.key = k
  <2>1. PICK k \in ConflictingKeys(n) : v = Unknown(n, "conflict", k, {})
    BY <1>1, <1>3 DEF Shaped
  <2> QED BY <2>1 DEF Unknown
<1>4. PICK k \in ConflictingKeys(n) : u = Unknown(n, "conflict", k, {})
  BY <1>3
<1>5. PICK g \in View(plan[n]).conflicts : g[2] = k
  BY DEF ConflictingKeys
<1>6. ASSUME NEW v \in Reported(ctx, n, {"conflict"}) PROVE v.key # k
  <2>1. v \in unknowns /\ v # u /\ v.requirement = n /\ v.reason = "conflict"
    BY <1>6 DEF Reported
  <2>2. v = Unknown(n, "conflict", v.key, {})
    BY <1>3, <2>1
  <2> HIDE DEF n
  <2> QED BY <1>4, <2>1, <2>2
<1>7. ~ ConflictsVisible(ctx, n, View(plan[n]))
  BY <1>5, <1>6 DEF ConflictsVisible
<1> QED BY <1>2, <1>7 DEF Accepts

\* Without the record of a capability or an authority that is not proven, nothing
\* says so.
LEMMA HiddenGap ==
  ASSUME IInv, Ledger, pc = "done", NEW u \in unknowns,
         u.reason \in {"capability", "authority"}
  PROVE  ~ Accepts([compiled EXCEPT !.unknowns = @ \ {u}])
<1> DEFINE ctx == [compiled EXCEPT !.unknowns = @ \ {u}]
<1>1. /\ Items(ctx) = Selected /\ ctx.unknowns = unknowns \ {u}
      /\ ctx.authorities = RequiredAuthorities(task, material, Selected)
  BY DEF Items, Selected, compiled
<1> HIDE DEF ctx
<1>2. \A v \in unknowns :
        /\ v.reason = "capability" => v \in CapabilityUnknowns(task, material, Selected)
        /\ v.reason = "authority" => v \in AuthorityUnknowns(task, material, Selected)
  BY AllSettled DEF Shaped
<1>3. CASE u.reason = "capability"
  <2> DEFINE gap(c) == Gap("capability", c, CapabilityDisposition(c, Selected), {"unavailable"})
  <2>1. ASSUME NEW v \in unknowns, v.reason = "capability"
        PROVE  \E c \in RequiredCapabilities(task, material) :
                 CapabilityDisposition(c, Selected) # "available" /\ v = gap(c) /\ v.details.about = c
    <3>1. PICK c \in RequiredCapabilities(task, material) :
            CapabilityDisposition(c, Selected) # "available" /\ v = gap(c)
      BY <1>2, <2>1 DEF CapabilityUnknowns
    <3>2. gap(c).details.about = c
      BY DEF Gap, Free
    <3> HIDE DEF gap
    <3> QED BY <3>1, <3>2
  <2> HIDE DEF gap
  <2>2. PICK c \in RequiredCapabilities(task, material) :
          CapabilityDisposition(c, Selected) # "available" /\ u = gap(c)
    BY <1>3, <2>1
  <2>3. \A v \in ctx.unknowns : ~ (v.reason = "capability" /\ v.details.about = c)
    BY <1>1, <2>1, <2>2
  <2>4. ~ GapsExplicit(ctx)
    BY <1>1, <2>2, <2>3 DEF GapsExplicit
  <2> QED BY <2>4 DEF Accepts, ctx
<1>4. CASE u.reason = "authority"
  <2> DEFINE gap(q) == Gap("authority", q, AuthorityDisposition(q, Selected),
                           {"limited_without_grant", "insufficient_scope"})
  <2>1. ASSUME NEW v \in unknowns, v.reason = "authority"
        PROVE  \E q \in RequiredAuthorities(task, material, Selected) :
                 AuthorityDisposition(q, Selected) # "granted" /\ v = gap(q) /\ v.details.about = q
    <3>1. PICK q \in RequiredAuthorities(task, material, Selected) :
            AuthorityDisposition(q, Selected) # "granted" /\ v = gap(q)
      BY <1>2, <2>1 DEF AuthorityUnknowns
    <3>2. gap(q).details.about = q
      BY DEF Gap, Free
    <3> HIDE DEF gap
    <3> QED BY <3>1, <3>2
  <2> HIDE DEF gap
  <2>2. PICK q \in RequiredAuthorities(task, material, Selected) :
          AuthorityDisposition(q, Selected) # "granted" /\ u = gap(q)
    BY <1>4, <2>1
  <2>3. \A v \in ctx.unknowns : ~ (v.reason = "authority" /\ v.details.about = q)
    BY <1>1, <2>1, <2>2
  <2>4. ~ GapsExplicit(ctx)
    BY <1>1, <2>2, <2>3 DEF GapsExplicit
  <2> QED BY <2>4 DEF Accepts, ctx
<1> QED BY <1>3, <1>4 DEF ctx

\* Without the record of the bound that stopped it, a requirement that wanted more
\* is not covered.
LEMMA HiddenStop ==
  ASSUME IInv, Ledger, pc = "done", NEW u \in unknowns,
         u.reason = "budget", plan[u.requirement].mode # "semantic_keys",
         NEW ctx, ctx.unknowns = unknowns \ {u}, \A n : Bound(ctx, n) = Mine(n)
  PROVE  ~ Accepts(ctx)
<1> DEFINE n == u.requirement
<1>1. /\ n \in DOMAIN plan /\ Shortfalls(n) = {u} /\ Stopped(n, u.details.witness)
      /\ Orderly(n) /\ Mine(n) \subseteq Selected /\ Selected \subseteq snapshot
  BY OneShortfall, AllSettled, WorkedWith DEF Settled
<1>2. Reported(ctx, n, {"budget"}) = {}
  <2>1. Reported(ctx, n, {"budget"}) \subseteq Shortfalls(n) \ {u}
    BY DEF Reported, Shortfalls
  <2> QED BY <1>1, <2>1
<1>3. PICK x \in Left(n) : TRUE
  BY <1>1 DEF Stopped
<1>4. x \in View(plan[n]).eligible /\ x \notin Mine(n) /\ Mine(n) \subseteq View(plan[n]).eligible
  BY <1>1, <1>3 DEF Left, Orderly, Requested
<1>5. plan[n].mode = "minimum" => Cardinality(Mine(n)) < plan[n].min
  BY <1>1 DEF Stopped
<1>6. Mine(n) \in SUBSET snapshot /\ Bound(ctx, n) = Mine(n)
  BY <1>1
<1> QED BY <1>1, <1>2, <1>4, <1>5, <1>6, ShortIsNotCovered

\* Without the record of what it is missing, a requirement that must have it, and
\* met no contradiction, is below its floor.
LEMMA HiddenShortfall ==
  ASSUME IInv, Ledger, pc = "done", NEW u \in unknowns,
         u.reason = "missing", u.blocking, Reported(compiled, u.requirement, {"conflict"}) = {},
         NEW ctx, ctx.unknowns = unknowns \ {u}, \A n : Bound(ctx, n) = Mine(n)
  PROVE  ~ Accepts(ctx)
<1> DEFINE n == u.requirement
<1>1. /\ n \in DOMAIN plan /\ Shortfalls(n) = {u} /\ ~ Met(n) /\ plan[n].required
      /\ LegalRequirement(plan[n]) /\ Mine(n) \subseteq Selected /\ Selected \subseteq snapshot
  BY OneShortfall, WorkedWith
<1>2. Reported(ctx, n, {"missing", "budget"}) = {}
  <2>1. Reported(ctx, n, {"missing", "budget"}) \subseteq Shortfalls(n) \ {u}
    BY DEF Reported, Shortfalls
  <2> QED BY <1>1, <2>1
<1>3. ConflictingKeys(n) = {}
  BY <1>1, ConflictsCounted DEF ConflictKeys
<1>4. ConflictKeys(ctx, n, View(plan[n])) = {}
  <2>1. Reported(ctx, n, {"conflict"}) \subseteq Reported(compiled, n, {"conflict"})
    BY DEF Reported, compiled
  <2> QED BY <2>1 DEF ConflictKeys
<1>5. Cardinality(Mine(n)) \in Nat /\ plan[n].min \in Nat /\ Cardinality({}) = 0
  BY <1>1, PartsAreMeasured, FS_EmptySet DEF LegalRequirement
<1>6. KeysOf(Mine(n)) = {x.key : x \in Mine(n)}
  BY DEF KeysOf
<1>7. ~ WithinBounds(ctx, n, View(plan[n]))
  <2> SUFFICES ASSUME WithinBounds(ctx, n, View(plan[n])) PROVE Met(n)
    BY <1>1
  <2>1. Cardinality(Mine(n)) + Cardinality({} \ KeysOf(Mine(n))) >= plan[n].min
    BY <1>1, <1>2, <1>4, <1>6 DEF WithinBounds
  <2>2. Cardinality(Mine(n)) >= plan[n].min
    <3>1. {} \ KeysOf(Mine(n)) = {}
      OBVIOUS
    <3> QED BY <1>5, <2>1, <3>1
  <2>3. plan[n].mode = "semantic_keys" => plan[n].keys \subseteq KeysOf(Mine(n))
    BY <1>1, <1>2, <1>4, <1>6 DEF WithinBounds
  <2> QED BY <1>3, <2>2, <2>3 DEF Met, Lacking
<1> QED BY <1>1, <1>7 DEF Accepts

\* A context that hides what the compiler had to say is refused.
THEOREM HidingIsNoticed == Spec => []HiddenUnknownIsNoticed
<1>1. ASSUME IInv, Ledger PROVE HiddenUnknownIsNoticed
  <2> SUFFICES ASSUME pc = "done", NEW u \in unknowns,
                      \/ u.reason = "conflict" /\ u.requirement # None
                      \/ u.reason \in {"capability", "authority"}
                      \/ u.reason = "budget" /\ plan[u.requirement].mode # "semantic_keys"
                      \/ /\ u.reason = "missing" /\ u.blocking
                         /\ Reported(compiled, u.requirement, {"conflict"}) = {}
               PROVE  ~ Accepts([compiled EXCEPT !.unknowns = @ \ {u}])
    BY DEF HiddenUnknownIsNoticed
  <2> DEFINE ctx == [compiled EXCEPT !.unknowns = @ \ {u}]
  <2>1. ctx.unknowns = unknowns \ {u} /\ \A n : Bound(ctx, n) = Mine(n)
    BY DEF Bound, Items, Mine, compiled
  <2>2. u.reason \in {"capability", "authority"} => ~ Accepts(ctx)
    BY <1>1, HiddenGap
  <2> HIDE DEF ctx
  <2> QED BY <1>1, <2>1, <2>2, HiddenConflict, HiddenStop, HiddenShortfall DEF ctx
<1> QED BY <1>1, Invariance, BooksBalance, PTL
=============================================================================

--------------------------- MODULE RunStoreProofs ---------------------------
(***************************************************************************)
(* Proofs about the run store, for any number of threads, principals and   *)
(* run ids, any entry bound of at least one and any time-to-live: its      *)
(* invariants first, then that it implements the atomic registry.          *)
(***************************************************************************)
EXTENDS RunStore, FiniteSetTheorems, TLAPS

-----------------------------------------------------------------------------
(* Removing one element from a sequence without repetitions. *)

\* What _order.remove(r) does to a list in which r occurs once.
LEMMA WithoutProperties ==
  ASSUME NEW S, NEW s \in Seq(S), IsInjective(s), NEW r \in Range(s)
  PROVE  /\ Without(s, r) \in Seq(S)
         /\ Len(Without(s, r)) = Len(s) - 1
         /\ Range(Without(s, r)) = Range(s) \ {r}
         /\ IsInjective(Without(s, r))
         /\ s[Len(s)] # r => /\ Len(s) > 1
                             /\ Without(s, r)[Len(s) - 1] = s[Len(s)]
<1> DEFINE i == CHOOSE i \in DOMAIN s : s[i] = r
           w == Without(s, r)
<1>1. i \in 1 .. Len(s) /\ s[i] = r
  BY DEF Range
<1>2. /\ w \in Seq(S)
      /\ Len(w) = Len(s) - 1
      /\ \A j \in 1 .. Len(s) - 1 : w[j] = IF j < i THEN s[j] ELSE s[j + 1]
  <2> DEFINE a == SubSeq(s, 1, i - 1)
             b == SubSeq(s, i + 1, Len(s))
  <2>1. w = a \o b
    BY DEF Without, RemoveAt
  <2> HIDE DEF i, w
  <2>2. /\ a \in Seq(S) /\ Len(a) = i - 1
        /\ \A j \in 1 .. i - 1 : a[j] = s[j]
    BY <1>1
  <2>3. /\ b \in Seq(S) /\ Len(b) = Len(s) - i
        /\ \A j \in 1 .. Len(s) - i : b[j] = s[i + j]
    BY <1>1
  <2> HIDE DEF a, b
  <2>4. /\ w \in Seq(S) /\ Len(w) = Len(s) - 1
    BY <1>1, <2>1, <2>2, <2>3
  <2>5. ASSUME NEW j \in 1 .. Len(s) - 1
        PROVE  w[j] = IF j < i THEN s[j] ELSE s[j + 1]
    <3>1. CASE j < i
      BY <1>1, <2>1, <2>2, <2>3, <3>1
    <3>2. CASE ~ (j < i)
      <4>1. w[j] = b[j - (i - 1)]
        BY <1>1, <2>1, <2>2, <2>3, <3>2
      <4>2. j - (i - 1) \in 1 .. Len(s) - i /\ i + (j - (i - 1)) = j + 1
        BY <1>1, <3>2
      <4> QED BY <2>3, <3>2, <4>1, <4>2
    <3> QED BY <3>1, <3>2
  <2> QED BY <2>4, <2>5
<1> HIDE DEF i, w
<1>3. DOMAIN w = 1 .. Len(s) - 1 /\ DOMAIN s = 1 .. Len(s) /\ Len(s) \in Nat
  BY <1>1, <1>2
<1>4. ASSUME NEW k \in 1 .. Len(s), k # i
      PROVE  \E j \in 1 .. Len(s) - 1 : w[j] = s[k]
  <2>1. CASE k < i
    BY <1>1, <1>2, <1>3, <2>1
  <2>2. CASE k > i
    <3>1. k - 1 \in 1 .. Len(s) - 1 /\ ~ (k - 1 < i)
      BY <1>1, <1>3, <2>2
    <3>2. w[k - 1] = s[k]
      BY <3>1, <1>1, <1>2, <1>3
    <3> QED BY <3>1, <3>2
  <2> QED BY <1>1, <1>3, <1>4, <2>1, <2>2
<1>5. Range(w) = Range(s) \ {r}
  <2>1. ASSUME NEW x \in Range(w) PROVE x \in Range(s) \ {r}
    <3>1. PICK j \in 1 .. Len(s) - 1 : x = w[j]
      BY <1>3 DEF Range
    <3>2. \E k \in 1 .. Len(s) : k # i /\ x = s[k]
      BY <1>1, <1>2, <1>3, <3>1
    <3> QED BY <1>1, <1>3, <3>2 DEF Range, IsInjective
  <2>2. ASSUME NEW x \in Range(s) \ {r} PROVE x \in Range(w)
    BY <1>1, <1>3, <1>4 DEF Range
  <2> QED BY <2>1, <2>2
<1>6. IsInjective(w)
  <2> SUFFICES ASSUME NEW a \in 1 .. Len(s) - 1, NEW b \in 1 .. Len(s) - 1, w[a] = w[b]
               PROVE  a = b
    BY <1>3 DEF IsInjective
  <2> DEFINE u(j) == IF j < i THEN j ELSE j + 1
  <2>1. u(a) \in 1 .. Len(s) /\ u(b) \in 1 .. Len(s) /\ s[u(a)] = s[u(b)]
    BY <1>1, <1>2, <1>3
  <2>2. u(a) = u(b)
    BY <2>1, <1>3 DEF IsInjective
  <2> QED BY <2>2, <1>1, <1>3
<1>7. s[Len(s)] # r => Len(s) > 1 /\ w[Len(s) - 1] = s[Len(s)]
  BY <1>1, <1>2, <1>3
<1> QED BY <1>2, <1>5, <1>6, <1>7 DEF w

-----------------------------------------------------------------------------
(* The inductive invariant. *)

\* Only the holder of the lock is inside a critical section.
Exclusive == \A t \in Threads : pc[t] \in {"evict", "trim"} <=> lock = t

\* A run id belongs to one create() call, and is not in the store before that
\* call has inserted it.
FreshIds ==
  /\ Live \subseteq issued
  /\ \A t \in Threads : pc[t] # "idle" /\ call[t].op = "create" =>
       /\ call[t].run \in issued
       /\ pc[t] # "trim" => call[t].run \notin Live
       /\ \A u \in Threads \ {t} :
            pc[u] # "idle" /\ call[u].op = "create" => call[u].run # call[t].run

\* While create() trims, its own run is the most recent one.
FreshIsLast ==
  \A t \in Threads : pc[t] = "trim" =>
    /\ call[t].op = "create"
    /\ Len(order) >= 1
    /\ order[Len(order)] = call[t].run

\* No call works with a time before it began or after the present, and a
\* create() works with the time at which it began.
ClockOrder ==
  \A t \in Threads : pc[t] # "idle" =>
    /\ call[t].begun <= call[t].seen /\ call[t].seen <= now
    /\ call[t].op = "create" => call[t].seen = call[t].begun

IInv ==
  /\ TypeOK
  /\ Exclusive
  /\ OrderMatchesItems
  /\ Bounded
  /\ FreshIds
  /\ FreshIsLast
  /\ ClockOrder
  /\ ServesOwnLiveRuns

-----------------------------------------------------------------------------
\* The empty store satisfies the invariant.
LEMMA InitIInv == Init => IInv
  BY MaxEntriesAssumption, NoneAssumption
     DEF Init, IInv, TypeOK, Exclusive, OrderMatchesItems, Bounded, FreshIds, FreshIsLast,
         ClockOrder, ServesOwnLiveRuns, Live, Range, IsInjective, NoReply, Replies, PcValues,
         Records

\* Thread t has entered a call with the arguments c.
Entered(t, c) ==
  /\ Begin(t, c)
  /\ c.begun = now /\ c.seen = now
  /\ \/ UNCHANGED issued /\ c.op # "create"
     \/ c.op = "create" /\ c.run \in RunIds \ issued /\ issued' = issued \cup {c.run}

\* A request changes neither structure; a new create() draws an unused id.
LEMMA RequestIInv ==
  ASSUME IInv, NEW t \in Threads, Request(t)
  PROVE  IInv'
<1> USE NoneAssumption DEF Live
<1>1. \E c \in Calls : Entered(t, c)
  <2>1. now \in Nat
    BY DEF IInv, TypeOK
  <2>2. ASSUME NEW p \in Principals, NEW r \in RunIds, BeginCreate(t, p, r)
        PROVE  \E c \in Calls : Entered(t, c)
    BY <2>1, <2>2 DEF BeginCreate, Calls, Ops, Entered
  <2>3. ASSUME NEW p \in Principals, NEW r \in RunIds, BeginGet(t, p, r)
        PROVE  \E c \in Calls : Entered(t, c)
    BY <2>1, <2>3 DEF BeginGet, Calls, Ops, Entered
  <2>4. ASSUME NEW p \in Principals, BeginList(t, p)
        PROVE  \E c \in Calls : Entered(t, c)
    BY <2>1, <2>4 DEF BeginList, Calls, Ops, Entered
  <2> QED BY <2>2, <2>3, <2>4 DEF Request
<1>2. PICK c \in Calls : Entered(t, c)
  BY <1>1
<1>3. TypeOK'
  BY <1>2 DEF Entered, Begin, IInv, TypeOK, Replies, NoReply, PcValues
<1>4. Exclusive' /\ OrderMatchesItems' /\ Bounded' /\ FreshIsLast'
  BY <1>2 DEF Entered, Begin, IInv, TypeOK, Exclusive, OrderMatchesItems, Bounded, FreshIsLast
<1>5. ClockOrder'
  BY <1>2 DEF Entered, Begin, IInv, TypeOK, ClockOrder
<1>6. FreshIds'
  BY <1>2 DEF Entered, Begin, IInv, TypeOK, FreshIds
<1>7. ServesOwnLiveRuns'
  BY <1>2 DEF Entered, Begin, IInv, TypeOK, ServesOwnLiveRuns, NoReply
<1> QED BY <1>3, <1>4, <1>5, <1>6, <1>7 DEF IInv

\* A thread that takes the lock and, if it reads, the clock, keeps the invariant.
LEMMA AcquireIInv ==
  ASSUME IInv, NEW t \in Threads, Acquire(t)
  PROVE  IInv'
<1> USE NoneAssumption DEF Live
<1>1. /\ call[t] \in Calls
      /\ call' = [call EXCEPT ![t] = [call[t] EXCEPT !.seen = call'[t].seen]]
      /\ call'[t].seen \in Nat /\ call'[t].begun <= call'[t].seen /\ call'[t].seen <= now
      /\ call[t].op = "create" => call'[t].seen = call'[t].begun
  BY DEF Acquire, IInv, TypeOK, ClockOrder, Calls
<1>2. /\ call'[t] \in Calls
      /\ call'[t].op = call[t].op /\ call'[t].run = call[t].run
      /\ \A u \in Threads \ {t} : call'[u] = call[u]
  BY <1>1 DEF Calls, IInv, TypeOK
<1>3. TypeOK'
  BY <1>2 DEF Acquire, IInv, TypeOK, PcValues
<1>4. Exclusive' /\ OrderMatchesItems' /\ Bounded'
  BY <1>2 DEF Acquire, IInv, TypeOK, Exclusive, OrderMatchesItems, Bounded
<1>5. FreshIsLast' /\ FreshIds'
  BY <1>2 DEF Acquire, IInv, TypeOK, FreshIsLast, FreshIds
<1>6. ClockOrder'
  BY <1>1, <1>2 DEF Acquire, IInv, TypeOK, ClockOrder
<1>7. ServesOwnLiveRuns'
  BY DEF Acquire, IInv, ServesOwnLiveRuns
<1> QED BY <1>3, <1>4, <1>5, <1>6, <1>7 DEF IInv

\* Removing a run of the store from both structures.
LEMMA DiscardProperties ==
  ASSUME IInv, NEW r \in Live, Discard(r)
  PROVE  /\ Live' = Live \ {r}
         /\ Live' \subseteq RunIds /\ items' \in [Live' -> Records]
         /\ \A x \in Live' : items'[x] = items[x]
         /\ order' \in Seq(RunIds)
         /\ Len(order') = Len(order) - 1
         /\ OrderMatchesItems'
         /\ order[Len(order)] # r =>
              Len(order') >= 1 /\ order'[Len(order')] = order[Len(order)]
<1>1. order \in Seq(RunIds) /\ IsInjective(order) /\ r \in Range(order)
  BY DEF IInv, TypeOK, OrderMatchesItems
<1>2. /\ order' \in Seq(RunIds)
      /\ Len(order') = Len(order) - 1
      /\ Range(order') = Range(order) \ {r}
      /\ IsInjective(order')
      /\ order[Len(order)] # r =>
           Len(order) > 1 /\ order'[Len(order) - 1] = order[Len(order)]
  BY <1>1, WithoutProperties DEF Discard
<1>3. /\ Live' = Live \ {r}
      /\ Live' \subseteq RunIds /\ items' \in [Live' -> Records]
      /\ \A x \in Live' : items'[x] = items[x]
  BY DEF Discard, Pop, Live, IInv, TypeOK
<1>4. OrderMatchesItems'
  BY <1>2, <1>3 DEF IInv, OrderMatchesItems
<1> QED BY <1>1, <1>2, <1>3, <1>4

\* Discarding any run other than the one being created keeps the invariant.
LEMMA DiscardIInv ==
  ASSUME IInv, NEW t \in Threads, lock = t, NEW r \in Live, Discard(r),
         pc[t] = "trim" => r # call[t].run,
         UNCHANGED <<now, lock, issued, pc, call, reply>>
  PROVE  IInv'
<1>1. TypeOK' /\ OrderMatchesItems'
  BY DiscardProperties DEF IInv, TypeOK
<1>2. Exclusive' /\ ClockOrder' /\ ServesOwnLiveRuns'
  BY DEF IInv, Exclusive, ClockOrder, ServesOwnLiveRuns
<1>3. FreshIds'
  BY DiscardProperties DEF IInv, FreshIds
<1>4. Bounded'
  <2>1. Len(order) \in Nat /\ Len(order') = Len(order) - 1 /\ MaxEntries \in Nat
    BY DiscardProperties, MaxEntriesAssumption DEF IInv, TypeOK
  <2> QED BY <2>1 DEF IInv, Bounded
<1>5. FreshIsLast'
  BY DiscardProperties DEF IInv, FreshIsLast, Exclusive
<1> QED BY <1>1, <1>2, <1>3, <1>4, <1>5 DEF IInv

\* One turn of _evict_locked keeps the invariant: nothing is being created then.
LEMMA EvictExpiredIInv ==
  ASSUME IInv, NEW t \in Threads, EvictExpired(t)
  PROVE  IInv'
<1>1. lock = t
  BY DEF EvictExpired, IInv, Exclusive
<1>2. PICK r \in Live : Discard(r)
  BY DEF EvictExpired, Expired
<1> QED BY <1>1, <1>2, DiscardIInv DEF EvictExpired

\* Appending a run that is not yet there to a list without repetitions.
LEMMA AppendNew ==
  ASSUME NEW S, NEW s \in Seq(S), IsInjective(s), NEW r \in S, r \notin Range(s)
  PROVE  /\ Append(s, r) \in Seq(S)
         /\ Len(Append(s, r)) = Len(s) + 1
         /\ Append(s, r)[Len(s) + 1] = r
         /\ Range(Append(s, r)) = Range(s) \cup {r}
         /\ IsInjective(Append(s, r))
<1> DEFINE w == Append(s, r)
<1>1. /\ w \in Seq(S) /\ Len(w) = Len(s) + 1 /\ w[Len(s) + 1] = r
      /\ \A j \in 1 .. Len(s) : w[j] = s[j]
      /\ DOMAIN w = 1 .. Len(s) + 1 /\ DOMAIN s = 1 .. Len(s) /\ Len(s) \in Nat
  OBVIOUS
<1> HIDE DEF w
<1>2. Range(w) = Range(s) \cup {r}
  BY <1>1 DEF Range
<1>3. IsInjective(w)
  BY <1>1 DEF Range, IsInjective
<1> QED BY <1>1, <1>2, <1>3 DEF w

\* create() may insert its record: its id is in neither structure.
LEMMA InsertIInv ==
  ASSUME IInv, NEW t \in Threads, Insert(t)
  PROVE  IInv'
<1> DEFINE r == call[t].run
<1>1. lock = t /\ pc[t] = "evict" /\ call[t] \in Calls /\ call[t].op = "create"
  BY DEF Insert, Evicted, IInv, TypeOK, Exclusive
<1>2. r \in issued /\ r \in RunIds /\ r \notin Live /\ r \notin Range(order)
  BY <1>1 DEF IInv, FreshIds, OrderMatchesItems, TypeOK
<1>3. NewRecord(t) \in Records
  BY <1>1, <1>2, TtlAssumption DEF NewRecord, Records, Calls
<1>4. /\ order' \in Seq(RunIds) /\ Len(order') = Len(order) + 1
      /\ order'[Len(order) + 1] = r
      /\ Range(order') = Range(order) \cup {r} /\ IsInjective(order')
  BY <1>2, AppendNew DEF Insert, IInv, TypeOK, OrderMatchesItems
<1>5. /\ Live' = Live \cup {r} /\ Live' \subseteq RunIds /\ items' \in [Live' -> Records]
  BY <1>2, <1>3 DEF Insert, Live, IInv, TypeOK
<1> HIDE DEF r
<1>6. pc' = [pc EXCEPT ![t] = "trim"] /\ UNCHANGED <<now, lock, issued, call, reply>>
  BY DEF Insert
<1>7. TypeOK'
  BY <1>1, <1>4, <1>5, <1>6 DEF IInv, TypeOK, PcValues
<1>8. OrderMatchesItems'
  BY <1>4, <1>5 DEF IInv, OrderMatchesItems
<1>9. Exclusive'
  BY <1>1, <1>6 DEF IInv, TypeOK, Exclusive
<1>10. FreshIds'
  BY <1>1, <1>2, <1>5, <1>6 DEF IInv, TypeOK, FreshIds, r
<1>11. FreshIsLast'
  <2>1. Len(order) \in Nat
    BY DEF IInv, TypeOK
  <2>2. \A u \in Threads \ {t} : pc'[u] # "trim"
    BY <1>1, <1>6, NoneAssumption DEF IInv, TypeOK, Exclusive
  <2> QED BY <1>1, <1>4, <1>6, <2>1, <2>2 DEF IInv, TypeOK, FreshIsLast, r
<1>12. Bounded'
  <2>1. Len(order) \in Nat /\ MaxEntries \in Nat
    BY MaxEntriesAssumption DEF IInv, TypeOK
  <2>2. Len(order) # MaxEntries + 1
    BY <1>1 DEF IInv, Bounded, Exclusive
  <2>3. Len(order) <= MaxEntries
    BY <2>1, <2>2 DEF IInv, Bounded
  <2>4. pc'[t] = "trim" /\ lock' = t
    BY <1>1, <1>6 DEF IInv, TypeOK
  <2> QED BY <1>4, <2>1, <2>3, <2>4 DEF Bounded
<1>13. ClockOrder' /\ ServesOwnLiveRuns'
  BY <1>1, <1>6 DEF IInv, TypeOK, ClockOrder, ServesOwnLiveRuns
<1> QED BY <1>7, <1>8, <1>9, <1>10, <1>11, <1>12, <1>13 DEF IInv

\* The positions of one principal form a finite set.
LEMMA HoldingFinite ==
  ASSUME IInv, NEW p
  PROVE  /\ IsFiniteSet(Holding(p))
         /\ Count(p) \in Nat
         /\ Count(p) = 0 <=> Holding(p) = {}
<1>1. Len(order) \in Nat /\ DOMAIN order = 1 .. Len(order)
  BY DEF IInv, TypeOK
<1>2. IsFiniteSet(1 .. Len(order))
  BY <1>1, FS_Interval
<1>3. IsFiniteSet(Holding(p))
  BY <1>1, <1>2, FS_Subset DEF Holding
<1> QED BY <1>3, FS_CardinalityType, FS_EmptySet DEF Count

\* The capacity victim is never the most recent run of a list of two or more.
\* If it were, its principal would hold that run only, so no principal would
\* hold more than one, and the least recent run would have been found first.
LEMMA VictimIsNotLast ==
  ASSUME IInv, Len(order) > 1, NEW i \in DOMAIN order, IsVictim(i)
  PROVE  i # Len(order)
<1> SUFFICES ASSUME i = Len(order) PROVE FALSE
  OBVIOUS
<1> DEFINE own(j) == items[order[j]].principal
           q == own(i)
<1>1. Len(order) \in Nat /\ DOMAIN order = 1 .. Len(order)
  BY DEF IInv, TypeOK
<1>2. /\ HoldsMost(q)
      /\ \A j \in 1 .. i - 1 : ~ HoldsMost(own(j))
  BY DEF IsVictim
<1>3. Holding(q) = {i}
  <2>1. ASSUME NEW j \in DOMAIN order, own(j) = q PROVE j = i
    BY <1>1, <1>2, <2>1
  <2> QED BY <2>1 DEF Holding
<1>4. Count(q) = 1
  BY <1>3, FS_Singleton DEF Count
<1>5. 1 \in DOMAIN order /\ 1 \in 1 .. i - 1
  BY <1>1
<1>6. Holding(own(1)) # {}
  BY <1>5 DEF Holding
<1>7. Count(own(1)) \in Nat /\ Count(own(1)) # 0
  BY <1>6, HoldingFinite
<1>8. ASSUME NEW k \in DOMAIN order PROVE Count(own(k)) <= Count(own(1))
  <2>1. Count(own(k)) <= 1
    BY <1>2, <1>4 DEF HoldsMost
  <2> HIDE DEF own
  <2> QED BY <2>1, <1>7, HoldingFinite
<1>9. HoldsMost(own(1))
  BY <1>8 DEF HoldsMost
<1> QED BY <1>2, <1>5, <1>9

\* One turn of the loop on max_entries keeps the run that create() has inserted.
LEMMA TrimIInv ==
  ASSUME IInv, NEW t \in Threads, Trim(t)
  PROVE  IInv'
<1>1. lock = t /\ pc[t] = "trim"
  BY DEF Trim, IInv, Exclusive
<1>2. PICK i \in DOMAIN order : IsVictim(i) /\ Discard(order[i])
  BY DEF Trim
<1>3. order[i] \in Live
  BY DEF IInv, OrderMatchesItems, Range
<1>4. Len(order) > 1 /\ Len(order) \in Nat
  BY MaxEntriesAssumption DEF Trim, IInv, TypeOK
<1>5. order[i] # call[t].run
  <2>1. i # Len(order)
    BY <1>2, <1>4, VictimIsNotLast
  <2>2. Len(order) \in DOMAIN order
    BY <1>4 DEF IInv, TypeOK
  <2> QED BY <1>1, <2>1, <2>2 DEF IInv, FreshIsLast, OrderMatchesItems, IsInjective
<1> QED BY <1>1, <1>2, <1>3, <1>5, DiscardIInv DEF Trim

\* A call that returns live records of its own principal, leaves _items alone,
\* keeps _order a list of the same runs and is within the bound.
LEMMA ReturnIInv ==
  ASSUME IInv, NEW t \in Threads, lock = t, NEW R \in SUBSET Records, Return(t, R),
         \A rec \in R : rec.principal = call[t].principal /\ rec.expires > call[t].begun,
         UNCHANGED items, order' \in Seq(RunIds), OrderMatchesItems',
         Len(order') <= MaxEntries
  PROVE  IInv'
<1>1. pc[t] # "idle" /\ call[t] \in Calls
  BY NoneAssumption DEF IInv, TypeOK, Exclusive
<1>2. /\ lock' = None
      /\ pc' = [pc EXCEPT ![t] = "idle"]
      /\ call' = [call EXCEPT ![t] = None]
      /\ reply' = [reply EXCEPT ![t] = [principal |-> call[t].principal,
                                        begun |-> call[t].begun, records |-> R]]
      /\ UNCHANGED <<now, issued>>
  BY DEF Return
<1>3. TypeOK'
  BY <1>1, <1>2 DEF IInv, TypeOK, Calls, Replies, PcValues, Live
<1>4. Exclusive'
  BY <1>2, NoneAssumption DEF IInv, TypeOK, Exclusive
<1>5. \A u \in Threads : pc'[u] # "trim"
  BY <1>2 DEF IInv, TypeOK, Exclusive
<1>6. Bounded'
  <2>1. Len(order') \in Nat /\ MaxEntries \in Nat
    BY MaxEntriesAssumption
  <2> QED BY <2>1 DEF Bounded
<1>7. FreshIds' /\ FreshIsLast' /\ ClockOrder'
  BY <1>2, <1>5 DEF IInv, TypeOK, FreshIds, FreshIsLast, ClockOrder, Live
<1>8. ServesOwnLiveRuns'
  BY <1>2 DEF IInv, TypeOK, ServesOwnLiveRuns
<1> QED BY <1>3, <1>4, <1>6, <1>7, <1>8 DEF IInv

\* A lock holder that is not trimming sees a store within its bound.
LEMMA WithinBound ==
  ASSUME IInv, NEW t \in Threads, pc[t] = "evict"
  PROVE  lock = t /\ Len(order) \in Nat /\ Len(order) <= MaxEntries
<1>1. lock = t
  BY DEF IInv, Exclusive
<1>2. Len(order) \in Nat /\ MaxEntries \in Nat
  BY MaxEntriesAssumption DEF IInv, TypeOK
<1>3. Len(order) # MaxEntries + 1
  BY <1>1 DEF IInv, Bounded
<1> QED BY <1>1, <1>2, <1>3 DEF IInv, Bounded

\* After the eviction loop every run left outlives the moment the call began.
LEMMA EvictedAreGone ==
  ASSUME IInv, NEW t \in Threads, pc[t] = "evict", Expired(call[t].seen) = {}, NEW r \in Live
  PROVE  items[r] \in Records /\ items[r].expires > call[t].begun
<1>1. /\ items[r] \in Records /\ call[t] \in Calls /\ ~ (items[r].expires <= call[t].seen)
      /\ call[t].begun <= call[t].seen
  BY DEF IInv, TypeOK, Expired, ClockOrder
<1> QED BY <1>1 DEF Records, Calls

\* create() returns a record that outlives the moment the call began.
LEMMA FinishCreateIInv ==
  ASSUME IInv, NEW t \in Threads, FinishCreate(t)
  PROVE  IInv'
<1>1. lock = t /\ call[t] \in Calls /\ call[t].run \in RunIds
  BY DEF FinishCreate, IInv, TypeOK, Exclusive, FreshIds, FreshIsLast
<1>2. call[t].begun <= call[t].seen
  BY DEF FinishCreate, IInv, ClockOrder
<1>3. /\ NewRecord(t) \in Records
      /\ NewRecord(t).principal = call[t].principal
      /\ NewRecord(t).expires > call[t].begun
  BY <1>1, <1>2, TtlAssumption DEF NewRecord, Records, Calls
<1>4. UNCHANGED items /\ order' \in Seq(RunIds) /\ OrderMatchesItems' /\ Len(order') <= MaxEntries
  BY DEF FinishCreate, IInv, TypeOK, OrderMatchesItems, Live
<1> QED BY <1>1, <1>3, <1>4, ReturnIInv DEF FinishCreate

\* The touch of get() moves one run and loses none.
LEMMA HitIInv ==
  ASSUME IInv, NEW t \in Threads, Hit(t)
  PROVE  IInv'
<1> DEFINE r == call[t].run
           w == Without(order, r)
<1>1. pc[t] = "evict" /\ lock = t /\ r \in Live /\ Len(order) <= MaxEntries
  BY WithinBound DEF Hit, Evicted
<1>2. r \in RunIds /\ order \in Seq(RunIds) /\ IsInjective(order) /\ r \in Range(order)
  BY <1>1 DEF IInv, TypeOK, OrderMatchesItems
<1>3. /\ w \in Seq(RunIds) /\ Len(w) = Len(order) - 1
      /\ Range(w) = Range(order) \ {r} /\ IsInjective(w)
  BY <1>2, WithoutProperties
<1>4. order' = Append(w, r) /\ UNCHANGED items
  BY DEF Hit
<1> HIDE DEF w
<1>5. /\ order' \in Seq(RunIds) /\ Len(order') = Len(w) + 1
      /\ Range(order') = Range(w) \cup {r} /\ IsInjective(order')
  BY <1>2, <1>3, <1>4, AppendNew
<1>6. OrderMatchesItems' /\ Len(order') <= MaxEntries
  <2>1. Len(order') = Len(order)
    BY <1>2, <1>3, <1>5
  <2>2. Range(order') = Range(order)
    BY <1>2, <1>3, <1>5
  <2> QED BY <1>1, <1>4, <1>5, <2>1, <2>2 DEF IInv, OrderMatchesItems, Live
<1>7. /\ {items[r]} \in SUBSET Records /\ items[r].expires > call[t].begun
      /\ items[r].principal = call[t].principal
  BY <1>1, EvictedAreGone DEF Hit, Evicted
<1>8. Return(t, {items[r]})
  BY DEF Hit
<1> QED BY <1>1, <1>4, <1>5, <1>6, <1>7, <1>8, ReturnIInv

\* A get() that finds nothing of its own changes nothing.
LEMMA MissIInv ==
  ASSUME IInv, NEW t \in Threads, Miss(t)
  PROVE  IInv'
<1>1. lock = t /\ Len(order) <= MaxEntries
  BY WithinBound DEF Miss, Evicted
<1>2. UNCHANGED items /\ order' \in Seq(RunIds) /\ OrderMatchesItems' /\ Len(order') <= MaxEntries
  BY <1>1 DEF Miss, IInv, TypeOK, OrderMatchesItems, Live
<1> QED BY <1>1, <1>2, ReturnIInv DEF Miss

\* list_for_principal() returns only live records of its principal.
LEMMA FinishListIInv ==
  ASSUME IInv, NEW t \in Threads, FinishList(t)
  PROVE  IInv'
<1> DEFINE R == {items[order[i]] : i \in Holding(call[t].principal)}
<1>1. lock = t /\ Len(order) <= MaxEntries
  BY WithinBound DEF FinishList, Evicted
<1>2. UNCHANGED items /\ order' \in Seq(RunIds) /\ OrderMatchesItems' /\ Len(order') <= MaxEntries
  BY <1>1 DEF FinishList, IInv, TypeOK, OrderMatchesItems, Live
<1>3. ASSUME NEW i \in Holding(call[t].principal)
      PROVE  /\ items[order[i]] \in Records
             /\ items[order[i]].principal = call[t].principal
             /\ items[order[i]].expires > call[t].begun
  <2>1. order[i] \in Live
    BY DEF Holding, IInv, OrderMatchesItems, Range
  <2> QED BY <2>1, EvictedAreGone DEF Holding, FinishList, Evicted
<1>4. R \in SUBSET Records
  BY <1>3
<1>5. \A rec \in R : rec.principal = call[t].principal /\ rec.expires > call[t].begun
  BY <1>3
<1>6. Return(t, R)
  BY DEF FinishList
<1> HIDE DEF R
<1> QED BY <1>1, <1>2, <1>4, <1>5, <1>6, ReturnIInv

\* The passing of time touches no record and no call.
LEMMA TickIInv == IInv /\ Tick => IInv'
<1> SUFFICES ASSUME IInv, Tick PROVE IInv'
  OBVIOUS
<1>1. TypeOK' /\ OrderMatchesItems'
  BY DEF Tick, IInv, TypeOK, OrderMatchesItems, Live
<1>2. Exclusive' /\ Bounded' /\ FreshIds' /\ FreshIsLast' /\ ServesOwnLiveRuns'
  BY DEF Tick, IInv, Exclusive, Bounded, FreshIds, FreshIsLast, ServesOwnLiveRuns, Live
<1>3. ClockOrder'
  <2> SUFFICES ASSUME NEW t \in Threads, pc[t] # "idle"
               PROVE  /\ call[t].begun <= call[t].seen /\ call[t].seen <= now'
                      /\ call[t].op = "create" => call[t].seen = call[t].begun
    BY DEF Tick, ClockOrder
  <2>1. /\ call[t] \in Calls /\ now \in Nat /\ now' = now + 1
        /\ call[t].begun <= call[t].seen /\ call[t].seen <= now
        /\ call[t].op = "create" => call[t].seen = call[t].begun
    BY DEF Tick, IInv, TypeOK, ClockOrder
  <2> QED BY <2>1 DEF Calls
<1> QED BY <1>1, <1>2, <1>3 DEF IInv

\* No step of any thread, in any interleaving, breaks the invariant.
LEMMA NextIInv == IInv /\ [Next]_vars => IInv'
<1> SUFFICES ASSUME IInv, [Next]_vars PROVE IInv'
  OBVIOUS
<1>1. CASE Tick
  BY <1>1, TickIInv
<1>2. ASSUME NEW t \in Threads, Request(t) PROVE IInv'
  BY <1>2, RequestIInv
<1>3. ASSUME NEW t \in Threads, Step(t) PROVE IInv'
  BY <1>3, AcquireIInv, EvictExpiredIInv, InsertIInv, TrimIInv, FinishCreateIInv, HitIInv,
     MissIInv, FinishListIInv DEF Step
<1>4. CASE UNCHANGED vars
  BY <1>4 DEF vars, IInv, TypeOK, Exclusive, OrderMatchesItems, Bounded, FreshIds, FreshIsLast,
              ClockOrder, ServesOwnLiveRuns, Live
<1> QED BY <1>1, <1>2, <1>3, <1>4 DEF Next

\* The inductive invariant holds of every state of the store.
THEOREM Inductive == Spec => []IInv
<1>1. Init => IInv
  BY InitIInv
<1>2. IInv /\ [Next]_vars => IInv'
  BY NextIInv
<1> QED BY <1>1, <1>2, PTL DEF Spec

-----------------------------------------------------------------------------
(* The theorems. *)

\* Every value the store, its lock and its threads take has its type.
THEOREM TypeCorrect == Spec => []TypeOK
<1>1. IInv => TypeOK
  BY DEF IInv
<1> QED BY <1>1, Inductive, PTL

\* _items and _order never disagree, whatever the interleaving.
THEOREM StructuresAgree == Spec => []OrderMatchesItems
<1>1. IInv => OrderMatchesItems
  BY DEF IInv
<1> QED BY <1>1, Inductive, PTL

\* The store holds at most max_entries runs outside create(), at most one more
\* inside it.
THEOREM StoreIsBounded == Spec => []Bounded
<1>1. IInv => Bounded
  BY DEF IInv
<1> QED BY <1>1, Inductive, PTL

\* create() never evicts the run it creates.
THEOREM CreatedRunIsKept == Spec => []FreshRunSurvives
<1>1. IInv => FreshRunSurvives
  <2> SUFFICES ASSUME IInv, NEW t \in Threads, pc[t] = "trim" PROVE call[t].run \in Live
    BY DEF FreshRunSurvives
  <2>1. Len(order) \in DOMAIN order /\ order[Len(order)] = call[t].run
    BY DEF IInv, TypeOK, FreshIsLast
  <2> QED BY <2>1 DEF IInv, OrderMatchesItems, Range
<1> QED BY <1>1, Inductive, PTL

\* No call returns a foreign record, or one that had expired before it began.
THEOREM RepliesAreOwnAndLive == Spec => []ServesOwnLiveRuns
<1>1. IInv => ServesOwnLiveRuns
  BY DEF IInv
<1> QED BY <1>1, Inductive, PTL

\* Only the two loops of the critical section remove a run, and the loop that
\* enforces the entry bound takes it from a principal that holds the most.
THEOREM BurstsAreIsolated == Spec => BurstIsolation
<1>1. IInv /\ [Next]_vars => [BurstIsolationStep]_vars
  <2> SUFFICES ASSUME IInv, Next, NEW r \in Live \ DOMAIN items'
               PROVE  \/ \E t \in Threads : lock = t /\ r \in Expired(call[t].seen)
                      \/ \A p \in Principals : Count(p) <= Count(items[r].principal)
    BY DEF BurstIsolationStep
  <2>1. PICK t \in Threads : EvictExpired(t) \/ Trim(t)
    <3>1. CASE Tick
      BY <3>1 DEF Tick, Live
    <3>2. ASSUME NEW t \in Threads, Request(t) PROVE FALSE
      BY <3>2 DEF Request, BeginCreate, BeginGet, BeginList, Begin, Live
    <3>3. ASSUME NEW t \in Threads, Acquire(t) \/ Insert(t) \/ FinishCreate(t) \/ Hit(t)
                                      \/ Miss(t) \/ FinishList(t)
          PROVE  FALSE
      BY <3>3 DEF Acquire, Insert, FinishCreate, Hit, Miss, FinishList, Live
    <3> QED BY <3>1, <3>2, <3>3 DEF Next, Step
  <2>2. CASE EvictExpired(t)
    <3>1. lock = t
      BY <2>2 DEF EvictExpired, IInv, Exclusive
    <3>2. PICK x \in Expired(call[t].seen) : Discard(x)
      BY <2>2 DEF EvictExpired
    <3>3. r = x
      BY <3>2 DEF Discard, Pop, Live
    <3> QED BY <3>1, <3>2, <3>3
  <2>3. CASE Trim(t)
    <3>1. PICK i \in DOMAIN order : IsVictim(i) /\ Discard(order[i])
      BY <2>3 DEF Trim
    <3>2. r = order[i]
      BY <3>1 DEF Discard, Pop, Live
    <3>3. ASSUME NEW p \in Principals PROVE Count(p) <= Count(items[r].principal)
      <4>1. CASE Holding(p) = {}
        <5>1. Count(p) = 0 /\ Count(items[r].principal) \in Nat
          BY <4>1, HoldingFinite
        <5> QED BY <5>1
      <4>2. CASE Holding(p) # {}
        <5>1. PICK j \in DOMAIN order : items[order[j]].principal = p
          BY <4>2 DEF Holding
        <5> QED BY <5>1, <3>1, <3>2 DEF IsVictim, HoldsMost
      <4> QED BY <4>1, <4>2
    <3> QED BY <3>3
  <2> QED BY <2>1, <2>2, <2>3
<1> QED BY <1>1, Inductive, PTL DEF Spec, BurstIsolation

-----------------------------------------------------------------------------
(***************************************************************************)
(* The run store implements the atomic registry: every step of a thread,   *)
(* in any interleaving, is one step of RunRegistry or changes nothing a    *)
(* caller can see.                                                         *)
(*                                                                         *)
(* A call takes effect where it returns, except create(): it takes effect  *)
(* at the insertion when there is room, else when its victim is removed.   *)
(***************************************************************************)

\* The variables of the registry, as the store maps them.
SameTable == VisibleRuns' = VisibleRuns /\ VisibleOrder' = VisibleOrder

SameCallers == Asked' = Asked /\ Answers' = Answers

-----------------------------------------------------------------------------
(* Lemmas. *)

\* The table depends on the two structures only.
LEMMA TableUnchanged ==
  ASSUME UNCHANGED <<items, order>>
  PROVE  SameTable /\ OverBound' = OverBound
  BY DEF SameTable, VisibleRuns, VisibleOrder, OverBound

\* A create that is in effect, or over the bound, is trimming under the lock.
LEMMA OnlyTheHolder ==
  ASSUME IInv, NEW t \in Threads, lock = t, NEW u \in Threads, u # t
  PROVE  pc[u] # "trim" /\ ~ InEffect(u)
  BY DEF IInv, Exclusive, InEffect

\* A thread that evicts, and has the lock, sees a table within its bound.
LEMMA NoneInEffect ==
  ASSUME IInv, NEW t \in Threads, pc[t] = "evict"
  PROVE  /\ ~ OverBound
         /\ \A u \in Threads : ~ InEffect(u)
         /\ VisibleRuns = items /\ VisibleOrder = order
<1>1. lock = t /\ Len(order) \in Nat /\ Len(order) <= MaxEntries /\ MaxEntries \in Nat
  BY WithinBound, MaxEntriesAssumption
<1>2. ~ OverBound
  BY <1>1 DEF OverBound
<1>3. \A u \in Threads : ~ InEffect(u)
  BY <1>1 DEF IInv, Exclusive, InEffect
<1> QED BY <1>2, <1>3 DEF VisibleRuns, VisibleOrder

\* The calls in flight are told apart by their threads.
LEMMA AskedWithout ==
  ASSUME NEW t \in Pending
  PROVE  Asked \ {AskedOf(t)} = {AskedOf(u) : u \in Pending \ {t}}
<1>1. \A u \in Pending : AskedOf(u).thread = u
  BY DEF AskedOf
<1> QED BY <1>1 DEF Asked

\* The last place of a list put back.
LEMMA FrontAppend ==
  ASSUME NEW S, NEW s \in Seq(S), Len(s) >= 1
  PROVE  /\ Append(Front(s), s[Len(s)]) = s
         /\ Front(s) \in Seq(S) /\ Len(Front(s)) = Len(s) - 1
<1> DEFINE f == Front(s)
           w == Append(f, s[Len(s)])
<1>1. /\ f \in Seq(S) /\ Len(f) = Len(s) - 1
      /\ \A j \in 1 .. Len(s) - 1 : f[j] = s[j]
  <2> DEFINE n == Len(s) - 1
  <2>1. n \in Nat /\ n <= Len(s) /\ f = SubSeq(s, 1, n)
    BY DEF Front
  <2> HIDE DEF n, f
  <2>2. /\ f \in Seq(S) /\ Len(f) = n
        /\ \A j \in 1 .. n : f[j] = s[j]
    BY <2>1
  <2> QED BY <2>2 DEF n
<1>2. s[Len(s)] \in S
  OBVIOUS
<1> HIDE DEF f
<1>3. w \in Seq(S) /\ Len(w) = Len(s) /\ w[Len(s)] = s[Len(s)]
  BY <1>1, <1>2
<1>4. \A j \in 1 .. Len(s) : w[j] = s[j]
  <2> TAKE j \in 1 .. Len(s)
  <2>1. CASE j = Len(s)
    BY <1>3, <2>1
  <2>2. CASE j # Len(s)
    <3>1. j \in 1 .. Len(s) - 1
      BY <2>2
    <3> QED BY <1>1, <1>2, <3>1
  <2> QED BY <2>1, <2>2
<1> HIDE DEF w
<1>5. w = s
  BY <1>3, <1>4
<1> QED BY <1>1, <1>5 DEF f, w

\* Taking the last place of an extended list away again.
LEMMA AppendFront ==
  ASSUME NEW S, NEW s \in Seq(S), NEW r \in S
  PROVE  Front(Append(s, r)) = s
<1> DEFINE w == Append(s, r)
           f == Front(w)
<1>1. /\ w \in Seq(S) /\ Len(w) = Len(s) + 1
      /\ \A j \in 1 .. Len(s) : w[j] = s[j]
  OBVIOUS
<1> HIDE DEF w
<1>2. /\ f \in Seq(S) /\ Len(f) = Len(s)
      /\ \A j \in 1 .. Len(s) : f[j] = w[j]
  BY <1>1 DEF Front
<1> HIDE DEF f
<1>3. f = s
  BY <1>1, <1>2
<1> QED BY <1>3 DEF f, w

\* _order.remove(r) takes away the one place that holds r.
LEMMA WithoutIsRemoveAt ==
  ASSUME NEW S, NEW s \in Seq(S), IsInjective(s), NEW i \in DOMAIN s
  PROVE  Without(s, s[i]) = RemoveAt(s, i)
<1>1. (CHOOSE j \in DOMAIN s : s[j] = s[i]) = i
  BY DEF IsInjective
<1> QED BY <1>1 DEF Without

-----------------------------------------------------------------------------
(* The calls. *)

\* A call that returns in this step: it leaves the calls in flight, with its answer.
LEMMA ReturnAnswers ==
  ASSUME IInv, NEW t \in Threads, pc[t] = "evict", NEW R, Return(t, R)
  PROVE  /\ AskedOf(t) \in Asked
         /\ Registry!Answer(AskedOf(t), R)
<1>1. \A u \in Threads : ~ InEffect(u)
  BY NoneInEffect
<1>2. /\ pc' = [pc EXCEPT ![t] = "idle"]
      /\ reply' = [reply EXCEPT ![t] = [principal |-> call[t].principal,
                                        begun |-> call[t].begun, records |-> R]]
      /\ \A u \in Threads \ {t} : call'[u] = call[u]
      /\ UNCHANGED <<now, issued>>
  BY DEF Return, IInv, TypeOK
<1>3. \A u \in Threads : pc'[u] # "trim" /\ ~ InEffect(u)'
  BY <1>2 DEF IInv, TypeOK, Exclusive, InEffect
<1>4. t \in Pending /\ Pending' = Pending \ {t}
  BY <1>1, <1>2, <1>3 DEF Pending, IInv, TypeOK
<1>5. \A u \in Pending \ {t} : AskedOf(u)' = AskedOf(u)
  BY <1>2 DEF AskedOf, Pending
<1>6. Asked' = Asked \ {AskedOf(t)}
  BY <1>4, <1>5, AskedWithout DEF Asked
<1>7. Answers = reply /\ Answers' = reply'
  BY <1>1, <1>2, <1>3 DEF Answers, IInv, TypeOK
<1>8. /\ AskedOf(t).thread = t /\ AskedOf(t).principal = call[t].principal
      /\ AskedOf(t).begun = call[t].begun
  BY DEF AskedOf
<1> QED BY <1>2, <1>4, <1>6, <1>7, <1>8 DEF Registry!Answer, Asked

-----------------------------------------------------------------------------
(* One lemma per action of the store. *)

LEMMA TickStep ==
  ASSUME Tick
  PROVE  Registry!Tick
<1>1. UNCHANGED <<items, order, pc, call, reply, issued>> /\ now' = now + 1
  BY DEF Tick
<1>2. Asked' = Asked /\ Answers' = Answers
  BY <1>1 DEF Asked, Answers, Pending, InEffect, OverBound, AskedOf, AnswerOf, NewRecord
<1> QED BY <1>1, <1>2, TableUnchanged DEF Registry!Tick, SameTable

\* A call is made.
LEMMA BeginStep ==
  ASSUME IInv, NEW t \in Threads, NEW c \in Calls, Begin(t, c), c.begun = now,
         \/ c.op # "create" /\ UNCHANGED issued
         \/ c.op = "create" /\ c.run \notin issued /\ issued' = issued \cup {c.run}
  PROVE  Registry!Ask(t, c.op, c.principal, c.run)
<1>1. /\ pc[t] = "idle" /\ pc' = [pc EXCEPT ![t] = "waiting"]
      /\ call' = [call EXCEPT ![t] = c]
      /\ reply' = [reply EXCEPT ![t] = NoReply]
      /\ UNCHANGED <<now, items, order, lock>>
  BY DEF Begin
<1>2. SameTable /\ OverBound' = OverBound
  BY <1>1, TableUnchanged
<1>3. /\ ~ InEffect(t) /\ ~ InEffect(t)'
      /\ \A u \in Threads \ {t} : /\ InEffect(u)' = InEffect(u)
                                  /\ AskedOf(u)' = AskedOf(u)
                                  /\ AnswerOf(u)' = AnswerOf(u)
                                  /\ reply'[u] = reply[u]
                                  /\ pc'[u] = pc[u]
  BY <1>1, <1>2 DEF InEffect, AskedOf, AnswerOf, NewRecord, IInv, TypeOK
<1>4. t \notin Pending /\ Pending' = Pending \cup {t}
  BY <1>1, <1>3 DEF Pending, IInv, TypeOK
<1>5. AskedOf(t)' = [thread |-> t, op |-> c.op, principal |-> c.principal, run |-> c.run,
                     begun |-> now]
  BY <1>1 DEF AskedOf, IInv, TypeOK
<1>6. Asked' = Asked \cup {[thread |-> t, op |-> c.op, principal |-> c.principal,
                            run |-> c.run, begun |-> now]}
  BY <1>3, <1>4, <1>5 DEF Asked, Pending
<1>7. \A d \in Asked : d.thread # t
  BY <1>4 DEF Asked, AskedOf
<1>8. Answers' = [Answers EXCEPT ![t] = Registry!NoAnswer]
  BY <1>1, <1>3 DEF Answers, NoReply, Registry!NoAnswer, IInv, TypeOK
<1>9. issued' = IF c.op = "create" THEN issued \cup {c.run} ELSE issued
  OBVIOUS
<1> QED BY <1>2, <1>6, <1>7, <1>8, <1>9 DEF Registry!Ask, Registry!table, SameTable

\* Taking the lock is not seen.
LEMMA AcquireStep ==
  ASSUME IInv, NEW t \in Threads, Acquire(t)
  PROVE  SameTable /\ SameCallers /\ UNCHANGED <<now, issued>>
<1>1. /\ call[t] \in Calls
      /\ call' = [call EXCEPT ![t] = [call[t] EXCEPT !.seen = call'[t].seen]]
  BY DEF Acquire, IInv, TypeOK, Calls
<1>2. \A u \in Threads : AskedOf(u)' = AskedOf(u)
  BY <1>1 DEF AskedOf, Calls, IInv, TypeOK
<1>3. /\ pc[t] = "waiting" /\ pc' = [pc EXCEPT ![t] = "evict"]
      /\ UNCHANGED <<items, order, reply, now, issued>>
  BY DEF Acquire
<1>4. SameTable /\ OverBound' = OverBound
  BY <1>3, TableUnchanged
<1>5. \A u \in Threads : ~ InEffect(u) /\ ~ InEffect(u)'
  BY <1>3, NoneAssumption DEF Acquire, InEffect, IInv, TypeOK, Exclusive
<1>6. Pending' = Pending
  BY <1>3, <1>5 DEF Pending, IInv, TypeOK
<1> QED BY <1>2, <1>3, <1>4, <1>5, <1>6 DEF SameCallers, Asked, Answers, Pending

\* One turn of _evict_locked: a run that is due leaves.
LEMMA EvictStep ==
  ASSUME IInv, NEW t \in Threads, EvictExpired(t)
  PROVE  \E i \in DOMAIN VisibleOrder : Registry!Expire(i)
<1>1. pc[t] = "evict" /\ lock = t /\ UNCHANGED <<now, lock, issued, pc, call, reply>>
  BY DEF EvictExpired, IInv, Exclusive
<1>2. /\ ~ OverBound /\ (\A u \in Threads : ~ InEffect(u))
      /\ VisibleRuns = items /\ VisibleOrder = order
  BY <1>1, NoneInEffect
<1>3. PICK r \in Expired(call[t].seen) : Discard(r)
  BY DEF EvictExpired
<1>4. r \in Live /\ items[r].expires <= now
  <2>1. r \in Live /\ items[r].expires <= call[t].seen /\ call[t].seen <= now
    BY <1>1 DEF Expired, IInv, ClockOrder
  <2>2. items[r].expires \in Nat /\ call[t].seen \in Nat /\ now \in Nat
    BY <1>1, <2>1 DEF IInv, TypeOK, Records, Calls
  <2> QED BY <2>1, <2>2
<1>5. order \in Seq(RunIds) /\ IsInjective(order) /\ Range(order) = Live
  BY DEF IInv, TypeOK, OrderMatchesItems
<1>6. PICK i \in DOMAIN order : order[i] = r
  BY <1>4, <1>5 DEF Range
<1>7. order' = RemoveAt(order, i) /\ items' = Registry!Drop(items, r)
  BY <1>3, <1>5, <1>6, WithoutIsRemoveAt DEF Discard, Pop, Registry!Drop
<1>8. ~ OverBound'
  <2>1. Len(order') = Len(order) - 1 /\ Len(order) \in Nat /\ MaxEntries \in Nat
    BY <1>3, <1>4, DiscardProperties, MaxEntriesAssumption DEF IInv, TypeOK
  <2> QED BY <1>2, <2>1 DEF OverBound
<1>9. VisibleRuns' = items' /\ VisibleOrder' = order'
  BY <1>8 DEF VisibleRuns, VisibleOrder
<1>10. Asked' = Asked /\ Answers' = Answers
  BY <1>1, <1>2 DEF Asked, Answers, Pending, InEffect, AskedOf, IInv, Exclusive
<1>11. Registry!RemoveAt(order, i) = RemoveAt(order, i)
  BY DEF Registry!RemoveAt, RemoveAt
<1>12. Registry!Expire(i)
  BY <1>1, <1>2, <1>4, <1>6, <1>7, <1>9, <1>10, <1>11 DEF Registry!Expire
<1> QED BY <1>2, <1>12

\* A create() comes into effect in this step: it leaves the calls in flight.
LEMMA EffectAnswers ==
  ASSUME IInv, NEW t \in Threads, lock = t, t \in Pending, ~ OverBound', pc'[t] = "trim",
         \A u \in Threads \ {t} : pc'[u] = pc[u],
         UNCHANGED <<now, issued, call, reply>>
  PROVE  AskedOf(t) \in Asked /\ Registry!Answer(AskedOf(t), {NewRecord(t)})
<1>1. \A u \in Threads \ {t} : ~ InEffect(u) /\ ~ InEffect(u)'
  BY OnlyTheHolder DEF InEffect
<1>2. InEffect(t)' /\ ~ InEffect(t)
  BY DEF InEffect, Pending
<1>3. Pending' = Pending \ {t}
  BY <1>1, <1>2 DEF Pending
<1>4. \A u \in Threads : AskedOf(u)' = AskedOf(u) /\ AnswerOf(u)' = AnswerOf(u)
  BY DEF AskedOf, AnswerOf, NewRecord
<1>5. Asked' = Asked \ {AskedOf(t)}
  BY <1>3, <1>4, AskedWithout DEF Asked, Pending
<1>6. Answers' = [Answers EXCEPT ![t] = AnswerOf(t)]
  BY <1>1, <1>2, <1>4 DEF Answers
<1>7. /\ AskedOf(t).thread = t /\ AskedOf(t).principal = call[t].principal
      /\ AskedOf(t).begun = call[t].begun
  BY DEF AskedOf
<1>8. AnswerOf(t) = [principal |-> AskedOf(t).principal, begun |-> AskedOf(t).begun,
                     records |-> {NewRecord(t)}]
  BY <1>7 DEF AnswerOf
<1> QED BY <1>5, <1>6, <1>7, <1>8 DEF Registry!Answer, Asked

\* The record a create call asks for.
LEMMA RecordAsked ==
  ASSUME IInv, NEW t \in Threads, pc[t] # "idle", call[t].op = "create"
  PROVE  NewRecord(t) = [run |-> AskedOf(t).run, principal |-> AskedOf(t).principal,
                         expires |-> AskedOf(t).begun + Ttl]
<1>1. call[t].seen = call[t].begun
  BY DEF IInv, ClockOrder
<1> QED BY <1>1 DEF NewRecord, AskedOf

\* The insertion is the effect of create() when there is room, and is not seen
\* when there is none.
LEMMA InsertStep ==
  ASSUME IInv, NEW t \in Threads, Insert(t)
  PROVE  \/ AskedOf(t) \in Asked /\ Registry!Create(AskedOf(t)) /\ UNCHANGED now
         \/ SameTable /\ SameCallers /\ UNCHANGED <<now, issued>>
<1> DEFINE r == call[t].run
<1>1. /\ pc[t] = "evict" /\ lock = t /\ call[t].op = "create"
      /\ pc' = [pc EXCEPT ![t] = "trim"] /\ UNCHANGED <<now, lock, issued, call, reply>>
      /\ order' = Append(order, r)
      /\ items' = [x \in Live \cup {r} |-> IF x = r THEN NewRecord(t) ELSE items[x]]
  BY DEF Insert, Evicted, IInv, Exclusive
<1>2. /\ ~ OverBound /\ (\A u \in Threads : ~ InEffect(u))
      /\ VisibleRuns = items /\ VisibleOrder = order
  BY <1>1, NoneInEffect
<1>3. r \in RunIds /\ r \notin Live /\ order \in Seq(RunIds)
  BY <1>1 DEF IInv, TypeOK, FreshIds
<1>4. t \in Pending /\ pc'[t] = "trim" /\ \A u \in Threads \ {t} : pc'[u] = pc[u]
  BY <1>1, <1>2 DEF Pending, IInv, TypeOK
<1>5. /\ Len(order') = Len(order) + 1 /\ order'[Len(order')] = r
      /\ Len(order) \in Nat /\ MaxEntries \in Nat
  BY <1>1, <1>3, MaxEntriesAssumption
<1>6. CASE Len(order) < MaxEntries
  <2>1. ~ OverBound'
    BY <1>5, <1>6 DEF OverBound
  <2>2. VisibleRuns' = items' /\ VisibleOrder' = order'
    BY <2>1 DEF VisibleRuns, VisibleOrder
  <2>3. AskedOf(t) \in Asked /\ Registry!Answer(AskedOf(t), {NewRecord(t)})
    BY <1>1, <1>4, <2>1, EffectAnswers
  <2>4. AskedOf(t).op = "create" /\ AskedOf(t).run = r
    BY <1>1 DEF AskedOf
  <2>5. Registry!Create(AskedOf(t))
    BY <1>1, <1>2, <1>6, <2>2, <2>3, <2>4, RecordAsked DEF Registry!Create, Live
  <2> QED BY <1>1, <2>3, <2>5
<1>7. CASE ~ (Len(order) < MaxEntries)
  <2>1. OverBound'
    BY <1>5, <1>7 DEF OverBound
  <2>2. VisibleOrder' = order
    BY <1>1, <1>3, <2>1, AppendFront DEF VisibleOrder
  <2>3. VisibleRuns' = Pop(items', r)
    BY <1>5, <2>1 DEF VisibleRuns
  <2>4. Pop(items', r) = items
    BY <1>1, <1>3 DEF Pop, Live, IInv, TypeOK
  <2>5. \A u \in Threads : ~ InEffect(u)' /\ AskedOf(u)' = AskedOf(u)
    BY <1>1, <2>1 DEF InEffect, AskedOf
  <2>6. Pending' = Pending
    BY <1>1, <1>2, <1>4, <2>5 DEF Pending
  <2>7. SameCallers
    BY <1>1, <1>2, <2>5, <2>6 DEF SameCallers, Asked, Answers, Pending
  <2> QED BY <1>1, <1>2, <2>2, <2>3, <2>4, <2>7 DEF SameTable
<1> QED BY <1>6, <1>7

\* While create() trims, the record in the store is the one it made.
FreshRecord ==
  \A t \in Threads : pc[t] = "trim" =>
    call[t].run \in Live /\ items[call[t].run] = NewRecord(t)

LEMMA FreshRecordStep ==
  ASSUME IInv, FreshRecord, [Next]_vars
  PROVE  FreshRecord'
<1> SUFFICES ASSUME NEW t \in Threads, pc'[t] = "trim"
             PROVE  call'[t].run \in Live' /\ items'[call'[t].run] = NewRecord(t)'
  BY DEF FreshRecord
<1> USE DEF Live, NewRecord
<1>1. ASSUME NEW u \in Threads, Insert(u)
      PROVE  call'[t].run \in Live' /\ items'[call'[t].run] = NewRecord(t)'
  <2>1. lock = u /\ pc[u] = "evict"
    BY <1>1 DEF Insert, Evicted, IInv, Exclusive
  <2>2. t = u
    BY <1>1, <2>1 DEF Insert, IInv, TypeOK, Exclusive
  <2> QED BY <1>1, <2>2 DEF Insert
<1>2. ASSUME NEW u \in Threads, Trim(u)
      PROVE  call'[t].run \in Live' /\ items'[call'[t].run] = NewRecord(t)'
  <2>1. pc[t] = "trim" /\ lock = t /\ pc[u] = "trim" /\ UNCHANGED call
    BY <1>2 DEF Trim, IInv, Exclusive
  <2>2. PICK i \in DOMAIN order : IsVictim(i) /\ Discard(order[i])
    BY <1>2 DEF Trim
  <2>3. order[i] # call[t].run
    <3>1. Len(order) > 1 /\ Len(order) \in DOMAIN order
      BY <1>2, MaxEntriesAssumption DEF Trim, IInv, TypeOK
    <3>2. i # Len(order)
      BY <2>2, <3>1, VictimIsNotLast
    <3> QED BY <2>1, <3>1, <3>2 DEF IInv, FreshIsLast, OrderMatchesItems, IsInjective
  <2> QED BY <2>1, <2>2, <2>3 DEF FreshRecord, Discard, Pop
<1>3. ASSUME NEW u \in Threads, Request(u)
      PROVE  call'[t].run \in Live' /\ items'[call'[t].run] = NewRecord(t)'
  <2>1. PICK c : Begin(u, c)
    BY <1>3 DEF Request, BeginCreate, BeginGet, BeginList
  <2> QED BY <2>1 DEF Begin, FreshRecord, IInv, TypeOK
<1>4. ASSUME NEW u \in Threads, Acquire(u)
      PROVE  call'[t].run \in Live' /\ items'[call'[t].run] = NewRecord(t)'
  BY <1>4 DEF Acquire, FreshRecord, IInv, TypeOK
<1>5. ASSUME NEW u \in Threads, EvictExpired(u)
      PROVE  FALSE
  BY <1>5 DEF EvictExpired, IInv, Exclusive
<1>6. ASSUME NEW u \in Threads, FinishCreate(u) \/ Hit(u) \/ Miss(u) \/ FinishList(u)
      PROVE  FALSE
  <2>1. lock = u /\ pc' = [pc EXCEPT ![u] = "idle"]
    BY <1>6 DEF FinishCreate, Hit, Miss, FinishList, Return, Evicted, IInv, Exclusive
  <2> QED BY <2>1 DEF IInv, TypeOK, Exclusive
<1>7. CASE Tick \/ UNCHANGED vars
  BY <1>7 DEF Tick, vars, FreshRecord
<1> QED BY <1>1, <1>2, <1>3, <1>4, <1>5, <1>6, <1>7 DEF Next, Step

\* The two modules count and choose alike.
LEMMA SameVictim ==
  ASSUME NEW i, IsVictim(i)
  PROVE  Registry!Victim(items, order, i)
<1>1. \A S : Registry!Cardinality(S) = Cardinality(S)
  BY DEF Registry!Cardinality, Cardinality
<1>2. \A p : Registry!Share(items, order, p) = Count(p)
  BY <1>1 DEF Registry!Share, Count, Holding
<1>3. \A p : Registry!HoldsTheMost(items, order, p) <=> HoldsMost(p)
  BY <1>2 DEF Registry!HoldsTheMost, HoldsMost
<1> QED BY <1>3 DEF Registry!Victim, IsVictim

\* The removal of the victim is the effect of a create() that found the store full.
LEMMA TrimStep ==
  ASSUME IInv, FreshRecord, NEW t \in Threads, Trim(t)
  PROVE  AskedOf(t) \in Asked /\ Registry!Create(AskedOf(t)) /\ UNCHANGED now
<1> DEFINE r == call[t].run
           c == AskedOf(t)
<1>1. /\ pc[t] = "trim" /\ lock = t /\ call[t].op = "create" /\ r \in Live
      /\ order[Len(order)] = r /\ Len(order) >= 1
      /\ items[r] = NewRecord(t)
      /\ UNCHANGED <<now, lock, issued, pc, call, reply>>
  BY DEF Trim, IInv, Exclusive, FreshIsLast, FreshRecord
<1>2. /\ Len(order) = MaxEntries + 1 /\ MaxEntries \in Nat /\ order \in Seq(RunIds)
      /\ IsInjective(order) /\ DOMAIN order = 1 .. MaxEntries + 1
  <2>1. /\ Len(order) \in Nat /\ MaxEntries \in Nat /\ order \in Seq(RunIds)
        /\ Len(order) <= MaxEntries + 1 /\ Len(order) > MaxEntries
        /\ IsInjective(order)
    BY MaxEntriesAssumption DEF Trim, IInv, TypeOK, Bounded, OrderMatchesItems
  <2> QED BY <2>1
<1>3. OverBound /\ VisibleOrder = Front(order) /\ VisibleRuns = Pop(items, r)
  BY <1>1, <1>2 DEF OverBound, VisibleOrder, VisibleRuns
<1>4. PICK i \in DOMAIN order : IsVictim(i) /\ Discard(order[i])
  BY DEF Trim
<1>5. i \in 1 .. MaxEntries
  <2>1. i # Len(order)
    BY <1>2, <1>4, VictimIsNotLast, MaxEntriesAssumption
  <2> QED BY <1>2, <2>1
<1>6. order[i] \in Live
  BY DEF IInv, OrderMatchesItems, Range
<1>7. ~ OverBound'
  BY <1>2, <1>4, <1>6, DiscardProperties DEF OverBound
<1>8. /\ VisibleRuns' = Registry!Drop(items, order[i])
      /\ VisibleOrder' = Registry!RemoveAt(order, i)
  <2>1. VisibleRuns' = items' /\ VisibleOrder' = order'
    BY <1>7 DEF VisibleRuns, VisibleOrder
  <2>2. items' = Pop(items, order[i]) /\ order' = RemoveAt(order, i)
    BY <1>2, <1>4, WithoutIsRemoveAt DEF Discard
  <2> QED BY <2>1, <2>2 DEF Registry!Drop, Pop, Registry!RemoveAt, RemoveAt
<1>9. c \in Asked /\ Registry!Answer(c, {NewRecord(t)})
  <2>1. t \in Pending
    BY <1>1, <1>3 DEF Pending, InEffect
  <2> QED BY <1>1, <1>7, <2>1, EffectAnswers
<1>10. c.op = "create" /\ c.run = r
  BY <1>1 DEF AskedOf
<1>11. Append(VisibleOrder, r) = order /\ Len(VisibleOrder) = MaxEntries
  BY <1>1, <1>2, <1>3, FrontAppend
<1> DEFINE new == [run |-> c.run, principal |-> c.principal, expires |-> c.begun + Ttl]
           f == [x \in DOMAIN VisibleRuns \cup {r} |-> IF x = r THEN new ELSE VisibleRuns[x]]
<1>12. new = NewRecord(t)
  BY <1>1, RecordAsked
<1> HIDE DEF new
<1>13. f = items
  <2>1. items \in [Live -> Records] /\ VisibleRuns = [x \in Live \ {r} |-> items[x]]
    BY <1>3 DEF Pop, Live, IInv, TypeOK
  <2>2. DOMAIN f = Live
    BY <1>1, <2>1
  <2>3. \A x \in Live : f[x] = items[x]
    BY <1>1, <1>12, <2>1, <2>2
  <2> QED BY <2>1, <2>2, <2>3
<1>14. Registry!Victim(f, Append(VisibleOrder, r), i)
  BY <1>4, <1>11, <1>13, SameVictim
<1>15. /\ VisibleRuns' = Registry!Drop(f, Append(VisibleOrder, r)[i])
       /\ VisibleOrder' = Registry!RemoveAt(Append(VisibleOrder, r), i)
  BY <1>8, <1>11, <1>13
<1>16. Registry!Answer(c, {new})
  BY <1>9, <1>12
<1> HIDE DEF c
<1>17. Registry!Create(c)
  BY <1>5, <1>10, <1>11, <1>14, <1>15, <1>16 DEF Registry!Create, new
<1> QED BY <1>1, <1>9, <1>17 DEF c

\* The return of create() is not seen: it was in effect already.
LEMMA FinishCreateStep ==
  ASSUME IInv, NEW t \in Threads, FinishCreate(t)
  PROVE  SameTable /\ SameCallers /\ UNCHANGED <<now, issued>>
<1>1. /\ pc[t] = "trim" /\ lock = t /\ Len(order) <= MaxEntries /\ UNCHANGED <<items, order>>
      /\ pc' = [pc EXCEPT ![t] = "idle"] /\ reply' = [reply EXCEPT ![t] = AnswerOf(t)]
      /\ (\A u \in Threads \ {t} : call'[u] = call[u])
      /\ UNCHANGED <<now, issued>>
  BY DEF FinishCreate, Return, AnswerOf, IInv, TypeOK, Exclusive
<1>2. InEffect(t) /\ ~ OverBound
  <2>1. Len(order) \in Nat /\ MaxEntries \in Nat
    BY MaxEntriesAssumption DEF IInv, TypeOK
  <2> QED BY <1>1, <2>1 DEF InEffect, OverBound
<1>3. SameTable
  BY <1>1, TableUnchanged
<1>4. \A u \in Threads : ~ InEffect(u)' /\ (u # t => ~ InEffect(u))
  BY <1>1 DEF InEffect, IInv, TypeOK, Exclusive
<1>5. Pending' = Pending /\ t \notin Pending
  BY <1>1, <1>2, <1>4 DEF Pending, IInv, TypeOK
<1>6. \A u \in Pending : AskedOf(u)' = AskedOf(u)
  BY <1>1, <1>5 DEF AskedOf, Pending
<1>7. Asked' = Asked
  BY <1>5, <1>6 DEF Asked
<1>8. Answers' = Answers
  BY <1>1, <1>2, <1>4 DEF Answers, IInv, TypeOK
<1> QED BY <1>1, <1>3, <1>7, <1>8 DEF SameCallers

\* A hit is served, and its run moves to the recent end.
LEMMA HitStep ==
  ASSUME IInv, NEW t \in Threads, Hit(t)
  PROVE  AskedOf(t) \in Asked /\ Registry!Serve(AskedOf(t)) /\ UNCHANGED now
<1> DEFINE r == call[t].run
           c == AskedOf(t)
<1>1. /\ pc[t] = "evict" /\ call[t].op = "get" /\ r \in Live /\ Expired(call[t].seen) = {}
      /\ items[r].principal = call[t].principal
      /\ order' = Append(Without(order, r), r) /\ Return(t, {items[r]}) /\ UNCHANGED items
  BY DEF Hit, Evicted
<1>2. ~ OverBound /\ VisibleRuns = items /\ VisibleOrder = order
  BY <1>1, NoneInEffect
<1>3. order \in Seq(RunIds) /\ IsInjective(order) /\ Range(order) = Live /\ r \in RunIds
  BY <1>1 DEF IInv, TypeOK, OrderMatchesItems
<1>4. PICK i \in DOMAIN order : order[i] = r
  BY <1>1, <1>3 DEF Range
<1>5. Without(order, r) = RemoveAt(order, i)
  BY <1>3, <1>4, WithoutIsRemoveAt
<1>6. ~ OverBound'
  <2>1. Without(order, r) \in Seq(RunIds) /\ Len(Without(order, r)) = Len(order) - 1
    BY <1>3, <1>4, WithoutProperties DEF Range
  <2>2. Len(order') = Len(order)
    BY <1>1, <1>3, <2>1
  <2> QED BY <1>2, <2>2 DEF OverBound
<1>7. VisibleRuns' = items /\ VisibleOrder' = Append(Registry!RemoveAt(order, i), r)
  BY <1>1, <1>5, <1>6 DEF VisibleRuns, VisibleOrder, Registry!RemoveAt, RemoveAt
<1>8. c \in Asked /\ Registry!Answer(c, {items[r]})
  BY <1>1, ReturnAnswers
<1>9. items[r].expires > call[t].begun
  BY <1>1, EvictedAreGone
<1>10. /\ c.op = "get" /\ c.run = r /\ c.principal = call[t].principal
       /\ c.begun = call[t].begun
  BY <1>1 DEF AskedOf
<1> HIDE DEF c
<1>11. Registry!Serve(c)
  BY <1>1, <1>2, <1>4, <1>7, <1>8, <1>9, <1>10 DEF Registry!Serve
<1> QED BY <1>1, <1>8, <1>11 DEF c, Return

\* A miss is denied.
LEMMA MissStep ==
  ASSUME IInv, NEW t \in Threads, Miss(t)
  PROVE  AskedOf(t) \in Asked /\ Registry!Deny(AskedOf(t)) /\ UNCHANGED now
<1>1. /\ pc[t] = "evict" /\ call[t].op = "get" /\ Return(t, {}) /\ UNCHANGED <<items, order>>
      /\ ~ (call[t].run \in Live /\ items[call[t].run].principal = call[t].principal)
  BY DEF Miss, Evicted
<1>2. VisibleRuns = items
  BY <1>1, NoneInEffect
<1>3. SameTable
  BY <1>1, TableUnchanged
<1>4. AskedOf(t) \in Asked /\ Registry!Answer(AskedOf(t), {})
  BY <1>1, ReturnAnswers
<1>5. Registry!Deny(AskedOf(t))
  BY <1>1, <1>2, <1>3, <1>4 DEF Registry!Deny, Registry!table, SameTable, AskedOf, Live
<1> QED BY <1>1, <1>4, <1>5 DEF Return

\* A listing answers all the runs of its principal.
LEMMA ListStep ==
  ASSUME IInv, NEW t \in Threads, FinishList(t)
  PROVE  AskedOf(t) \in Asked /\ Registry!Enumerate(AskedOf(t)) /\ UNCHANGED now
<1> DEFINE p == call[t].principal
           R == {items[order[i]] : i \in Holding(p)}
<1>1. /\ pc[t] = "evict" /\ call[t].op = "list" /\ Return(t, R) /\ UNCHANGED <<items, order>>
      /\ Expired(call[t].seen) = {}
  BY DEF FinishList, Evicted
<1>2. VisibleRuns = items
  BY <1>1, NoneInEffect
<1>3. SameTable
  BY <1>1, TableUnchanged
<1>4. Registry!RunsOf(p) = R
  <2>1. Range(order) = Live
    BY DEF IInv, OrderMatchesItems
  <2> QED BY <1>2, <2>1 DEF Registry!RunsOf, Holding, Range, Live
<1>5. \A rec \in R : rec.expires > call[t].begun
  <2>1. \A i \in Holding(p) : order[i] \in Live
    BY DEF Holding, IInv, OrderMatchesItems, Range
  <2> QED BY <1>1, <2>1, EvictedAreGone
<1> HIDE DEF R
<1>6. AskedOf(t) \in Asked /\ Registry!Answer(AskedOf(t), R)
  BY <1>1, ReturnAnswers
<1>7. AskedOf(t).op = "list" /\ AskedOf(t).principal = p /\ AskedOf(t).begun = call[t].begun
  BY <1>1 DEF AskedOf
<1>8. Registry!Enumerate(AskedOf(t))
  BY <1>3, <1>4, <1>5, <1>6, <1>7 DEF Registry!Enumerate, Registry!table, SameTable
<1> QED BY <1>1, <1>6, <1>8 DEF Return

\* Making a call, of any kind.
LEMMA RequestStep ==
  ASSUME IInv, NEW t \in Threads, Request(t)
  PROVE  Registry!Request(t) /\ UNCHANGED now
<1>1. now \in Nat
  BY DEF IInv, TypeOK
<1>2. PICK p \in Principals : \/ \E r \in RunIds : BeginCreate(t, p, r) \/ BeginGet(t, p, r)
                              \/ BeginList(t, p)
  BY DEF Request
<1>3. ASSUME NEW r \in RunIds, BeginCreate(t, p, r)
      PROVE  Registry!Ask(t, "create", p, r) /\ UNCHANGED now
  <2> DEFINE c == [op |-> "create", principal |-> p, run |-> r, begun |-> now, seen |-> now]
  <2>1. c \in Calls /\ c.op = "create" /\ c.principal = p /\ c.run = r /\ c.begun = now
    BY <1>1 DEF Calls, Ops
  <2>2. Begin(t, c) /\ r \notin issued /\ issued' = issued \cup {r}
    BY <1>3 DEF BeginCreate
  <2> HIDE DEF c
  <2>3. Registry!Ask(t, c.op, c.principal, c.run)
    BY <2>1, <2>2, BeginStep
  <2> QED BY <2>1, <2>2, <2>3 DEF Begin
<1>4. ASSUME NEW r \in RunIds, BeginGet(t, p, r)
      PROVE  Registry!Ask(t, "get", p, r) /\ UNCHANGED now
  <2> DEFINE c == [op |-> "get", principal |-> p, run |-> r, begun |-> now, seen |-> now]
  <2>1. c \in Calls /\ c.op = "get" /\ c.principal = p /\ c.run = r /\ c.begun = now
    BY <1>1 DEF Calls, Ops
  <2>2. Begin(t, c) /\ UNCHANGED issued
    BY <1>4 DEF BeginGet
  <2> HIDE DEF c
  <2>3. Registry!Ask(t, c.op, c.principal, c.run)
    BY <2>1, <2>2, BeginStep
  <2> QED BY <2>1, <2>2, <2>3 DEF Begin
<1>5. ASSUME BeginList(t, p)
      PROVE  Registry!Ask(t, "list", p, None) /\ UNCHANGED now
  <2> DEFINE c == [op |-> "list", principal |-> p, run |-> None, begun |-> now, seen |-> now]
  <2>1. c \in Calls /\ c.op = "list" /\ c.principal = p /\ c.run = None /\ c.begun = now
    BY <1>1 DEF Calls, Ops
  <2>2. Begin(t, c) /\ UNCHANGED issued
    BY <1>5 DEF BeginList
  <2> HIDE DEF c
  <2>3. Registry!Ask(t, c.op, c.principal, c.run)
    BY <2>1, <2>2, BeginStep
  <2> QED BY <2>1, <2>2, <2>3 DEF Begin
<1> QED BY <1>2, <1>3, <1>4, <1>5 DEF Registry!Request

\* Every step of the store is a step of the registry, or is not seen.
LEMMA NextStep ==
  ASSUME IInv, FreshRecord, [Next]_vars
  PROVE  [Registry!Next]_(Registry!regVars)
<1> DEFINE Unseen == SameTable /\ SameCallers /\ UNCHANGED <<now, issued>>
<1>1. Unseen => UNCHANGED Registry!regVars
  BY DEF SameTable, SameCallers, Registry!regVars
<1>2. CASE Tick
  BY <1>2, TickStep DEF Registry!Next
<1>3. ASSUME NEW t \in Threads, Request(t) PROVE Registry!Next
  BY <1>3, RequestStep DEF Registry!Next
<1>4. ASSUME NEW t \in Threads, Acquire(t) \/ FinishCreate(t) PROVE Unseen
  BY <1>4, AcquireStep, FinishCreateStep
<1>5. ASSUME NEW t \in Threads, EvictExpired(t) PROVE Registry!Next
  BY <1>5, EvictStep DEF Registry!Next, EvictExpired
<1>6. ASSUME NEW t \in Threads, Insert(t) PROVE Registry!Next \/ Unseen
  <2>1. \/ AskedOf(t) \in Asked /\ Registry!Create(AskedOf(t)) /\ UNCHANGED now
        \/ Unseen
    BY <1>6, InsertStep
  <2> HIDE DEF Unseen
  <2> QED BY <2>1 DEF Registry!Next, Registry!TakeEffect
<1>7. ASSUME NEW t \in Threads, Trim(t) \/ Hit(t) \/ Miss(t) \/ FinishList(t)
      PROVE  Registry!Next
  BY <1>7, TrimStep, HitStep, MissStep, ListStep DEF Registry!Next, Registry!TakeEffect
<1>8. CASE UNCHANGED vars
  BY <1>8, TableUnchanged DEF vars, SameTable, SameCallers, Registry!regVars, Asked, Answers, Pending,
       InEffect, OverBound, AskedOf, AnswerOf, NewRecord
<1> HIDE DEF Unseen
<1> QED BY <1>1, <1>2, <1>3, <1>4, <1>5, <1>6, <1>7, <1>8 DEF Next, Step

\* The empty store is the empty registry.
LEMMA InitStep ==
  ASSUME Init
  PROVE  Registry!Init /\ now = 0 /\ FreshRecord
<1>1. Len(order) = 0 /\ ~ OverBound
  BY MaxEntriesAssumption DEF Init, OverBound
<1>2. Pending = {} /\ \A t \in Threads : ~ InEffect(t)
  BY DEF Init, Pending, InEffect
<1> QED BY <1>1, <1>2 DEF Init, Registry!Init, VisibleRuns, VisibleOrder, Asked, Answers,
                          NoReply, Registry!NoAnswer, FreshRecord

\* In every interleaving of any number of threads each call of the run store
\* takes effect atomically, as a call of the bounded registry that loses a run
\* only to its time-to-live or, for room, from a principal holding the most.
THEOREM StoreImplementsRegistry == Spec => ImplementsRegistry
<1>1. Init => Registry!Init /\ now = 0 /\ FreshRecord
  BY InitStep
<1>2. IInv /\ FreshRecord /\ [Next]_vars => FreshRecord'
  BY FreshRecordStep
<1>3. IInv /\ FreshRecord /\ [Next]_vars => [Registry!Next]_(Registry!regVars)
  BY NextStep
<1> QED BY <1>1, <1>2, <1>3, Inductive, PTL DEF Spec, ImplementsRegistry, Registry!Spec
=============================================================================

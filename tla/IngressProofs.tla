---------------------------- MODULE IngressProofs ----------------------------
(***************************************************************************)
(* Proofs about the HTTP server, for any number of requests, any           *)
(* concurrency limit, any deployment, issuer and traffic: the semaphore of *)
(* the concurrency limit, the token verifier and the request path that     *)
(* puts them together.                                                     *)
(***************************************************************************)
EXTENDS Ingress, FiniteSetTheorems, TLAPS

-----------------------------------------------------------------------------
(* The inductive invariant. *)

\* Where a request is, and what it is answered by then.
RequestsOK ==
  /\ pc \in [Requests -> PcValues]
  /\ answer \in [Requests -> Nat]

Queued == {r \in Requests : fut[r] # "none"}

Inside == {"inside", "verifying", "tool", "storing", "stored"}

\* A request is in the queue exactly while the middleware waits for it, and
\* holds a permit only between the middleware and the end of its response.
PlaceOK ==
  \A r \in Requests :
    /\ pc[r] = "waiting" <=> r \in Queued
    /\ r \in held => pc[r] \in Inside

SemaphoreOK == QueueOK /\ PermitsConserved /\ NoLostWakeup

\* The verifier's shared attributes, and what a verification knows of them
\* where it is: of an issuer whose keys are offered over HTTPS, no other
\* address is ever stored, whichever verifications store one.
VerifierTypes ==
  /\ vpc \in [Verifiers -> VpcValues]
  /\ DOMAIN presented = Verifiers
  /\ failed \in [Verifiers -> BOOLEAN]

DiscoveryOK ==
  Sound(issuer) =>
    /\ jwksUri \in {None, "https"}
    /\ jwksUri = None => issuer.jwks = None
    /\ \A t \in Verifiers :
         /\ vpc[t] \in {"oidc", "oauth"} => issuer.jwks = None
         /\ vpc[t] = "oauth" => failed[t] \/ issuer.oidc = "nouri"
         /\ vpc[t] \in {"secure", "build"} => jwksUri = "https"

VerifierOK == VerifierTypes /\ DiscoveryOK /\ RejectedForCause

\* A verification is of the token its request brought.
VerificationOK ==
  \A r \in Requests :
    /\ vpc[r] # "off" => /\ Hosted /\ profile[r].token # None
                         /\ presented[r] = profile[r].token
    /\ vpc[r] = "accepted" => Valid(presented[r])
    /\ pc[r] \in {"new", "limit", "waiting", "inside"} => vpc[r] = "off"

AtTool == {"tool", "storing", "stored"}

\* A request is at its tool only when the server is up and, on a hosted
\* server, when its own verification has accepted its token.
AdmittedOK ==
  /\ server = "up" => Startable
  /\ \A r \in Requests :
       /\ pc[r] # "new" => server = "up"
       /\ pc[r] \in AtTool /\ Hosted => vpc[r] = "accepted" /\ profile[r].token.scoped

\* A request whose tool has been reached is answered by its result or by the
\* timeout, and by nothing else, from then on.
AnswerOK ==
  \A r \in Requests :
    /\ pc[r] \in {"new", "limit", "waiting", "inside", "verifying"} => answer[r] \in {Waiting, 504}
    /\ pc[r] \in AtTool \/ r \in issued => answer[r] \in {Waiting, 200, 504}
    /\ r \in issued => pc[r] \in {"storing", "stored", "done"}

\* The principal that the request x has proved to be.
Attributed(x, principal) ==
  IF config.required \/ config.oauth # "none"
  THEN /\ profile[x].token # None /\ Valid(profile[x].token) /\ profile[x].token.scoped
       /\ principal = PrincipalOf(profile[x].token)
  ELSE principal = Local

\* The calls in flight, and the runs in the table, are attributed.
StoreOK ==
  /\ \A c \in asked : c.op = "create" => Attributed(c.run, c.principal)
  /\ \A x \in DOMAIN runs : Attributed(x, runs[x].principal)

IInv ==
  /\ RequestsOK /\ SemaphoreOK /\ PlaceOK
  /\ VerifierOK /\ VerificationOK /\ AdmittedOK /\ AnswerOK /\ StoreOK

-----------------------------------------------------------------------------
(* The queue of the semaphore. *)

\* self._waiters.remove(fut): the one place of the future is gone.
LEMMA WithoutProperties ==
  ASSUME NEW S, NEW q \in Seq(S), IsInjective(q), NEW r \in Range(q)
  PROVE  /\ Without(q, r) \in Seq(S)
         /\ Range(Without(q, r)) = Range(q) \ {r}
         /\ IsInjective(Without(q, r))
<1> DEFINE i == CHOOSE i \in DOMAIN q : q[i] = r
           w == Without(q, r)
           old(j) == IF j < i THEN j ELSE j + 1
<1>1. i \in 1 .. Len(q) /\ q[i] = r
  BY DEF Range
<1>2. /\ w \in Seq(S) /\ Len(w) = Len(q) - 1
      /\ \A j \in 1 .. Len(q) - 1 : w[j] = q[old(j)]
  <2> DEFINE a == SubSeq(q, 1, i - 1)
             b == SubSeq(q, i + 1, Len(q))
  <2>1. w = a \o b
    BY DEF Without, RemoveAt
  <2> HIDE DEF i, w
  <2>2. /\ a \in Seq(S) /\ Len(a) = i - 1
        /\ \A j \in 1 .. i - 1 : a[j] = q[j]
    BY <1>1
  <2>3. /\ b \in Seq(S) /\ Len(b) = Len(q) - i
        /\ \A j \in 1 .. Len(q) - i : b[j] = q[i + j]
    BY <1>1
  <2> HIDE DEF a, b
  <2>4. /\ w \in Seq(S) /\ Len(w) = Len(q) - 1
    BY <1>1, <2>1, <2>2, <2>3
  <2>5. ASSUME NEW j \in 1 .. Len(q) - 1
        PROVE  w[j] = q[old(j)]
    <3>1. CASE j < i
      BY <1>1, <2>1, <2>2, <2>3, <3>1
    <3>2. CASE ~ (j < i)
      <4>1. w[j] = b[j - (i - 1)]
        BY <1>1, <2>1, <2>2, <2>3, <3>2
      <4>2. j - (i - 1) \in 1 .. Len(q) - i /\ i + (j - (i - 1)) = j + 1
        BY <1>1, <3>2
      <4> QED BY <2>3, <3>2, <4>1, <4>2
    <3> QED BY <3>1, <3>2
  <2> QED BY <2>4, <2>5
<1> HIDE DEF i, w
<1>3. DOMAIN w = 1 .. Len(q) - 1 /\ DOMAIN q = 1 .. Len(q) /\ Len(q) \in Nat
  BY <1>1, <1>2
<1>4. \A j \in 1 .. Len(q) - 1 : old(j) \in 1 .. Len(q) /\ old(j) # i
  BY <1>1, <1>3
<1>5. ASSUME NEW x \in Range(w) PROVE x \in Range(q) \ {r}
  <2>1. PICK j \in 1 .. Len(q) - 1 : x = w[j]
    BY <1>3 DEF Range
  <2>2. PICK k \in 1 .. Len(q) : k # i /\ x = q[k]
    BY <1>2, <1>4, <2>1
  <2> QED BY <1>1, <1>3, <2>2 DEF Range, IsInjective
<1>6. ASSUME NEW x \in Range(q) \ {r} PROVE x \in Range(w)
  <2>1. PICK k \in 1 .. Len(q) : k # i /\ x = q[k]
    BY <1>1, <1>3 DEF Range
  <2>2. PICK j \in 1 .. Len(q) - 1 : old(j) = k
    <3>1. CASE k < i
      BY <1>1, <1>3, <2>1, <3>1
    <3>2. CASE k > i
      <4>1. k - 1 \in 1 .. Len(q) - 1 /\ old(k - 1) = k
        BY <1>1, <1>3, <3>2
      <4> QED BY <4>1
    <3> QED BY <1>1, <1>3, <2>1, <3>1, <3>2
  <2> QED BY <1>2, <1>3, <2>1, <2>2 DEF Range
<1>7. IsInjective(w)
  <2> SUFFICES ASSUME NEW a \in 1 .. Len(q) - 1, NEW b \in 1 .. Len(q) - 1, w[a] = w[b]
               PROVE  a = b
    BY <1>3 DEF IsInjective
  <2>1. old(a) = old(b)
    <3>1. old(a) \in 1 .. Len(q) /\ old(b) \in 1 .. Len(q) /\ q[old(a)] = q[old(b)]
      BY <1>2, <1>4
    <3> HIDE DEF old
    <3> QED BY <3>1, <1>3 DEF IsInjective
  <2> QED BY <2>1, <1>1, <1>3
<1> QED BY <1>2, <1>5, <1>6, <1>7 DEF w

\* A new waiter goes to the end of the queue.
LEMMA EnqueueProperties ==
  ASSUME NEW S, NEW q \in Seq(S), IsInjective(q), NEW r \in S, r \notin Range(q)
  PROVE  /\ Append(q, r) \in Seq(S)
         /\ Range(Append(q, r)) = Range(q) \cup {r}
         /\ IsInjective(Append(q, r))
<1> DEFINE w == Append(q, r)
<1>1. /\ w \in Seq(S) /\ Len(q) \in Nat
      /\ DOMAIN w = 1 .. (Len(q) + 1) /\ DOMAIN q = 1 .. Len(q)
      /\ w[Len(q) + 1] = r
      /\ \A j \in 1 .. Len(q) : w[j] = q[j]
  OBVIOUS
<1> HIDE DEF w
<1>2. Range(w) = Range(q) \cup {r}
  <2>1. ASSUME NEW x \in Range(w) PROVE x \in Range(q) \cup {r}
    BY <1>1 DEF Range
  <2>2. ASSUME NEW x \in Range(q) \cup {r} PROVE x \in Range(w)
    BY <1>1 DEF Range
  <2> QED BY <2>1, <2>2
<1>3. IsInjective(w)
  BY <1>1 DEF IsInjective, Range
<1> QED BY <1>1, <1>2, <1>3 DEF w

-----------------------------------------------------------------------------
(* The semaphore. *)

\* Permits are held by finitely many requests.
LEMMA ChargedFinite ==
  ASSUME QueueOK
  PROVE  IsFiniteSet(Charged) /\ Cardinality(Charged) \in Nat
<1>1. Charged \in SUBSET Requests
  BY DEF QueueOK, Charged
<1> QED BY <1>1, RequestsAssumption, FS_Subset, FS_CardinalityType

\* What a wakeup does: it takes as many permits as it grants, never more than
\* are free; it grants one if it may and somebody waits; and if a permit is
\* left when it may use them all, nobody waits any more.
LEMMA WakeUpGrants ==
  ASSUME NEW n \in Nat, NEW v \in Nat, n <= v, NEW q, NEW f, WakeUp(n, v, q, f)
  PROVE  \E W \in SUBSET PendingIn(q) :
           /\ IsFiniteSet(W) /\ Cardinality(W) \in Nat
           /\ value' = v - Cardinality(W) /\ value' \in Nat
           /\ waiters' = q
           /\ fut' = [s \in Requests |-> IF s \in W THEN "granted" ELSE f[s]]
           /\ n > 0 /\ PendingIn(q) # {} => W # {}
           /\ n = v /\ value' > 0 => W = PendingIn(q)
<1> DEFINE P == PendingIn(q)
<1>1. P \in SUBSET Requests
  BY DEF PendingIn
<1>2. IsFiniteSet(P) /\ Cardinality(P) \in Nat
  BY <1>1, RequestsAssumption, FS_Subset, FS_CardinalityType
<1>3. PICK W \in SUBSET P :
        /\ Cardinality(W) = IF n <= Cardinality(P) THEN n ELSE Cardinality(P)
        /\ value' = v - Cardinality(W)
        /\ fut' = [s \in Requests |-> IF s \in W THEN "granted" ELSE f[s]]
        /\ waiters' = q
  BY DEF WakeUp
<1> HIDE DEF P
<1>4. /\ IsFiniteSet(W) /\ Cardinality(W) \in Nat
      /\ Cardinality(P) = Cardinality(W) => P = W
  BY <1>2, FS_Subset, FS_CardinalityType
<1>5. Cardinality(W) <= n /\ value' \in Nat
  BY <1>2, <1>3
<1>6. ASSUME n > 0, P # {} PROVE W # {}
  <2>1. Cardinality(P) # 0
    BY <1>2, <1>6, FS_EmptySet
  <2>2. Cardinality(W) # 0
    BY <1>2, <1>3, <1>6, <2>1
  <2> QED BY <2>2, FS_EmptySet
<1>7. ASSUME n = v, value' > 0 PROVE W = P
  BY <1>2, <1>3, <1>4, <1>7
<1> QED BY <1>3, <1>4, <1>5, <1>6, <1>7 DEF P

\* Permits that are given to requests that had none are counted once.
LEMMA GivenOnce ==
  ASSUME NEW C, IsFiniteSet(C), NEW W, IsFiniteSet(W), C \cap W = {},
         NEW v \in Nat, v + Cardinality(C) = Limit,
         value' = v - Cardinality(W), Charged' = C \cup W
  PROVE  PermitsConserved'
<1>1. Cardinality(C) \in Nat /\ Cardinality(W) \in Nat /\ Cardinality(C \cap W) = 0
  BY FS_CardinalityType, FS_EmptySet
<1>2. Cardinality(C \cup W) = Cardinality(C) + Cardinality(W)
  <2>1. Cardinality(C \cup W) = Cardinality(C) + Cardinality(W) - Cardinality(C \cap W)
    BY FS_Union, Zenon
  <2> QED BY <1>1, <2>1
<1> QED BY <1>1, <1>2 DEF PermitsConserved

\* acquire(), the fast path.
LEMMA AcquireNowOK ==
  ASSUME SemaphoreOK, NEW r \in Requests, r \notin Queued, r \notin held, AcquireNow(r)
  PROVE  SemaphoreOK' /\ Queued' = Queued /\ held' = held \cup {r}
<1> USE DEF SemaphoreOK
<1>1. value \in Nat \ {0} /\ Range(waiters) = Queued /\ r \notin Charged
  BY DEF AcquireNow, Locked, QueueOK, Queued, Charged
<1>2. PendingIn(waiters) = {}
  BY DEF AcquireNow, Locked, PendingIn
<1>3. QueueOK'
  BY <1>1 DEF AcquireNow, QueueOK, Range, IsInjective
<1>4. PermitsConserved'
  <2>1. Charged' = Charged \cup {r}
    BY DEF AcquireNow, Charged
  <2>2. Cardinality(Charged \cup {r}) = Cardinality(Charged) + 1
    BY <1>1, ChargedFinite, FS_AddElement
  <2> QED BY <1>1, <2>1, <2>2, ChargedFinite DEF AcquireNow, PermitsConserved
<1>5. NoLostWakeup'
  BY <1>2 DEF AcquireNow, NoLostWakeup, PendingIn
<1> QED BY <1>3, <1>4, <1>5 DEF AcquireNow, Queued

\* acquire() waits: whoever queues up behind a free permit has in front of it a
\* waiter that will wake it.
LEMMA EnqueueOK ==
  ASSUME SemaphoreOK, NEW r \in Requests, r \notin Queued, r \notin held, Enqueue(r)
  PROVE  SemaphoreOK' /\ Queued' = Queued \cup {r} /\ held' = held
<1> USE DEF SemaphoreOK
<1>1. /\ waiters \in Seq(Requests) /\ IsInjective(waiters) /\ value \in Nat
      /\ Range(waiters) = Queued /\ r \notin Range(waiters)
  BY DEF QueueOK, Queued
<1>2. /\ waiters' \in Seq(Requests) /\ IsInjective(waiters')
      /\ Range(waiters') = Range(waiters) \cup {r}
  BY <1>1, EnqueueProperties DEF Enqueue
<1>3. Queued' = Queued \cup {r}
  BY DEF Enqueue, Queued, QueueOK
<1>4. QueueOK'
  BY <1>1, <1>2, <1>3 DEF Enqueue, QueueOK, Queued, FutValues
<1>5. PermitsConserved'
  <2>1. Charged' = Charged
    BY <1>1 DEF Enqueue, Charged, QueueOK, Queued
  <2> QED BY <2>1 DEF Enqueue, PermitsConserved
<1>6. NoLostWakeup'
  <2> SUFFICES ASSUME value > 0
               PROVE  \E s \in Range(waiters') : fut'[s] # "pending"
    BY DEF Enqueue, NoLostWakeup
  <2>1. PICK s \in Range(waiters) : fut[s] # "cancelled"
    BY <1>1 DEF Enqueue, Locked
  <2>2. \E u \in Range(waiters) : fut[u] # "pending"
    BY <1>1, <2>1 DEF NoLostWakeup, PendingIn, Queued
  <2> QED BY <1>1, <1>2, <2>2 DEF Enqueue, QueueOK
<1> QED BY <1>3, <1>4, <1>5, <1>6 DEF Enqueue

\* The timeout of an acquire marks the future, which stays where it is.
LEMMA CancelWaitOK ==
  ASSUME SemaphoreOK, NEW r \in Requests, CancelWait(r)
  PROVE  SemaphoreOK' /\ Queued' = Queued /\ held' = held
<1> USE DEF SemaphoreOK
<1>1. /\ UNCHANGED <<value, waiters, held>>
      /\ fut \in [Requests -> FutValues] /\ fut' \in [Requests -> FutValues]
      /\ \A s \in Requests \ {r} : fut'[s] = fut[s]
      /\ \/ fut[r] = "pending" /\ fut'[r] = "cancelled"
         \/ fut[r] = "granted" /\ fut'[r] = "expired"
  BY DEF CancelWait, QueueOK, FutValues
<1>2. Queued' = Queued
  BY <1>1 DEF Queued
<1>3. QueueOK'
  BY <1>1, <1>2 DEF QueueOK, Queued
<1>4. Charged' = Charged
  BY <1>1 DEF Charged
<1>5. PermitsConserved'
  BY <1>1, <1>4 DEF PermitsConserved
<1>6. NoLostWakeup'
  BY <1>1 DEF NoLostWakeup, PendingIn, QueueOK, Queued
<1> QED BY <1>1, <1>2, <1>3, <1>5, <1>6

\* A waiter runs, with v permits free once its own is accounted for and C the
\* other requests that are charged for one: it leaves the queue and hands on
\* every permit that is free.
LEMMA LeaveQueueOK ==
  ASSUME SemaphoreOK, NEW r \in Queued, NEW v \in Nat, LeaveQueue(r, v),
         held' \in {held, held \cup {r}},
         NEW C, C \in SUBSET Requests, v + Cardinality(C) = Limit,
         C = held' \cup {s \in Requests \ {r} : fut[s] \in {"granted", "expired"}}
  PROVE  SemaphoreOK' /\ Queued' = Queued \ {r}
<1> USE DEF SemaphoreOK
<1> DEFINE q == Without(waiters, r)
           f == [fut EXCEPT ![r] = "none"]
<1>1. /\ waiters \in Seq(Requests) /\ IsInjective(waiters) /\ fut \in [Requests -> FutValues]
      /\ Range(waiters) = Queued /\ held \subseteq Requests /\ held \cap Queued = {}
      /\ r \in Requests
  BY DEF QueueOK, Queued
<1>2. q \in Seq(Requests) /\ Range(q) = Queued \ {r} /\ IsInjective(q)
  BY <1>1, WithoutProperties
<1>3. WakeUp(v, v, q, f) /\ f = [s \in Requests |-> IF s = r THEN "none" ELSE fut[s]]
  BY <1>1 DEF LeaveQueue
<1> HIDE DEF q, f
<1>4. v <= v
  OBVIOUS
<1>5. PICK W \in SUBSET PendingIn(q) :
        /\ IsFiniteSet(W) /\ Cardinality(W) \in Nat
        /\ value' = v - Cardinality(W) /\ value' \in Nat
        /\ waiters' = q
        /\ fut' = [s \in Requests |-> IF s \in W THEN "granted" ELSE f[s]]
        /\ value' > 0 => W = PendingIn(q)
  BY <1>3, <1>4, WakeUpGrants
<1>6. \A s \in W : s \in Requests /\ s \in Queued \ {r} /\ fut[s] = "pending"
  BY <1>2 DEF PendingIn
<1>7. /\ fut' \in [Requests -> FutValues]
      /\ \A s \in Requests : fut'[s] = IF s \in W THEN "granted"
                                       ELSE IF s = r THEN "none" ELSE fut[s]
  BY <1>1, <1>3, <1>5 DEF FutValues
<1>8. Queued' = Queued \ {r}
  BY <1>1, <1>6, <1>7 DEF Queued
<1>9. QueueOK'
  BY <1>1, <1>2, <1>5, <1>7, <1>8 DEF QueueOK, Queued
<1>10. PermitsConserved'
  <2>1. Charged' = C \cup W
    BY <1>1, <1>6, <1>7 DEF Charged
  <2>2. C \cap W = {}
    BY <1>1, <1>6
  <2>3. IsFiniteSet(C)
    BY RequestsAssumption, FS_Subset
  <2> QED BY <1>5, <2>1, <2>2, <2>3, GivenOnce
<1>11. NoLostWakeup'
  <2> SUFFICES ASSUME value' > 0 PROVE PendingIn(waiters)' = {}
    BY DEF NoLostWakeup
  <2>1. W = PendingIn(q) /\ waiters' = q
    BY <1>5
  <2>2. \A s \in Requests : s \in Range(q) => fut'[s] # "pending"
    BY <1>2, <1>7, <2>1 DEF PendingIn
  <2> QED BY <2>1, <2>2 DEF PendingIn
<1> QED BY <1>8, <1>9, <1>10, <1>11

\* acquire() returns: the permit was taken when the future was resolved.
LEMMA ResumeGrantedOK ==
  ASSUME SemaphoreOK, NEW r \in Requests, ResumeGranted(r)
  PROVE  SemaphoreOK' /\ r \in Queued /\ Queued' = Queued \ {r} /\ held' = held \cup {r}
<1>1. fut[r] = "granted" /\ LeaveQueue(r, value) /\ held' = held \cup {r}
  BY DEF ResumeGranted
<1>2. r \in Queued
  BY <1>1 DEF Queued
<1>3. /\ value \in Nat /\ value + Cardinality(Charged) = Limit
      /\ Charged \in SUBSET Requests
      /\ Charged = held' \cup {s \in Requests \ {r} : fut[s] \in {"granted", "expired"}}
  BY <1>1 DEF SemaphoreOK, QueueOK, PermitsConserved, Charged
<1> QED BY <1>1, <1>2, <1>3, LeaveQueueOK

\* acquire() raises: a permit that came too late is free again before the
\* others are woken.
LEMMA ResumeRefusedOK ==
  ASSUME SemaphoreOK, NEW r \in Requests, ResumeRefused(r)
  PROVE  SemaphoreOK' /\ r \in Queued /\ Queued' = Queued \ {r} /\ held' = held
<1> DEFINE v == IF fut[r] = "expired" THEN value + 1 ELSE value
           C == Charged \ {r}
<1>1. fut[r] \in {"cancelled", "expired"} /\ LeaveQueue(r, v) /\ held' = held
  BY DEF ResumeRefused
<1>2. r \in Queued /\ r \notin held
  BY <1>1 DEF Queued, SemaphoreOK, QueueOK
<1>3. C = held \cup {s \in Requests \ {r} : fut[s] \in {"granted", "expired"}}
  BY <1>2 DEF Charged
<1>4. v \in Nat /\ C \in SUBSET Requests
  BY DEF SemaphoreOK, QueueOK, Charged
<1>5. v + Cardinality(C) = Limit
  <2>1. Cardinality(C) = IF r \in Charged THEN Cardinality(Charged) - 1 ELSE Cardinality(Charged)
    BY ChargedFinite, FS_RemoveElement DEF SemaphoreOK
  <2>2. r \in Charged <=> fut[r] = "expired"
    BY <1>1, <1>2 DEF Charged
  <2>3. value + Cardinality(Charged) = Limit /\ value \in Nat /\ Cardinality(Charged) \in Nat
    BY ChargedFinite DEF SemaphoreOK, PermitsConserved, QueueOK
  <2> QED BY <2>1, <2>2, <2>3
<1> HIDE DEF v, C
<1> QED BY <1>1, <1>2, <1>3, <1>4, <1>5, LeaveQueueOK

\* release(): the permit goes to the oldest waiter, or is free.
LEMMA ReleaseOK ==
  ASSUME SemaphoreOK, NEW r \in Requests, Release(r)
  PROVE  SemaphoreOK' /\ r \in held /\ Queued' = Queued /\ held' = held \ {r}
<1> USE DEF SemaphoreOK
<1> DEFINE n == 1
           v == value + 1
<1>1. r \in held /\ held' = held \ {r} /\ WakeUp(n, v, waiters, fut)
  BY DEF Release
<1>2. /\ waiters \in Seq(Requests) /\ fut \in [Requests -> FutValues] /\ value \in Nat
      /\ Range(waiters) = Queued /\ held \subseteq Requests /\ held \cap Queued = {}
  BY DEF QueueOK, Queued
<1>3. v \in Nat /\ n \in Nat /\ n <= v /\ n > 0
  BY <1>2
<1> HIDE DEF n, v
<1>4. PICK W \in SUBSET PendingIn(waiters) :
        /\ IsFiniteSet(W) /\ Cardinality(W) \in Nat
        /\ value' = v - Cardinality(W) /\ value' \in Nat
        /\ waiters' = waiters
        /\ fut' = [s \in Requests |-> IF s \in W THEN "granted" ELSE fut[s]]
        /\ PendingIn(waiters) # {} => W # {}
  BY <1>1, <1>3, WakeUpGrants
<1>5. \A s \in W : s \in Requests /\ s \in Queued /\ fut[s] = "pending"
  BY <1>2 DEF PendingIn
<1>6. /\ fut' \in [Requests -> FutValues]
      /\ \A s \in Requests : fut'[s] = IF s \in W THEN "granted" ELSE fut[s]
  BY <1>2, <1>4 DEF FutValues
<1>7. Queued' = Queued
  BY <1>5, <1>6 DEF Queued
<1>8. QueueOK'
  BY <1>1, <1>2, <1>4, <1>6, <1>7 DEF QueueOK, Queued
<1>9. PermitsConserved'
  <2> DEFINE C == Charged \ {r}
  <2>1. Charged' = C \cup W
    BY <1>1, <1>2, <1>5, <1>6 DEF Charged, Queued
  <2>2. C \cap W = {}
    BY <1>2, <1>5 DEF Charged
  <2>3. IsFiniteSet(C) /\ Cardinality(C) = Cardinality(Charged) - 1
    BY <1>1, ChargedFinite, FS_RemoveElement DEF Charged
  <2>4. v + Cardinality(C) = Limit
    BY <1>2, <2>3, ChargedFinite DEF PermitsConserved, v
  <2> HIDE DEF C
  <2> QED BY <1>3, <1>4, <2>1, <2>2, <2>3, <2>4, GivenOnce
<1>10. NoLostWakeup'
  <2> SUFFICES ASSUME PendingIn(waiters)' # {}
               PROVE  \E s \in Range(waiters') : fut'[s] # "pending"
    BY DEF NoLostWakeup
  <2>1. PendingIn(waiters) # {}
    BY <1>4, <1>6 DEF PendingIn
  <2>2. PICK s \in W : TRUE
    BY <1>4, <2>1
  <2> QED BY <1>2, <1>4, <1>5, <1>6, <2>2
<1> QED BY <1>1, <1>7, <1>8, <1>9, <1>10

-----------------------------------------------------------------------------
(* The token verifier. *)

\* A step of the verification t that goes to a place p which is not the
\* rejection, and stores no address: only what is known at p has to be shown.
LEMMA GotoOK ==
  ASSUME VerifierOK, NEW t \in Verifiers, NEW p \in VpcValues \ {"rejected"}, Goto(t, p),
         UNCHANGED <<issuer, jwksUri>>, presented' = presented \/ vpc[t] = "off",
         DOMAIN presented' = Verifiers,
         \A s \in Verifiers \ {t} : presented'[s] = presented[s] /\ failed'[s] = failed[s],
         failed' \in [Verifiers -> BOOLEAN],
         Sound(issuer) => /\ p \in {"oidc", "oauth"} => issuer.jwks = None
                          /\ p = "oauth" => failed'[t] \/ issuer.oidc = "nouri"
                          /\ p \in {"secure", "build"} => jwksUri = "https"
  PROVE  VerifierOK'
<1>1. /\ vpc' \in [Verifiers -> VpcValues]
      /\ vpc'[t] = p /\ \A s \in Verifiers \ {t} : vpc'[s] = vpc[s]
  BY DEF VerifierOK, VerifierTypes, Goto
<1>2. VerifierTypes'
  BY <1>1 DEF VerifierTypes
<1>3. DiscoveryOK'
  BY <1>1 DEF VerifierOK, DiscoveryOK, Sound
<1>4. RejectedForCause'
  BY <1>1 DEF VerifierOK, RejectedForCause, Sound, Valid
<1> QED BY <1>2, <1>3, <1>4 DEF VerifierOK

\* A step of the verification t that ends it with a rejection: it has to be
\* shown that its own fetch has failed, or its token is at fault.
LEMMA RejectOK ==
  ASSUME VerifierOK, NEW t \in Verifiers, Goto(t, "rejected"),
         UNCHANGED <<issuer, jwksUri, presented>>,
         \A s \in Verifiers \ {t} : failed'[s] = failed[s],
         failed' \in [Verifiers -> BOOLEAN],
         Sound(issuer) /\ Valid(presented[t]) => failed'[t]
  PROVE  VerifierOK'
<1>1. /\ vpc' \in [Verifiers -> VpcValues]
      /\ vpc'[t] = "rejected" /\ \A s \in Verifiers \ {t} : vpc'[s] = vpc[s]
  BY DEF VerifierOK, VerifierTypes, Goto, VpcValues
<1>2. VerifierTypes'
  BY <1>1 DEF VerifierOK, VerifierTypes
<1>3. DiscoveryOK'
  BY <1>1 DEF VerifierOK, DiscoveryOK, Sound
<1>4. RejectedForCause'
  BY <1>1 DEF VerifierOK, RejectedForCause, Sound, Valid
<1> QED BY <1>2, <1>3, <1>4 DEF VerifierOK

\* Discovery finds an address: it is the issuer's, whatever the others stored.
LEMMA StoreUriOK ==
  ASSUME VerifierOK, NEW t \in Verifiers, vpc[t] \in {"oidc", "oauth"},
         NEW document \in Uris, Goto(t, "secure"), jwksUri' = document,
         Sound(issuer) /\ issuer.jwks = None => document \in {"https", "nouri"},
         UNCHANGED <<issuer, presented, failed>>
  PROVE  VerifierOK'
<1>1. /\ vpc' \in [Verifiers -> VpcValues]
      /\ vpc'[t] = "secure" /\ \A s \in Verifiers \ {t} : vpc'[s] = vpc[s]
  BY DEF VerifierOK, VerifierTypes, Goto, VpcValues
<1>2. VerifierTypes'
  BY <1>1 DEF VerifierOK, VerifierTypes
<1>3. Sound(issuer) => issuer.jwks = None /\ jwksUri' = "https"
  BY DEF VerifierOK, DiscoveryOK, Uris
<1>4. DiscoveryOK'
  BY <1>1, <1>3 DEF VerifierOK, DiscoveryOK, Sound
<1>5. RejectedForCause'
  BY <1>1 DEF VerifierOK, RejectedForCause, Sound, Valid
<1> QED BY <1>2, <1>4, <1>5 DEF VerifierOK

\* verify_token
LEMMA VerifyOK ==
  ASSUME VerifierOK, NEW t \in Verifiers, NEW tok, Verify(t, tok)
  PROVE  VerifierOK'
<1>1. "client" \in VpcValues \ {"rejected"}
  BY DEF VpcValues
<1>2. /\ DOMAIN presented' = Verifiers
      /\ \A s \in Verifiers \ {t} : presented'[s] = presented[s]
  BY DEF Verify, VerifierOK, VerifierTypes
<1> QED BY <1>1, <1>2, GotoOK DEF Verify, VerifierOK, VerifierTypes

\* _client(): the two tests.
LEMMA ReadsOK ==
  ASSUME VerifierOK, NEW t \in Verifiers, ReadClient(t) \/ ReadUri(t)
  PROVE  VerifierOK'
<1>1. PICK p \in {"uri", "key", "oidc", "secure"} :
        /\ Goto(t, p)
        /\ p = "oidc" => jwksUri = None
        /\ p = "secure" => jwksUri # None
  BY DEF ReadClient, ReadUri
<1>2. p \in VpcValues \ {"rejected"}
  BY DEF VpcValues
<1>3. Sound(issuer) => /\ p = "oidc" => issuer.jwks = None
                       /\ p = "secure" => jwksUri = "https"
  BY <1>1 DEF VerifierOK, DiscoveryOK
<1>4. UNCHANGED <<issuer, jwksUri, presented, failed>>
  BY DEF ReadClient, ReadUri
<1> QED BY <1>1, <1>2, <1>3, <1>4, GotoOK DEF VerifierOK, VerifierTypes

\* The first discovery document.
LEMMA FetchOidcOK ==
  ASSUME VerifierOK, NEW t \in Verifiers, FetchOidc(t)
  PROVE  VerifierOK'
<1>1. /\ vpc[t] = "oidc" /\ Fetch(t, issuer.oidc, "oauth")
      /\ UNCHANGED <<issuer, presented>>
  BY DEF FetchOidc
<1>2. Sound(issuer) => /\ issuer.jwks = None /\ issuer.secure
                       /\ issuer.oidc \in {"https", "nouri"}
  BY <1>1 DEF VerifierOK, DiscoveryOK, Sound
<1>3. "oauth" \in VpcValues \ {"rejected"}
  BY DEF VpcValues
<1>4. CASE /\ ~ issuer.secure \/ issuer.oidc = "foreign"
           /\ Goto(t, "rejected") /\ UNCHANGED <<jwksUri, failed>>
  BY <1>1, <1>2, <1>4, RejectOK DEF VerifierOK, VerifierTypes
<1>5. CASE Goto(t, "oauth") /\ failed' = [failed EXCEPT ![t] = TRUE] /\ UNCHANGED jwksUri
  <2>1. /\ failed' \in [Verifiers -> BOOLEAN] /\ failed'[t]
        /\ \A s \in Verifiers \ {t} : failed'[s] = failed[s]
    BY <1>5 DEF VerifierOK, VerifierTypes
  <2> QED BY <1>1, <1>2, <1>3, <1>5, <2>1, GotoOK DEF VerifierOK, VerifierTypes
<1>6. CASE issuer.oidc = "nouri" /\ Goto(t, "oauth") /\ UNCHANGED <<jwksUri, failed>>
  BY <1>1, <1>2, <1>3, <1>6, GotoOK DEF VerifierOK, VerifierTypes
<1>7. CASE issuer.oidc \in Uris /\ jwksUri' = issuer.oidc /\ Goto(t, "secure") /\ UNCHANGED failed
  BY <1>1, <1>2, <1>7, StoreUriOK
<1> QED BY <1>1, <1>4, <1>5, <1>6, <1>7 DEF Fetch

\* The second one: a sound issuer publishes its address in one of the two, so
\* when this one has none, the first was out of reach.
LEMMA FetchOauthOK ==
  ASSUME VerifierOK, NEW t \in Verifiers, FetchOauth(t)
  PROVE  VerifierOK'
<1>1. /\ vpc[t] = "oauth" /\ Fetch(t, issuer.oauth, "rejected")
      /\ UNCHANGED <<issuer, presented>>
  BY DEF FetchOauth
<1>2. Sound(issuer) => /\ issuer.jwks = None /\ issuer.secure
                       /\ issuer.oauth \in {"https", "nouri"}
                       /\ issuer.oauth = "nouri" => failed[t]
  BY <1>1 DEF VerifierOK, DiscoveryOK, Sound
<1>3. CASE /\ ~ issuer.secure \/ issuer.oauth = "foreign"
           /\ Goto(t, "rejected") /\ UNCHANGED <<jwksUri, failed>>
  BY <1>1, <1>2, <1>3, RejectOK DEF VerifierOK, VerifierTypes
<1>4. CASE Goto(t, "rejected") /\ failed' = [failed EXCEPT ![t] = TRUE] /\ UNCHANGED jwksUri
  <2>1. /\ failed' \in [Verifiers -> BOOLEAN] /\ failed'[t]
        /\ \A s \in Verifiers \ {t} : failed'[s] = failed[s]
    BY <1>4 DEF VerifierOK, VerifierTypes
  <2> QED BY <1>1, <1>4, <2>1, RejectOK
<1>5. CASE issuer.oauth = "nouri" /\ Goto(t, "rejected") /\ UNCHANGED <<jwksUri, failed>>
  BY <1>1, <1>2, <1>5, RejectOK DEF VerifierOK, VerifierTypes
<1>6. CASE issuer.oauth \in Uris /\ jwksUri' = issuer.oauth /\ Goto(t, "secure") /\ UNCHANGED failed
  BY <1>1, <1>2, <1>6, StoreUriOK
<1> QED BY <1>1, <1>3, <1>4, <1>5, <1>6 DEF Fetch

\* The transport is checked, the client is made, the token is decoded.
LEMMA LastStepsOK ==
  ASSUME VerifierOK, NEW t \in Verifiers, CheckTransport(t) \/ BuildClient(t) \/ CheckToken(t)
  PROVE  VerifierOK'
<1> USE DEF VerifierOK, VerifierTypes
<1>1. {"build", "key", "accepted"} \subseteq VpcValues \ {"rejected"}
  BY DEF VpcValues
<1>2. CASE CheckTransport(t)
  <2>1. vpc[t] = "secure" /\ UNCHANGED <<issuer, jwksUri, presented, failed>>
    BY <1>2 DEF CheckTransport
  <2>2. Sound(issuer) => jwksUri = "https"
    BY <2>1 DEF DiscoveryOK
  <2>3. CASE jwksUri = "https"
    BY <1>1, <1>2, <2>1, <2>3, GotoOK DEF CheckTransport
  <2>4. CASE jwksUri # "https"
    BY <1>2, <2>1, <2>2, <2>4, RejectOK DEF CheckTransport
  <2> QED BY <2>3, <2>4
<1>3. CASE BuildClient(t)
  BY <1>1, <1>3, GotoOK DEF BuildClient
<1>4. CASE CheckToken(t)
  <2>1. UNCHANGED <<issuer, jwksUri, presented>>
    BY <1>4 DEF CheckToken
  <2>2. CASE Goto(t, "accepted") /\ UNCHANGED failed
    BY <1>1, <2>1, <2>2, GotoOK
  <2>3. CASE ~ Valid(presented[t]) /\ Goto(t, "rejected") /\ UNCHANGED failed
    BY <2>1, <2>3, RejectOK
  <2>4. CASE Goto(t, "rejected") /\ failed' = [failed EXCEPT ![t] = TRUE]
    <3>1. /\ failed' \in [Verifiers -> BOOLEAN] /\ failed'[t]
          /\ \A s \in Verifiers \ {t} : failed'[s] = failed[s]
      BY <2>4
    <3> QED BY <2>1, <2>4, <3>1, RejectOK
  <2> QED BY <1>4, <2>2, <2>3, <2>4 DEF CheckToken
<1> QED BY <1>2, <1>3, <1>4

-----------------------------------------------------------------------------
(* The request path. *)

Early == {"new", "limit", "waiting", "inside", "verifying"}

\* What a move, and an answer, change.
LEMMA MoveFacts ==
  ASSUME RequestsOK, NEW r \in Requests, NEW p \in PcValues, Move(r, p)
  PROVE  /\ pc' \in [Requests -> PcValues] /\ pc'[r] = p
         /\ \A s \in Requests \ {r} : pc'[s] = pc[s]
  BY DEF RequestsOK, Move

LEMMA StatusFacts ==
  ASSUME RequestsOK, NEW r \in Requests, NEW n \in Nat, Status(r, n)
  PROVE  /\ answer' \in [Requests -> Nat]
         /\ answer'[r] = IF answer[r] = Waiting THEN n ELSE answer[r]
         /\ \A s \in Requests \ {r} : answer'[s] = answer[s]
  BY DEF RequestsOK, Status

\* A step of the middleware or of the response: neither the verifier nor the
\* store takes part in it.
LEMMA RequestFrame ==
  ASSUME IInv, NEW r \in Requests, NEW p \in PcValues,
         pc' \in [Requests -> PcValues], pc'[r] = p,
         \A s \in Requests \ {r} : pc'[s] = pc[s],
         answer' \in [Requests -> Nat],
         \A s \in Requests \ {r} : answer'[s] = answer[s],
         UNCHANGED <<config, server, profile, storeVars, authVars>>,
         SemaphoreOK', PlaceOK',
         pc[r] # "new" \/ server = "up",
         p \in {"new", "limit", "waiting", "inside"} => vpc[r] = "off",
         p \in AtTool /\ Hosted => vpc[r] = "accepted" /\ profile[r].token.scoped,
         p \in Early => answer'[r] \in {Waiting, 504},
         p \in AtTool \/ r \in issued => answer'[r] \in {Waiting, 200, 504},
         r \in issued => p \in {"storing", "stored", "done"}
  PROVE  IInv'
<1>1. UNCHANGED <<vpc, presented, failed, issuer, jwksUri, runs, asked, issued>>
  BY DEF authVars, storeVars
<1>2. RequestsOK'
  BY DEF RequestsOK
<1>3. VerifierOK'
  BY <1>1 DEF IInv, VerifierOK, VerifierTypes, DiscoveryOK, RejectedForCause, Sound, Valid
<1>4. VerificationOK'
  BY <1>1 DEF IInv, VerificationOK, Hosted, Valid
<1>5. AdmittedOK'
  BY <1>1 DEF IInv, AdmittedOK, Startable, Hosted
<1>6. AnswerOK'
  BY <1>1 DEF IInv, AnswerOK, Early
<1>7. StoreOK'
  BY <1>1 DEF IInv, StoreOK, Attributed, Valid, PrincipalOf
<1> QED BY <1>2, <1>3, <1>4, <1>5, <1>6, <1>7 DEF IInv

\* A step that leaves the semaphore alone.
LEMMA SemaphoreFrame ==
  ASSUME SemaphoreOK, UNCHANGED admissionVars
  PROVE  SemaphoreOK' /\ Queued' = Queued /\ held' = held
<1>1. UNCHANGED <<value, waiters, fut, held>>
  BY DEF admissionVars
<1> QED BY <1>1 DEF SemaphoreOK, QueueOK, PermitsConserved, NoLostWakeup, Queued,
                    Charged, PendingIn

\* A request that has left the queue, or was not in it, goes to a place where
\* it does not wait; the places of the others are what they were.
LEMMA PlaceFrame ==
  ASSUME IInv, NEW r \in Requests, NEW p \in PcValues, p # "waiting", pc'[r] = p,
         \A s \in Requests \ {r} : pc'[s] = pc[s],
         Queued' = Queued \ {r}, held' \subseteq held \cup {r},
         r \in held' => p \in Inside
  PROVE  PlaceOK'
  BY DEF IInv, PlaceOK

\* The origin and the size of the body.
LEMMA ArriveOK ==
  ASSUME IInv, NEW r \in Requests, Arrive(r)
  PROVE  IInv'
<1> USE DEF IInv
<1>1. /\ server = "up" /\ pc[r] = "new"
      /\ UNCHANGED <<config, server, profile, storeVars, admissionVars, authVars>>
  BY DEF Arrive
<1>2. SemaphoreOK' /\ Queued' = Queued /\ held' = held
  BY <1>1, SemaphoreFrame
<1>3. PICK p \in {"done", "limit"} :
        /\ Move(r, p)
        /\ p = "limit" => UNCHANGED answer
        /\ p = "done" => \E n \in {403, 413} : Status(r, n)
  BY DEF Arrive
<1>4. p \in PcValues /\ {403, 413} \subseteq Nat
  BY DEF PcValues
<1>5. /\ pc' \in [Requests -> PcValues] /\ pc'[r] = p
      /\ \A s \in Requests \ {r} : pc'[s] = pc[s]
  BY <1>3, <1>4, MoveFacts
<1>6. /\ answer' \in [Requests -> Nat]
      /\ \A s \in Requests \ {r} : answer'[s] = answer[s]
      /\ p = "limit" => answer'[r] = answer[r]
  BY <1>3, <1>4, StatusFacts DEF RequestsOK
<1>7. r \notin Queued /\ r \notin held /\ r \notin issued /\ vpc[r] = "off"
      /\ answer[r] \in {Waiting, 504}
  BY <1>1 DEF PlaceOK, Inside, AnswerOK, VerificationOK
<1>8. PlaceOK'
  BY <1>2, <1>4, <1>5, <1>7, PlaceFrame
<1> QED BY <1>1, <1>2, <1>3, <1>4, <1>5, <1>6, <1>7, <1>8, RequestFrame DEF AtTool, Early

\* The request timeout answers, and touches nothing else.
LEMMA RequestTimeoutOK ==
  ASSUME IInv, NEW r \in Requests, RequestTimeout(r)
  PROVE  IInv'
<1> USE DEF IInv
<1>1. /\ pc[r] \notin {"new", "done"} /\ answer[r] = Waiting /\ Status(r, 504)
      /\ UNCHANGED <<config, server, profile, pc, storeVars, admissionVars, authVars>>
  BY DEF RequestTimeout
<1>2. SemaphoreOK' /\ Queued' = Queued /\ held' = held
  BY <1>1, SemaphoreFrame
<1>3. /\ answer' \in [Requests -> Nat] /\ answer'[r] = 504
      /\ \A s \in Requests \ {r} : answer'[s] = answer[s]
  BY <1>1, StatusFacts
<1>4. PlaceOK'
  BY <1>1, <1>2 DEF PlaceOK
<1>5. pc[r] \in PcValues /\ pc' \in [Requests -> PcValues]
  BY <1>1 DEF RequestsOK
<1>6. /\ pc[r] \in {"new", "limit", "waiting", "inside"} => vpc[r] = "off"
      /\ pc[r] \in AtTool /\ Hosted => vpc[r] = "accepted" /\ profile[r].token.scoped
      /\ r \in issued => pc[r] \in {"storing", "stored", "done"}
  BY DEF VerificationOK, AdmittedOK, AnswerOK
<1> QED BY <1>1, <1>2, <1>3, <1>4, <1>5, <1>6, RequestFrame

\* The concurrency limit is entered.
LEMMA AdmitOK ==
  ASSUME IInv, NEW r \in Requests, Admit(r)
  PROVE  IInv'
<1> USE DEF IInv
<1>1. pc[r] = "limit" /\ UNCHANGED <<config, server, profile, answer, storeVars, authVars>>
  BY DEF Admit
<1>2. r \notin Queued /\ r \notin held /\ r \notin issued /\ vpc[r] = "off"
      /\ answer[r] \in {Waiting, 504}
  BY <1>1 DEF PlaceOK, Inside, AnswerOK, VerificationOK
<1>3. {"inside", "waiting"} \subseteq PcValues
  BY DEF PcValues
<1>4. PICK p \in {"inside", "waiting"} :
        /\ Move(r, p)
        /\ p = "inside" => AcquireNow(r)
        /\ p = "waiting" => Enqueue(r)
  BY DEF Admit
<1>5. /\ pc' \in [Requests -> PcValues] /\ pc'[r] = p
      /\ \A s \in Requests \ {r} : pc'[s] = pc[s]
  BY <1>3, <1>4, MoveFacts
<1>6. /\ SemaphoreOK'
      /\ p = "inside" => Queued' = Queued /\ held' = held \cup {r}
      /\ p = "waiting" => Queued' = Queued \cup {r} /\ held' = held
  BY <1>2, <1>4, AcquireNowOK, EnqueueOK
<1>7. PlaceOK'
  BY <1>2, <1>5, <1>6 DEF PlaceOK, Inside
<1> QED BY <1>1, <1>2, <1>3, <1>5, <1>6, <1>7, RequestFrame DEF AtTool, Early, RequestsOK

\* The wait for a permit times out.
LEMMA AcquireTimeoutOK ==
  ASSUME IInv, NEW r \in Requests, AcquireTimeout(r)
  PROVE  IInv'
<1> USE DEF IInv
<1>1. /\ pc[r] = "waiting" /\ CancelWait(r)
      /\ UNCHANGED <<config, server, profile, pc, answer, storeVars, authVars>>
  BY DEF AcquireTimeout, requestVars
<1>2. SemaphoreOK' /\ Queued' = Queued /\ held' = held
  BY <1>1, CancelWaitOK
<1>3. PlaceOK'
  BY <1>1, <1>2 DEF PlaceOK
<1>4. r \notin issued /\ vpc[r] = "off" /\ answer[r] \in {Waiting, 504} /\ "waiting" \in PcValues
  BY <1>1 DEF AnswerOK, VerificationOK, PcValues
<1> QED BY <1>1, <1>2, <1>3, <1>4, RequestFrame DEF AtTool, Early, RequestsOK

\* A waiter is resumed.
LEMMA ResumeOK ==
  ASSUME IInv, NEW r \in Requests, Resume(r)
  PROVE  IInv'
<1> USE DEF IInv
<1>1. pc[r] = "waiting" /\ UNCHANGED <<config, server, profile, storeVars, authVars>>
  BY DEF Resume
<1>2. r \notin held /\ r \notin issued /\ vpc[r] = "off" /\ answer[r] \in {Waiting, 504}
  BY <1>1 DEF PlaceOK, Inside, AnswerOK, VerificationOK
<1>3. {"inside", "done"} \subseteq PcValues /\ 503 \in Nat
  BY DEF PcValues
<1>4. PICK p \in {"inside", "done"} :
        /\ Move(r, p)
        /\ p = "inside" => ResumeGranted(r) /\ UNCHANGED answer
        /\ p = "done" => ResumeRefused(r) /\ Status(r, 503)
  BY DEF Resume
<1>5. /\ pc' \in [Requests -> PcValues] /\ pc'[r] = p
      /\ \A s \in Requests \ {r} : pc'[s] = pc[s]
  BY <1>3, <1>4, MoveFacts
<1>6. /\ SemaphoreOK' /\ Queued' = Queued \ {r}
      /\ held' = IF p = "inside" THEN held \cup {r} ELSE held
  BY <1>4, ResumeGrantedOK, ResumeRefusedOK
<1>7. PlaceOK'
  BY <1>2, <1>3, <1>5, <1>6, PlaceFrame DEF Inside
<1>8. /\ answer' \in [Requests -> Nat]
      /\ \A s \in Requests \ {r} : answer'[s] = answer[s]
      /\ p = "inside" => answer'[r] = answer[r]
  BY <1>3, <1>4, StatusFacts DEF RequestsOK
<1> QED BY <1>1, <1>2, <1>3, <1>5, <1>6, <1>7, <1>8, RequestFrame DEF AtTool, Early

\* A response that is the end of its request: the permit is back.
LEMMA RespondDone ==
  ASSUME IInv, NEW r \in Requests, pc[r] \in Inside, NEW n \in Nat, Respond(r, n),
         Move(r, "done"), r \in issued => n = 200,
         UNCHANGED <<config, server, profile, storeVars, authVars>>
  PROVE  IInv'
<1> USE DEF IInv
<1>1. SemaphoreOK' /\ Queued' = Queued /\ held' = held \ {r}
  BY ReleaseOK DEF Respond
<1>2. "done" \in PcValues /\ "done" \notin AtTool /\ "done" \notin Early /\ pc[r] # "new"
  BY DEF PcValues, AtTool, Early, Inside
<1>3. /\ pc' \in [Requests -> PcValues] /\ pc'[r] = "done"
      /\ \A s \in Requests \ {r} : pc'[s] = pc[s]
  BY <1>2, MoveFacts
<1>4. /\ answer' \in [Requests -> Nat]
      /\ answer'[r] = IF answer[r] = Waiting THEN n ELSE answer[r]
      /\ \A s \in Requests \ {r} : answer'[s] = answer[s]
  BY StatusFacts DEF Respond
<1>5. r \notin Queued
  BY DEF PlaceOK, Inside
<1>6. PlaceOK'
  BY <1>1, <1>2, <1>3, <1>5, PlaceFrame
<1>7. r \in issued => answer'[r] \in {Waiting, 200, 504}
  BY <1>4 DEF AnswerOK
<1> QED BY <1>1, <1>2, <1>3, <1>4, <1>6, <1>7, RequestFrame

\* healthz and readyz
LEMMA HealthOK ==
  ASSUME IInv, NEW r \in Requests, Health(r)
  PROVE  IInv'
<1>1. r \notin issued
  BY DEF IInv, AnswerOK, Health
<1> QED BY <1>1, RespondDone DEF Health, Inside

\* A stream starts while the tool goes on: the permit is back, the request is
\* where it was.
LEMMA StartStreamOK ==
  ASSUME IInv, NEW r \in Requests, StartStream(r)
  PROVE  IInv'
<1> USE DEF IInv
<1>1. /\ pc[r] \in AtTool /\ Release(r) /\ Status(r, 200)
      /\ UNCHANGED <<config, server, profile, pc, storeVars, authVars>>
  BY DEF StartStream, Respond, AtTool
<1>2. SemaphoreOK' /\ Queued' = Queued /\ held' = held \ {r}
  BY <1>1, ReleaseOK
<1>3. /\ answer' \in [Requests -> Nat]
      /\ answer'[r] = IF answer[r] = Waiting THEN 200 ELSE answer[r]
      /\ \A s \in Requests \ {r} : answer'[s] = answer[s]
  BY <1>1, StatusFacts
<1>4. PlaceOK'
  BY <1>1, <1>2 DEF PlaceOK
<1>5. /\ pc[r] \in PcValues /\ pc' \in [Requests -> PcValues]
      /\ pc[r] \notin Early
  BY <1>1 DEF RequestsOK, AtTool, Early
<1>6. answer'[r] \in {Waiting, 200, 504} /\ (r \in issued => pc[r] \in {"storing", "stored", "done"})
  BY <1>1, <1>3 DEF AnswerOK
<1>7. Hosted => vpc[r] = "accepted" /\ profile[r].token.scoped
  BY <1>1 DEF AdmittedOK
<1> QED BY <1>1, <1>2, <1>3, <1>4, <1>5, <1>6, <1>7, RequestFrame DEF Early

\* A move of the application that changes no answer and keeps the permit.
LEMMA MoveOn ==
  ASSUME IInv, NEW r \in Requests, pc[r] \in {"inside", "verifying"}, Move(r, "tool"),
         Hosted => vpc[r] = "accepted" /\ profile[r].token.scoped,
         UNCHANGED <<config, server, profile, answer, storeVars, admissionVars, authVars>>
  PROVE  IInv'
<1> USE DEF IInv
<1>1. SemaphoreOK' /\ Queued' = Queued /\ held' = held
  BY SemaphoreFrame
<1>2. "tool" \in PcValues /\ "tool" \in Inside /\ "tool" \notin Early
  BY DEF PcValues, Inside, Early
<1>3. /\ pc' \in [Requests -> PcValues] /\ pc'[r] = "tool"
      /\ \A s \in Requests \ {r} : pc'[s] = pc[s]
  BY <1>2, MoveFacts
<1>4. r \notin Queued /\ r \notin issued /\ answer[r] \in {Waiting, 504}
  BY DEF PlaceOK, AnswerOK
<1>5. PlaceOK'
  BY <1>1, <1>2, <1>3, <1>4, PlaceFrame
<1> QED BY <1>1, <1>2, <1>3, <1>4, <1>5, RequestFrame DEF RequestsOK, Early

\* The bearer check hands the token to a verification.
LEMMA HandTokenOK ==
  ASSUME IInv, NEW r \in Requests, pc[r] = "inside",
         Hosted, profile[r].token # None, Verify(r, profile[r].token), Move(r, "verifying"),
         UNCHANGED <<config, server, profile, answer, storeVars, admissionVars>>
  PROVE  IInv'
<1> USE DEF IInv
<1>1. SemaphoreOK' /\ Queued' = Queued /\ held' = held
  BY SemaphoreFrame
<1>2. "verifying" \in PcValues /\ "verifying" \in Inside
  BY DEF PcValues, Inside
<1>3. /\ pc' \in [Requests -> PcValues] /\ pc'[r] = "verifying"
      /\ \A s \in Requests \ {r} : pc'[s] = pc[s]
  BY <1>2, MoveFacts
<1>4. r \notin Queued /\ r \notin issued /\ answer[r] \in {Waiting, 504}
  BY DEF PlaceOK, AnswerOK
<1>5. PlaceOK'
  BY <1>1, <1>2, <1>3, <1>4, PlaceFrame
<1>6. r \in Verifiers /\ UNCHANGED <<runs, asked, issued>>
  BY VerifiersAssumption DEF storeVars
<1>7. VerifierOK'
  BY <1>6, VerifyOK
<1>8. /\ vpc'[r] = "client" /\ \A s \in Requests \ {r} : vpc'[s] = vpc[s]
      /\ presented'[r] = profile[r].token
      /\ \A s \in Requests \ {r} : presented'[s] = presented[s]
  BY <1>6, VerifiersAssumption DEF Verify, Goto, VerifierOK, VerifierTypes
<1>9. RequestsOK'
  BY <1>3 DEF RequestsOK
<1>10. VerificationOK'
  BY <1>3, <1>8 DEF VerificationOK, Hosted, Valid
<1>11. AdmittedOK'
  BY <1>3, <1>8 DEF AdmittedOK, Startable, Hosted, AtTool
<1>12. AnswerOK'
  BY <1>3, <1>4, <1>6 DEF AnswerOK, AtTool
<1>13. StoreOK'
  BY <1>6 DEF StoreOK, Attributed, Valid, PrincipalOf
<1> QED BY <1>1, <1>5, <1>7, <1>9, <1>10, <1>11, <1>12, <1>13

LEMMA AuthenticateOK ==
  ASSUME IInv, NEW r \in Requests, Authenticate(r)
  PROVE  IInv'
<1>1. pc[r] = "inside" /\ UNCHANGED <<config, server, profile, storeVars>>
  BY DEF Authenticate
<1>2. CASE ~ Hosted /\ Move(r, "tool") /\ UNCHANGED <<answer, admissionVars, authVars>>
  BY <1>1, <1>2, MoveOn
<1>3. CASE Respond(r, 401) /\ Move(r, "done") /\ UNCHANGED authVars
  <2>1. r \notin issued /\ 401 \in Nat /\ pc[r] \in Inside
    BY <1>1 DEF IInv, AnswerOK, Inside
  <2> QED BY <1>1, <1>3, <2>1, RespondDone
<1>4. CASE /\ Hosted /\ profile[r].token # None
           /\ Verify(r, profile[r].token)
           /\ Move(r, "verifying")
           /\ UNCHANGED <<answer, admissionVars>>
  BY <1>1, <1>4, HandTokenOK
<1> QED BY <1>2, <1>3, <1>4 DEF Authenticate

\* A verification is not over before it has checked its token.
LEMMA VerifyingOK ==
  ASSUME IInv, NEW r \in Requests, Verifying(r)
  PROVE  IInv'
<1> USE DEF IInv
<1>1. /\ VerifyStep(r)
      /\ UNCHANGED <<config, server, profile, pc, answer, storeVars, admissionVars>>
  BY DEF Verifying, requestVars
<1>2. r \in Verifiers /\ UNCHANGED <<runs, asked, issued>>
  BY <1>1, VerifiersAssumption DEF storeVars
<1>3. VerifierOK'
  BY <1>1, <1>2, ReadsOK, FetchOidcOK, FetchOauthOK, LastStepsOK DEF VerifyStep
<1>4. /\ presented' = presented
      /\ vpc[r] \notin {"off", "accepted"}
      /\ \E p \in VpcValues : Goto(r, p) /\ p # "off" /\ (p = "accepted" => Valid(presented[r]))
  BY <1>1 DEF VerifyStep, ReadClient, ReadUri, FetchOidc, FetchOauth, Fetch, CheckTransport,
              BuildClient, CheckToken, VpcValues
<1>5. /\ vpc'[r] # "off" /\ (vpc'[r] = "accepted" => Valid(presented[r]))
      /\ \A s \in Requests \ {r} : vpc'[s] = vpc[s]
  BY <1>2, <1>4, VerifiersAssumption DEF Goto, VerifierOK, VerifierTypes
<1>6. SemaphoreOK' /\ Queued' = Queued /\ held' = held
  BY <1>1, SemaphoreFrame
<1>7. PlaceOK' /\ RequestsOK'
  BY <1>1, <1>6 DEF PlaceOK, RequestsOK
<1>8. VerificationOK'
  BY <1>1, <1>4, <1>5 DEF VerificationOK, Hosted, Valid
<1>9. AdmittedOK'
  BY <1>1, <1>4, <1>5 DEF AdmittedOK, Startable, Hosted
<1>10. AnswerOK'
  BY <1>1, <1>2 DEF AnswerOK
<1>11. StoreOK'
  BY <1>1, <1>2 DEF StoreOK, Attributed, Valid, PrincipalOf
<1> QED BY <1>3, <1>6, <1>7, <1>8, <1>9, <1>10, <1>11

LEMMA VerdictOK ==
  ASSUME IInv, NEW r \in Requests, Verdict(r)
  PROVE  IInv'
<1>1. pc[r] = "verifying" /\ UNCHANGED <<config, server, profile, storeVars, authVars>>
  BY DEF Verdict
<1>2. r \notin issued /\ pc[r] \in Inside /\ {401, 403} \subseteq Nat
  BY <1>1 DEF IInv, AnswerOK, Inside
<1>3. CASE /\ vpc[r] = "accepted" /\ profile[r].token.scoped
           /\ Move(r, "tool") /\ UNCHANGED <<answer, admissionVars>>
  BY <1>1, <1>3, MoveOn
<1>4. CASE \E n \in {401, 403} : Respond(r, n) /\ Move(r, "done")
  BY <1>1, <1>2, <1>4, RespondDone
<1> QED BY <1>3, <1>4 DEF Verdict

-----------------------------------------------------------------------------
(* The tools and the run store. *)

\* A tool is done, with or without its permit.
LEMMA FinishOK ==
  ASSUME IInv, NEW r \in Requests, pc[r] \in {"tool", "stored"}, Finish(r), UNCHANGED storeVars
  PROVE  IInv'
<1> USE DEF IInv
<1>1. Move(r, "done") /\ UNCHANGED <<config, server, profile, authVars>>
  BY DEF Finish
<1>2. CASE r \in held
  BY <1>1, <1>2, RespondDone DEF Finish, Inside
<1>3. CASE r \notin held
  <2>1. UNCHANGED <<answer, admissionVars>>
    BY <1>3 DEF Finish
  <2>2. SemaphoreOK' /\ Queued' = Queued /\ held' = held
    BY <2>1, SemaphoreFrame
  <2>3. "done" \in PcValues /\ "done" \notin AtTool /\ "done" \notin Early
    BY DEF PcValues, AtTool, Early
  <2>4. /\ pc' \in [Requests -> PcValues] /\ pc'[r] = "done"
        /\ \A s \in Requests \ {r} : pc'[s] = pc[s]
    BY <1>1, <2>3, MoveFacts
  <2>5. r \notin Queued /\ (r \in issued => answer[r] \in {Waiting, 200, 504})
    BY DEF PlaceOK, AnswerOK
  <2>6. PlaceOK'
    BY <1>3, <2>2, <2>3, <2>4, <2>5, PlaceFrame
  <2> QED BY <1>1, <2>1, <2>2, <2>3, <2>4, <2>5, <2>6, RequestFrame DEF RequestsOK
<1> QED BY <1>2, <1>3

\* resolve_principal: a request at its tool has proved to be its owner, and
\* the owner is local only where nothing asks for protection.
LEMMA OwnerIsAttributed ==
  ASSUME IInv, NEW r \in Requests, pc[r] = "tool", Owner(r) # None
  PROVE  Attributed(r, Owner(r))
<1> USE DEF IInv
<1>1. Startable
  BY DEF AdmittedOK
<1>2. CASE Hosted
  <2>1. /\ vpc[r] = "accepted" /\ profile[r].token.scoped /\ profile[r].token # None
        /\ presented[r] = profile[r].token /\ Valid(presented[r])
    BY <1>2 DEF AdmittedOK, AtTool, VerificationOK
  <2>2. Owner(r) = PrincipalOf(profile[r].token) /\ Valid(profile[r].token)
    BY <2>1 DEF Owner
  <2>3. config.oauth # "none"
    BY <1>2 DEF Hosted
  <2> QED BY <2>1, <2>2, <2>3 DEF Attributed
<1>3. CASE ~ Hosted
  <2>1. vpc[r] # "accepted"
    BY <1>3 DEF VerificationOK
  <2>2. Owner(r) = Local
    BY <1>3, <2>1 DEF Owner
  <2>3. ~ config.required /\ config.oauth = "none"
    BY <1>1, <1>3 DEF Startable, Hosted
  <2> QED BY <2>2, <2>3 DEF Attributed
<1> QED BY <1>2, <1>3

\* A step between the tool and the store: the request has no new answer, and
\* its owner does not change under way.
LEMMA StoreFrame ==
  ASSUME IInv, NEW r \in Requests, NEW p \in {"storing", "stored"},
         pc[r] \in {"tool", "storing"}, Move(r, p),
         UNCHANGED <<config, server, profile, answer, admissionVars, authVars>>,
         issued' \subseteq issued \cup {r}, StoreOK'
  PROVE  IInv'
<1> USE DEF IInv
<1>1. UNCHANGED <<vpc, presented, failed, issuer, jwksUri>>
  BY DEF authVars
<1>2. SemaphoreOK' /\ Queued' = Queued /\ held' = held
  BY SemaphoreFrame
<1>3. p \in PcValues /\ p \in Inside /\ p \in AtTool
  BY DEF PcValues, Inside, AtTool
<1>4. /\ pc' \in [Requests -> PcValues] /\ pc'[r] = p
      /\ \A s \in Requests \ {r} : pc'[s] = pc[s]
  BY <1>3, MoveFacts
<1>5. r \notin Queued /\ answer[r] \in {Waiting, 200, 504} /\ pc[r] \in AtTool /\ pc[r] # "new"
  BY DEF PlaceOK, AnswerOK, AtTool
<1>6. PlaceOK' /\ RequestsOK'
  BY <1>2, <1>3, <1>4, <1>5, PlaceFrame DEF RequestsOK
<1>7. VerifierOK'
  BY <1>1 DEF VerifierOK, VerifierTypes, DiscoveryOK, RejectedForCause, Sound, Valid
<1>8. VerificationOK'
  BY <1>1, <1>4 DEF VerificationOK, Hosted, Valid
<1>9. AdmittedOK'
  BY <1>1, <1>4, <1>5 DEF AdmittedOK, Startable, Hosted
<1>10. AnswerOK'
  BY <1>4, <1>5 DEF AnswerOK
<1> QED BY <1>2, <1>6, <1>7, <1>8, <1>9, <1>10

\* The tool calls the store for its owner.
LEMMA ToolCallsStoreOK ==
  ASSUME IInv, NEW r \in Requests, ToolCallsStore(r)
  PROVE  IInv'
<1>1. /\ pc[r] = "tool" /\ Owner(r) # None /\ Move(r, "storing")
      /\ UNCHANGED <<config, server, profile, answer, admissionVars, authVars>>
  BY DEF ToolCallsStore
<1>2. Attributed(r, Owner(r))
  BY <1>1, OwnerIsAttributed
<1>3. PICK op, x : (op = "create" => x = r) /\ Store!Ask(r, op, Owner(r), x)
  BY DEF ToolCallsStore
<1>4. /\ runs' = runs
      /\ issued' \subseteq issued \cup {r}
      /\ asked' = asked \cup {[thread |-> r, op |-> op, principal |-> Owner(r), run |-> x, begun |-> 0]}
  BY <1>3 DEF Store!Ask, Store!table
<1>5. StoreOK'
  BY <1>1, <1>2, <1>3, <1>4 DEF IInv, StoreOK, Attributed, Valid, PrincipalOf
<1> QED BY <1>1, <1>4, <1>5, StoreFrame

\* The store answers: a new run has the owner of the call that made it, the
\* others have the one they had.
LEMMA StoreAnswersOK ==
  ASSUME IInv, NEW r \in Requests, StoreAnswers(r)
  PROVE  IInv'
<1>1. /\ pc[r] = "storing" /\ Move(r, "stored")
      /\ UNCHANGED <<config, server, profile, answer, admissionVars, authVars>>
  BY DEF StoreAnswers
<1>2. PICK c \in asked : Store!Create(c) \/ Store!Serve(c) \/ Store!Deny(c)
  BY DEF StoreAnswers
<1>3. asked' \subseteq asked /\ issued' = issued
  BY <1>2 DEF Store!Create, Store!Serve, Store!Deny, Store!Answer
<1>4. \A x \in DOMAIN runs' : \/ x \in DOMAIN runs /\ runs'[x] = runs[x]
                              \/ /\ c.op = "create" /\ x = c.run
                                 /\ runs'[x].principal = c.principal
  <2>1. CASE Store!Create(c)
    <3> DEFINE new == [run |-> c.run, principal |-> c.principal, expires |-> c.begun + Ttl]
               f == [x \in DOMAIN runs \cup {c.run} |-> IF x = c.run THEN new ELSE runs[x]]
    <3>1. c.op = "create" /\ (runs' = f \/ \E d : runs' = Store!Drop(f, d))
      BY <2>1 DEF Store!Create
    <3>2. \A x \in DOMAIN runs' : x \in DOMAIN f /\ runs'[x] = f[x]
      BY <3>1 DEF Store!Drop
    <3>3. new.principal = c.principal
      OBVIOUS
    <3> HIDE DEF new
    <3>4. \A x \in DOMAIN f : (x = c.run /\ f[x] = new) \/ (x \in DOMAIN runs /\ f[x] = runs[x])
      OBVIOUS
    <3> HIDE DEF f
    <3> QED BY <3>1, <3>2, <3>3, <3>4
  <2>2. CASE Store!Serve(c) \/ Store!Deny(c)
    BY <2>2 DEF Store!Serve, Store!Deny, Store!table
  <2> QED BY <1>2, <2>1, <2>2
<1>5. \A x, q : Attributed(x, q)' <=> Attributed(x, q)
  BY <1>1 DEF Attributed, Valid, PrincipalOf
<1>6. StoreOK'
  BY <1>3, <1>4, <1>5 DEF IInv, StoreOK
<1> QED BY <1>1, <1>3, <1>6, StoreFrame

-----------------------------------------------------------------------------
(* The theorems. *)

LEMMA InitOK == Init => IInv
<1> SUFFICES ASSUME Init PROVE IInv
  OBVIOUS
<1> USE DEF Init
<1>1. PICK w \in Worlds : config = w.config /\ profile = w.traffic /\ AuthInit(w.issuer)
  OBVIOUS
<1>2. RequestsOK
  BY DEF RequestsOK, PcValues, Waiting
<1>3. SemaphoreOK /\ Queued = {} /\ held = {}
  <2>1. /\ value = Limit /\ waiters = <<>> /\ held = {} /\ fut = [r \in Requests |-> "none"]
        /\ Range(waiters) = {} /\ Queued = {} /\ Charged = {}
    BY DEF AdmissionInit, Queued, Range, Charged
  <2>2. QueueOK
    BY <2>1, LimitAssumption DEF QueueOK, IsInjective, FutValues
  <2>3. PermitsConserved
    BY <2>1, FS_EmptySet, LimitAssumption DEF PermitsConserved
  <2>4. NoLostWakeup
    BY <2>1 DEF NoLostWakeup, PendingIn
  <2> QED BY <2>1, <2>2, <2>3, <2>4 DEF SemaphoreOK
<1>4. PlaceOK
  BY <1>3 DEF PlaceOK
<1>5. VerifierOK
  <2>1. VerifierTypes
    BY <1>1 DEF AuthInit, VerifierTypes, VpcValues
  <2>2. DiscoveryOK
    BY <1>1 DEF AuthInit, DiscoveryOK, Sound
  <2>3. RejectedForCause
    BY <1>1 DEF AuthInit, RejectedForCause
  <2> QED BY <2>1, <2>2, <2>3 DEF VerifierOK
<1>6. VerificationOK
  BY <1>1, VerifiersAssumption DEF AuthInit, VerificationOK
<1>7. AdmittedOK
  BY DEF AdmittedOK, AtTool
<1>8. issued = {} /\ asked = {} /\ runs = <<>>
  BY DEF Store!Init
<1>9. AnswerOK
  BY <1>8 DEF AnswerOK, AtTool
<1>10. StoreOK
  BY <1>8 DEF StoreOK
<1> QED BY <1>2, <1>3, <1>4, <1>5, <1>6, <1>7, <1>9, <1>10 DEF IInv

\* main(): only a deployment that may start does.
LEMMA StartOK ==
  ASSUME IInv, Start
  PROVE  IInv'
<1> USE DEF IInv
<1>1. /\ server = "starting" /\ server' = IF Startable THEN "up" ELSE "refused"
      /\ UNCHANGED <<config, profile, pc, answer, storeVars, admissionVars, authVars>>
  BY DEF Start
<1>2. UNCHANGED <<vpc, presented, failed, issuer, jwksUri, runs, asked, issued>>
  BY <1>1 DEF authVars, storeVars
<1>3. SemaphoreOK' /\ Queued' = Queued /\ held' = held
  BY <1>1, SemaphoreFrame
<1>4. PlaceOK' /\ RequestsOK' /\ AnswerOK'
  BY <1>1, <1>2, <1>3 DEF PlaceOK, RequestsOK, AnswerOK
<1>5. VerifierOK'
  BY <1>2 DEF VerifierOK, VerifierTypes, DiscoveryOK, RejectedForCause, Sound, Valid
<1>6. VerificationOK'
  BY <1>1, <1>2 DEF VerificationOK, Hosted, Valid
<1>7. AdmittedOK'
  BY <1>1, <1>2 DEF AdmittedOK, Startable, Hosted
<1>8. StoreOK'
  BY <1>1, <1>2 DEF StoreOK, Attributed, Valid, PrincipalOf
<1> QED BY <1>3, <1>4, <1>5, <1>6, <1>7, <1>8

LEMMA Unchanged ==
  ASSUME IInv, UNCHANGED vars
  PROVE  IInv'
<1>1. /\ UNCHANGED <<config, server, profile, pc, answer, runs, asked, issued>>
      /\ UNCHANGED <<value, waiters, fut, held, vpc, presented, failed, issuer, jwksUri>>
  BY DEF vars, requestVars, storeVars, admissionVars, authVars
<1>2. SemaphoreOK' /\ Queued' = Queued
  BY <1>1, SemaphoreFrame DEF IInv, admissionVars
<1> QED BY <1>1, <1>2 DEF IInv, RequestsOK, PlaceOK, VerifierOK, VerifierTypes, DiscoveryOK,
           RejectedForCause, Sound, Valid, VerificationOK, Hosted, AdmittedOK, Startable,
           AnswerOK, StoreOK, Attributed, PrincipalOf

\* The state of the server is consistent in every behaviour: what the queue,
\* the verifier, the answers and the run store say of a request fits together.
THEOREM Invariance == Spec => []IInv
<1>1. Init => IInv
  BY InitOK
<1>2. IInv /\ [Next]_vars => IInv'
  <2> SUFFICES ASSUME IInv, [Next]_vars PROVE IInv'
    OBVIOUS
  <2>1. CASE Start
    BY <2>1, StartOK
  <2>2. ASSUME NEW r \in Requests,
               Arrive(r) \/ RequestTimeout(r) \/ AcquireTimeout(r) \/ StartStream(r)
        PROVE  IInv'
    BY <2>2, ArriveOK, RequestTimeoutOK, AcquireTimeoutOK, StartStreamOK
  <2>3. ASSUME NEW r \in Requests, Work(r) PROVE IInv'
    <3>1. CASE ToolEnds(r) \/ StoredEnds(r)
      BY <3>1, FinishOK DEF ToolEnds, StoredEnds
    <3>2. CASE Admit(r) \/ Resume(r) \/ Health(r) \/ Authenticate(r)
      BY <3>2, AdmitOK, ResumeOK, HealthOK, AuthenticateOK
    <3>3. CASE Verifying(r) \/ Verdict(r) \/ ToolCallsStore(r) \/ StoreAnswers(r)
      BY <3>3, VerifyingOK, VerdictOK, ToolCallsStoreOK, StoreAnswersOK
    <3> QED BY <2>3, <3>1, <3>2, <3>3 DEF Work
  <2>4. CASE UNCHANGED vars
    BY <2>4, Unchanged
  <2> QED BY <2>1, <2>2, <2>3, <2>4 DEF Next
<1> QED BY <1>1, <1>2, PTL DEF Spec

\* The queue of the semaphore holds exactly the requests that wait, once each,
\* whatever timeouts and releases do (asyncio.Semaphore under wait_for).
THEOREM QueueIsConsistent == Spec => []QueueOK
<1>1. IInv => QueueOK
  BY DEF IInv, SemaphoreOK
<1> QED BY <1>1, Invariance, PTL

\* No permit of the concurrency limit is lost or made, for any limit and any
\* number of requests (ConcurrencyLimitMiddleware).
THEOREM PermitsAreConserved == Spec => []PermitsConserved
<1>1. IInv => PermitsConserved
  BY DEF IInv, SemaphoreOK
<1> QED BY <1>1, Invariance, PTL

\* A free permit never lies beside a waiter that nobody will wake.
THEOREM NoWakeupIsLost == Spec => []NoLostWakeup
<1>1. IInv => NoLostWakeup
  BY DEF IInv, SemaphoreOK
<1> QED BY <1>1, Invariance, PTL

\* A valid token of a sound issuer is rejected only when a fetch of its own
\* verification has failed (JwtTokenVerifier, shared without a lock).
THEOREM RejectionHasACause == Spec => []RejectedForCause
<1>1. IInv => RejectedForCause
  BY DEF IInv, VerifierOK
<1> QED BY <1>1, Invariance, PTL

\* The answers 401, 403, 413 and 503 are never given to a request that has
\* drawn a run id, before or after (compile_runtime and the middleware).
THEOREM RefusalsLeaveNoRun == Spec => []RefusedLeavesNoRun
<1>1. IInv => RefusedLeavesNoRun
  BY DEF IInv, AnswerOK, RefusedLeavesNoRun, Waiting
<1> QED BY <1>1, Invariance, PTL

\* Every run belongs to the principal that the request which made it proved to
\* be (resolve_principal, RequireAuth, the run store).
THEOREM RunsHaveTheirOwner == Spec => []RunsAreAttributed
<1>1. IInv => RunsAreAttributed
  BY DEF IInv, StoreOK, Attributed, RunsAreAttributed
<1> QED BY <1>1, Invariance, PTL

=============================================================================

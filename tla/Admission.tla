------------------------------ MODULE Admission ------------------------------
(***************************************************************************)
(* The concurrency limit of the HTTP ingress: mcp/http.py, class           *)
(* ConcurrencyLimitMiddleware, on top of asyncio.Semaphore.                *)
(*                                                                         *)
(* A request takes a permit, or waits for one under a timeout (wait_for);  *)
(* it gives the permit back in a finally clause when the response of the   *)
(* application below has started.                                          *)
(*                                                                         *)
(* The semaphore is the library's: a free counter, and a queue of futures, *)
(* one per waiting request.  A release resolves the first unresolved       *)
(* future, and the waiter runs only later, when the event loop resumes it. *)
(* The timeout may strike in between: the waiter then finds itself both    *)
(* granted and cancelled, and has to hand the permit on.                   *)
(***************************************************************************)
EXTENDS SequencesExt

CONSTANTS
  Requests,   \* the requests of a behaviour
  Limit       \* concurrency_limit, COMPILE_CONCURRENCY_LIMIT = 8 by default

ASSUME LimitAssumption == Limit \in Nat \ {0}
ASSUME RequestsAssumption == IsFiniteSet(Requests)

VARIABLES
  value,     \* Semaphore._value: free permits
  waiters,   \* Semaphore._waiters, oldest first
  fut,       \* the future of each waiting request
  held       \* the requests that hold a permit

admissionVars == <<value, waiters, fut, held>>

\* "expired": resolved by a release, then cancelled before the waiter ran.
FutValues == {"none", "pending", "granted", "cancelled", "expired"}

AdmissionInit ==
  /\ value = Limit
  /\ waiters = <<>>
  /\ fut = [r \in Requests |-> "none"]
  /\ held = {}

-----------------------------------------------------------------------------
(* asyncio.Semaphore. *)

\* locked(): no permit is free, or somebody is in front.
Locked == value = 0 \/ \E r \in Range(waiters) : fut[r] # "cancelled"

PendingIn(q) == {r \in Requests : r \in Range(q) /\ fut[r] = "pending"}

Precedes(q, r, s) == \E i, j \in DOMAIN q : i < j /\ q[i] = r /\ q[j] = s

\* _wake_up_next, at most n times, with v permits free and the queue q: the
\* oldest unresolved futures are resolved, and each takes a permit with it.
WakeUp(n, v, q, f) ==
  \E W \in SUBSET PendingIn(q) :
    /\ Cardinality(W) = IF n <= Cardinality(PendingIn(q)) THEN n ELSE Cardinality(PendingIn(q))
    /\ \A r \in W, s \in PendingIn(q) \ W : Precedes(q, r, s)
    /\ value' = v - Cardinality(W)
    /\ fut' = [r \in Requests |-> IF r \in W THEN "granted" ELSE f[r]]
    /\ waiters' = q

\* acquire(), the fast path.
AcquireNow(r) ==
  /\ ~ Locked
  /\ value' = value - 1
  /\ held' = held \cup {r}
  /\ UNCHANGED <<waiters, fut>>

\* acquire(): wait for a release.
Enqueue(r) ==
  /\ Locked
  /\ waiters' = Append(waiters, r)
  /\ fut' = [fut EXCEPT ![r] = "pending"]
  /\ UNCHANGED <<value, held>>

\* wait_for: the acquire timeout cancels the waiting task.
CancelWait(r) ==
  \/ /\ fut[r] = "pending"
     /\ fut' = [fut EXCEPT ![r] = "cancelled"]
     /\ UNCHANGED <<value, waiters, held>>
  \/ /\ fut[r] = "granted"
     /\ fut' = [fut EXCEPT ![r] = "expired"]
     /\ UNCHANGED <<value, waiters, held>>

\* self._waiters.remove(fut)
Without(q, r) == RemoveAt(q, CHOOSE i \in DOMAIN q : q[i] = r)

\* Mutant of LeaveQueue: the future stays in the queue.
LeaveQueueInPlace(r, v) ==
  WakeUp(v, v, waiters, [fut EXCEPT ![r] = "none"])

\* The waiter runs: it leaves the queue, and wakes as many as there are free
\* permits, v of them.
LeaveQueue(r, v) ==
  WakeUp(v, v, Without(waiters, r), [fut EXCEPT ![r] = "none"])

\* acquire() returns.
ResumeGranted(r) ==
  /\ fut[r] = "granted"
  /\ LeaveQueue(r, value)
  /\ held' = held \cup {r}

\* Mutant of ResumeRefused: the permit of a late grant is not handed on.
ResumeLosingPermit(r) ==
  /\ fut[r] \in {"cancelled", "expired"}
  /\ LeaveQueue(r, value)
  /\ UNCHANGED held

\* acquire() raises; a permit that came too late goes back first.
ResumeRefused(r) ==
  /\ fut[r] \in {"cancelled", "expired"}
  /\ LeaveQueue(r, IF fut[r] = "expired" THEN value + 1 ELSE value)
  /\ UNCHANGED held

\* Mutant of Release: nobody is woken.
ReleaseSilently(r) ==
  /\ r \in held
  /\ held' = held \ {r}
  /\ value' = value + 1
  /\ UNCHANGED <<waiters, fut>>

\* release(), in the finally clause of the middleware.
Release(r) ==
  /\ r \in held
  /\ held' = held \ {r}
  /\ WakeUp(1, value + 1, waiters, fut)

-----------------------------------------------------------------------------
(* Properties. *)

\* A request is in the queue exactly while it has a future, once, and then
\* holds no permit.
QueueOK ==
  /\ value \in Nat
  /\ held \subseteq Requests
  /\ fut \in [Requests -> FutValues]
  /\ waiters \in Seq(Requests)
  /\ IsInjective(waiters)
  /\ Range(waiters) = {r \in Requests : fut[r] # "none"}
  /\ held \cap Range(waiters) = {}

\* The requests a permit has been given to, with the grants that came too late.
Charged == held \cup {r \in Requests : fut[r] \in {"granted", "expired"}}

\* No permit is lost or made, whatever the timeouts do between a grant and the
\* moment its waiter runs: the free permits and the given ones are always
\* Limit together.  Hence no more than Limit requests are past the middleware
\* without a response.
PermitsConserved == value + Cardinality(Charged) = Limit

\* No wakeup is lost: when a permit is free while a request waits for one, a
\* waiter that has been woken is still to run, and will wake the others.
NoLostWakeup ==
  value > 0 /\ PendingIn(waiters) # {} =>
    \E r \in Range(waiters) : fut[r] # "pending"
=============================================================================

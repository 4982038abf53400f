------------------------------ MODULE RunStore ------------------------------
(***************************************************************************)
(* The MCP run store: mcp/run_store.py, class InMemoryRunStore.            *)
(*                                                                         *)
(* Compiled runs are kept in a dictionary (_items) and in a recency list   *)
(* (_order), both guarded by one lock.  A run leaves the store when its    *)
(* time-to-live has passed or when the store is over its entry bound; in   *)
(* the second case the victim is the least recently used run of the        *)
(* principal that holds the most runs.                                     *)
(*                                                                         *)
(* Every call runs on a server thread.  create() reads the clock and draws *)
(* the run id BEFORE it takes the lock, get() and list_for_principal()     *)
(* read the clock while they hold it, so a thread may insert a record that *)
(* was dated before another thread's eviction.  The loops inside the       *)
(* critical section take one step per iteration.                           *)
(***************************************************************************)
EXTENDS SequencesExt

CONSTANTS
  Threads,      \* server threads
  Principals,   \* callers, "oauth:..." or the local principal
  RunIds,       \* the ids secrets.token_urlsafe can draw
  MaxEntries,   \* max_entries, 128 by default
  Ttl,          \* ttl_seconds
  MaxTime,      \* bound on the clock
  None          \* no thread, no principal, no run

ASSUME MaxEntriesAssumption == MaxEntries \in Nat \ {0}
ASSUME TtlAssumption == Ttl \in Nat \ {0}
ASSUME MaxTimeAssumption == MaxTime \in Nat
ASSUME NoneAssumption == None \notin Threads \cup Principals \cup RunIds

VARIABLES
  now,      \* time.time()
  items,    \* _items: run id -> record
  order,    \* _order: least recently used first
  lock,     \* _lock: the thread that holds it
  issued,   \* the ids drawn so far
  pc,       \* where each thread is in its call
  call,     \* each thread's arguments and the times it has read
  reply     \* what each thread's last call returned

vars == <<now, items, order, lock, issued, pc, call, reply>>

Ops == {"create", "get", "list"}
PcValues == {"idle", "waiting", "evict", "trim"}

\* RunRecord, without the payload and the URI, which the store never reads.
Records == [run : RunIds, principal : Principals, expires : Nat]

\* The arguments of a call, the clock when it began, and the clock it works with.
Calls == [op : Ops, principal : Principals, run : RunIds \cup {None}, begun : Nat, seen : Nat]

\* A reply with no record is the typed not-found (or an empty list).
Replies == [principal : Principals \cup {None}, begun : Nat, records : SUBSET Records]

NoReply == [principal |-> None, begun |-> 0, records |-> {}]

Init ==
  /\ now = 0
  /\ items = <<>>
  /\ order = <<>>
  /\ lock = None
  /\ issued = {}
  /\ pc = [t \in Threads |-> "idle"]
  /\ call = [t \in Threads |-> None]
  /\ reply = [t \in Threads |-> NoReply]

-----------------------------------------------------------------------------
(* The data structure. *)

Live == DOMAIN items

\* _order.remove(r)
Without(s, r) == RemoveAt(s, CHOOSE i \in DOMAIN s : s[i] = r)

\* _items.pop(r)
Pop(f, r) == [x \in DOMAIN f \ {r} |-> f[x]]

\* _evict_locked: the runs whose expiry is not after t.
Expired(t) == {r \in Live : items[r].expires <= t}

\* The runs of one principal, as positions of _order.
Holding(p) == {i \in DOMAIN order : items[order[i]].principal = p}

Count(p) == Cardinality(Holding(p))

\* The principals whose count is the largest of all counts in _order.
HoldsMost(p) == \A i \in DOMAIN order : Count(items[order[i]].principal) <= Count(p)

\* Mutant of IsVictim: the oldest run of all.
IsOldest(i) == i = 1

\* _capacity_victim_locked: the first run of _order whose principal holds the most.
IsVictim(i) ==
  /\ HoldsMost(items[order[i]].principal)
  /\ \A j \in 1 .. i - 1 : ~ HoldsMost(items[order[j]].principal)

Discard(r) ==
  /\ items' = Pop(items, r)
  /\ order' = Without(order, r)

-----------------------------------------------------------------------------
(* Entering a call. *)

Begin(t, c) ==
  /\ pc[t] = "idle"
  /\ pc' = [pc EXCEPT ![t] = "waiting"]
  /\ call' = [call EXCEPT ![t] = c]
  /\ reply' = [reply EXCEPT ![t] = NoReply]
  /\ UNCHANGED <<now, items, order, lock>>

\* create(): the clock and the id are read outside the lock.
BeginCreate(t, p, r) ==
  /\ r \notin issued
  /\ issued' = issued \cup {r}
  /\ Begin(t, [op |-> "create", principal |-> p, run |-> r, begun |-> now, seen |-> now])

\* get() and require(): r is whatever id the client presents.
BeginGet(t, p, r) ==
  /\ UNCHANGED issued
  /\ Begin(t, [op |-> "get", principal |-> p, run |-> r, begun |-> now, seen |-> now])

BeginList(t, p) ==
  /\ UNCHANGED issued
  /\ Begin(t, [op |-> "list", principal |-> p, run |-> None, begun |-> now, seen |-> now])

\* with self._lock: the readers take the time now, create() keeps the one it has.
Acquire(t) ==
  /\ pc[t] = "waiting"
  /\ lock = None
  /\ lock' = t
  /\ pc' = [pc EXCEPT ![t] = "evict"]
  /\ call' = [call EXCEPT ![t].seen = IF call[t].op = "create" THEN @ ELSE now]
  /\ UNCHANGED <<now, items, order, issued, reply>>

\* One turn of the loop of _evict_locked.
EvictExpired(t) ==
  /\ pc[t] = "evict"
  /\ \E r \in Expired(call[t].seen) : Discard(r)
  /\ UNCHANGED <<now, lock, issued, pc, call, reply>>

\* The loop of _evict_locked has ended, in a call of the given kind.
Evicted(t, op) ==
  /\ pc[t] = "evict"
  /\ Expired(call[t].seen) = {}
  /\ call[t].op = op

\* Mutant of Return: the lock is not given back.
ReturnHoldingLock(t, records) ==
  /\ pc' = [pc EXCEPT ![t] = "idle"]
  /\ call' = [call EXCEPT ![t] = None]
  /\ reply' = [reply EXCEPT ![t] = [principal |-> call[t].principal,
                                    begun |-> call[t].begun, records |-> records]]
  /\ UNCHANGED <<now, issued, lock>>

\* Leave the critical section and return the records to the caller.
Return(t, records) ==
  /\ lock' = None
  /\ pc' = [pc EXCEPT ![t] = "idle"]
  /\ call' = [call EXCEPT ![t] = None]
  /\ reply' = [reply EXCEPT ![t] = [principal |-> call[t].principal,
                                    begun |-> call[t].begun, records |-> records]]
  /\ UNCHANGED <<now, issued>>

-----------------------------------------------------------------------------
(* The operations, inside the lock. *)

NewRecord(t) ==
  [run |-> call[t].run, principal |-> call[t].principal, expires |-> call[t].seen + Ttl]

\* create(): the record enters both structures.
Insert(t) ==
  /\ Evicted(t, "create")
  /\ items' = [r \in Live \cup {call[t].run} |->
                  IF r = call[t].run THEN NewRecord(t) ELSE items[r]]
  /\ order' = Append(order, call[t].run)
  /\ pc' = [pc EXCEPT ![t] = "trim"]
  /\ UNCHANGED <<now, lock, issued, call, reply>>

\* create(): one turn of the loop while len(_order) > max_entries.
Trim(t) ==
  /\ pc[t] = "trim"
  /\ Len(order) > MaxEntries
  /\ \E i \in DOMAIN order : IsVictim(i) /\ Discard(order[i])
  /\ UNCHANGED <<now, lock, issued, pc, call, reply>>

\* Mutant of FinishCreate: the bound is tested before the insertion counts.
FinishCreateOverBound(t) ==
  /\ pc[t] = "trim"
  /\ Len(order) <= MaxEntries + 1
  /\ Return(t, {NewRecord(t)})
  /\ UNCHANGED <<items, order>>

FinishCreate(t) ==
  /\ pc[t] = "trim"
  /\ Len(order) <= MaxEntries
  /\ Return(t, {NewRecord(t)})
  /\ UNCHANGED <<items, order>>

\* Mutants of Hit: the touch does not remove the old place; the owner is not compared.
HitWithoutRemove(t) ==
  LET r == call[t].run IN
  /\ Evicted(t, "get")
  /\ r \in Live
  /\ items[r].principal = call[t].principal
  /\ order' = Append(order, r)
  /\ Return(t, {items[r]})
  /\ UNCHANGED items

HitOfAnyone(t) ==
  LET r == call[t].run IN
  /\ Evicted(t, "get")
  /\ r \in Live
  /\ order' = Append(Without(order, r), r)
  /\ Return(t, {items[r]})
  /\ UNCHANGED items

\* get(): a hit is moved to the recent end of _order.
Hit(t) ==
  LET r == call[t].run IN
  /\ Evicted(t, "get")
  /\ r \in Live
  /\ items[r].principal = call[t].principal
  /\ order' = Append(Without(order, r), r)
  /\ Return(t, {items[r]})
  /\ UNCHANGED items

\* Mutant of Miss: the touch happens before the owner is compared.
MissTouches(t) ==
  LET r == call[t].run IN
  /\ Evicted(t, "get")
  /\ ~ (r \in Live /\ items[r].principal = call[t].principal)
  /\ order' = IF r \in Live THEN Append(Without(order, r), r) ELSE order
  /\ Return(t, {})
  /\ UNCHANGED items

\* get(): unknown, expired and foreign runs are answered alike; nothing is touched.
Miss(t) ==
  /\ Evicted(t, "get")
  /\ ~ (call[t].run \in Live /\ items[call[t].run].principal = call[t].principal)
  /\ Return(t, {})
  /\ UNCHANGED <<items, order>>

\* list_for_principal()
FinishList(t) ==
  /\ Evicted(t, "list")
  /\ Return(t, {items[order[i]] : i \in Holding(call[t].principal)})
  /\ UNCHANGED <<items, order>>

Tick ==
  /\ now < MaxTime
  /\ now' = now + 1
  /\ UNCHANGED <<items, order, lock, issued, pc, call, reply>>

\* The steps of a thread that is inside a call.
Step(t) ==
  \/ Acquire(t) \/ EvictExpired(t)
  \/ Insert(t) \/ Trim(t) \/ FinishCreate(t)
  \/ Hit(t) \/ Miss(t) \/ FinishList(t)

Request(t) ==
  \E p \in Principals :
    \/ \E r \in RunIds : BeginCreate(t, p, r) \/ BeginGet(t, p, r)
    \/ BeginList(t, p)

Next == Tick \/ \E t \in Threads : Request(t) \/ Step(t)

Spec == Init /\ [][Next]_vars

\* A thread that holds the lock keeps running; nothing else is assumed, a
\* Python lock being free to starve a waiter.
FairSpec == Spec /\ \A t \in Threads : WF_vars(lock = t /\ Step(t))

-----------------------------------------------------------------------------
(* Properties. *)

\* The type of the state.
TypeOK ==
  /\ now \in Nat
  /\ Live \subseteq RunIds
  /\ items \in [Live -> Records]
  /\ order \in Seq(RunIds)
  /\ lock \in Threads \cup {None}
  /\ issued \subseteq RunIds
  /\ pc \in [Threads -> PcValues]
  /\ call \in [Threads -> Calls \cup {None}]
  /\ \A t \in Threads : pc[t] # "idle" => call[t] \in Calls
  /\ reply \in [Threads -> Replies]

\* _items and _order always name the same runs, each once, whatever the
\* interleaving of creates, touches and evictions: the KeyError of
\* self._items[rid] in the victim scan and the ValueError of _order.remove
\* cannot happen.
OrderMatchesItems ==
  /\ Range(order) = Live
  /\ IsInjective(order)

\* Outside create()'s critical section the store holds at most max_entries
\* runs, and inside it at most one more, so its while loop turns at most once.
Bounded ==
  /\ Len(order) <= MaxEntries + 1
  /\ Len(order) = MaxEntries + 1 => \E t \in Threads : lock = t /\ pc[t] = "trim"

\* The capacity bound never evicts the run whose creation exceeded it: what
\* create() returns is in the store when it returns.
FreshRunSurvives ==
  \A t \in Threads : pc[t] = "trim" => call[t].run \in Live

\* No call returns a record of another principal, or one that had expired
\* before the call began (create() may evict with a stale clock: the readers
\* must not rely on it).
ServesOwnLiveRuns ==
  \A t \in Threads : \A rec \in reply[t].records :
    /\ rec.principal = reply[t].principal
    /\ rec.expires > reply[t].begun

\* A live run is removed for capacity only from a principal that holds the
\* most: a burst by one principal cannot crowd out one that holds fewer.
BurstIsolationStep ==
  \A r \in Live \ DOMAIN items' :
    \/ \E t \in Threads : lock = t /\ r \in Expired(call[t].seen)
    \/ \A p \in Principals : Count(p) <= Count(items[r].principal)

BurstIsolation == [][BurstIsolationStep]_vars

\* The table the callers see.  A create that found the store full is in effect
\* once its victim is gone, until then neither its run nor its answer is there.
OverBound == Len(order) > MaxEntries

InEffect(t) == pc[t] = "trim" /\ ~ OverBound

Pending == {t \in Threads : pc[t] # "idle" /\ ~ InEffect(t)}

AskedOf(t) == [thread |-> t, op |-> call[t].op, principal |-> call[t].principal,
               run |-> call[t].run, begun |-> call[t].begun]

AnswerOf(t) == [principal |-> call[t].principal, begun |-> call[t].begun,
                records |-> {NewRecord(t)}]

VisibleRuns == IF OverBound THEN Pop(items, order[Len(order)]) ELSE items

VisibleOrder == IF OverBound THEN Front(order) ELSE order

Asked == {AskedOf(t) : t \in Pending}

Answers == [t \in Threads |-> IF InEffect(t) THEN AnswerOf(t) ELSE reply[t]]

Registry == INSTANCE RunRegistry WITH
  runs <- VisibleRuns, recency <- VisibleOrder, asked <- Asked, reply <- Answers

\* Whatever the interleaving of threads, every call of the store takes effect
\* in one step between its beginning and its return: the store implements the
\* atomic registry, with its bound, its choice of victim and its expiry.
ImplementsRegistry == Registry!Spec

\* Every critical section ends: both loops terminate and the lock is released.
LockReleased == \A t \in Threads : lock = t ~> lock # t
=============================================================================

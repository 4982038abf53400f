----------------------------- MODULE RunRegistry -----------------------------
(***************************************************************************)
(* What the run store promises (mcp/run_store.py), without its lock, its   *)
(* loops and its critical sections: a bounded table of runs in which every *)
(* call takes effect in one step, between the moment it is made and the    *)
(* moment it is answered.                                                  *)
(*                                                                         *)
(*   - a run may leave once it is due, at any moment after that;           *)
(*   - a create that finds the table full replaces, in the same step, the  *)
(*     least recently used run of a principal that then holds the most;    *)
(*   - a fetch answers a run of the caller that was live when the call     *)
(*     began, and makes it the most recently used one; every other fetch   *)
(*     is answered by nothing and changes nothing;                         *)
(*   - a listing answers all the runs of the caller, none of them due when *)
(*     the call began.                                                     *)
(*                                                                         *)
(* RunStore is shown to implement this module; Ingress uses this module as *)
(* the store of the server.                                                *)
(***************************************************************************)
EXTENDS SequencesExt

CONSTANTS
  Threads,      \* the callers' threads
  Principals,   \* who they call for
  RunIds,       \* the run ids that can be drawn
  MaxEntries,   \* the largest number of runs in the table
  Ttl,          \* how long a run lives
  None          \* no principal, no run

VARIABLES
  now,       \* the clock
  runs,      \* run id -> [run, principal, expires]
  recency,   \* the runs, least recently used first
  issued,    \* the ids drawn so far
  asked,     \* the calls made and not yet in effect
  reply      \* each thread's last answer

table == <<runs, recency>>

regVars == <<now, runs, recency, issued, asked, reply>>

NoAnswer == [principal |-> None, begun |-> 0, records |-> {}]

Init ==
  /\ runs = <<>>
  /\ recency = <<>>
  /\ issued = {}
  /\ asked = {}
  /\ reply = [t \in Threads |-> NoAnswer]

\* A call is made: a create draws a new id.
Ask(t, op, p, r) ==
  /\ \A c \in asked : c.thread # t
  /\ op = "create" => r \notin issued
  /\ issued' = IF op = "create" THEN issued \cup {r} ELSE issued
  /\ asked' = asked \cup {[thread |-> t, op |-> op, principal |-> p, run |-> r, begun |-> now]}
  /\ reply' = [reply EXCEPT ![t] = NoAnswer]
  /\ UNCHANGED table

\* The call c takes effect, with these records as its answer.
Answer(c, records) ==
  /\ asked' = asked \ {c}
  /\ reply' = [reply EXCEPT ![c.thread] = [principal |-> c.principal,
                                           begun |-> c.begun, records |-> records]]
  /\ UNCHANGED issued

-----------------------------------------------------------------------------
(* The table: f holds the records, s is the recency order. *)

Drop(f, r) == [x \in DOMAIN f \ {r} |-> f[x]]

Share(f, s, p) == Cardinality({i \in DOMAIN s : f[s[i]].principal = p})

HoldsTheMost(f, s, p) == \A i \in DOMAIN s : Share(f, s, f[s[i]].principal) <= Share(f, s, p)

\* The least recently used place of a principal that holds the most.
Victim(f, s, i) ==
  /\ HoldsTheMost(f, s, f[s[i]].principal)
  /\ \A j \in 1 .. i - 1 : ~ HoldsTheMost(f, s, f[s[j]].principal)

-----------------------------------------------------------------------------
(* The steps. *)

\* A run that is due leaves.
Expire(i) ==
  /\ runs[recency[i]].expires <= now
  /\ runs' = Drop(runs, recency[i])
  /\ recency' = RemoveAt(recency, i)
  /\ UNCHANGED <<issued, asked, reply>>

\* A create takes effect: the run enters, and where there is no room for one
\* more the victim, chosen with the new run counted, leaves in the same step.
\* The new run itself is never the victim.
Create(c) ==
  LET new == [run |-> c.run, principal |-> c.principal, expires |-> c.begun + Ttl]
      f == [x \in DOMAIN runs \cup {c.run} |-> IF x = c.run THEN new ELSE runs[x]]
      s == Append(recency, c.run)
  IN
  /\ c.op = "create"
  /\ \/ /\ Len(recency) < MaxEntries
        /\ runs' = f
        /\ recency' = s
     \/ /\ Len(recency) = MaxEntries
        /\ \E i \in 1 .. MaxEntries : /\ Victim(f, s, i)
                                      /\ runs' = Drop(f, s[i])
                                      /\ recency' = RemoveAt(s, i)
  /\ Answer(c, {new})

\* A fetch of a run of the caller that was not due when the call began.
Serve(c) ==
  /\ c.op = "get"
  /\ \E i \in DOMAIN recency :
       /\ recency[i] = c.run
       /\ runs[c.run].principal = c.principal
       /\ runs[c.run].expires > c.begun
       /\ recency' = Append(RemoveAt(recency, i), c.run)
       /\ Answer(c, {runs[c.run]})
  /\ UNCHANGED runs

\* Unknown, departed and foreign runs are answered alike.
Deny(c) ==
  /\ c.op = "get"
  /\ ~ (c.run \in DOMAIN runs /\ runs[c.run].principal = c.principal)
  /\ Answer(c, {})
  /\ UNCHANGED table

\* The runs of a principal.
RunsOf(p) == {runs[r] : r \in {x \in DOMAIN runs : runs[x].principal = p}}

Enumerate(c) ==
  /\ c.op = "list"
  /\ \A rec \in RunsOf(c.principal) : rec.expires > c.begun
  /\ Answer(c, RunsOf(c.principal))
  /\ UNCHANGED table

TakeEffect(c) == Create(c) \/ Serve(c) \/ Deny(c) \/ Enumerate(c)

Request(t) ==
  \E p \in Principals :
    \/ \E r \in RunIds : Ask(t, "create", p, r) \/ Ask(t, "get", p, r)
    \/ Ask(t, "list", p, None)

\* The clock moves on.
Tick ==
  /\ now' = now + 1
  /\ UNCHANGED <<runs, recency, issued, asked, reply>>

Next ==
  \/ Tick
  \/ /\ UNCHANGED now
     /\ \/ \E i \in DOMAIN recency : Expire(i)
        \/ \E c \in asked : TakeEffect(c)
        \/ \E t \in Threads : Request(t)

Spec == Init /\ now = 0 /\ [][Next]_regVars
=============================================================================

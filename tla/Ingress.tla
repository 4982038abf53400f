------------------------------- MODULE Ingress -------------------------------
(***************************************************************************)
(* The HTTP server: mcp/http.py (the entry point and the middleware stack) *)
(* and mcp/__init__.py (the tools and the run resource), composed with the *)
(* concurrency limit (Admission), the token verifier (HostedAuth) and the  *)
(* run store (RunRegistry, which RunStore implements).                     *)
(*                                                                         *)
(* A request passes, in this order, the origin allowlist (403), the body   *)
(* size (413), the request timeout (504), the concurrency limit (503), the *)
(* bearer check of the SDK (401) and the tool it calls.  The timeout only  *)
(* answers: what runs below it is not cancelled, goes on to the end, and   *)
(* keeps its permit until its own response starts.  A streamed response    *)
(* starts before the tool is done, so the tool may outlive its permit.     *)
(*                                                                         *)
(* Two things happen to a request side by side: what the client is         *)
(* answered (answer) and how far the application is (pc).                  *)
(***************************************************************************)
EXTENDS Admission, HostedAuth

CONSTANTS
  Worlds,      \* what the server may meet: [config : [transport, oauth, required, pack],
               \* issuer, traffic : [Requests -> [origin, body, route, token, context]
               \* or None]]
  Local,       \* LOCAL_PRINCIPAL
  MaxEntries,  \* of the run store
  Ttl          \* of the run store

\* asyncio.to_thread gives every verification a thread of its own.
ASSUME VerifiersAssumption == Requests \subseteq Verifiers

VARIABLES
  config,    \* the environment main() reads
  server,    \* "starting", "up" or "refused"
  profile,   \* what each request is
  pc,        \* where the application is with it
  answer,    \* the status the client has been sent
  runs, recency, issued, asked, reply   \* the run store

requestVars == <<config, server, profile, pc, answer>>
storeVars == <<runs, recency, issued, asked, reply>>
vars == <<requestVars, storeVars, admissionVars, authVars>>

\* Every request draws its own run id and has its own thread.  Expiry is the
\* store's own subject: here no run is due.
Store == INSTANCE RunRegistry WITH
  Threads <- Requests, RunIds <- Requests, Principals <- {}, now <- 0

Waiting == 0
Statuses == {200, 401, 403, 413, 503, 504}
PcValues == {"new", "limit", "waiting", "inside", "verifying", "tool", "storing", "stored", "done"}

Init ==
  /\ \E w \in Worlds : config = w.config /\ profile = w.traffic /\ AuthInit(w.issuer)
  /\ server = "starting"
  /\ pc = [r \in Requests |-> "new"]
  /\ answer = [r \in Requests |-> Waiting]
  /\ Store!Init
  /\ AdmissionInit

-----------------------------------------------------------------------------
(* Starting: main(), resolve_hosted_auth(), HostedAuthConfig, build_server(). *)

\* token_verifier and auth_settings are there.
Hosted == config.oauth = "full"

\* Mutant of Startable: L9_REQUIRE_AUTH is not consulted.
StartableUnprotected ==
  /\ config.transport # "stdio"
  /\ config.oauth \in {"none", "full"}
  /\ config.pack

\* The stdio transport has an entry point of its own.  An incomplete or unsafe
\* OAuth configuration raises, and so does none at all where L9_REQUIRE_AUTH is
\* set; the pack must be named, load and verify.
Startable ==
  /\ config.transport # "stdio"
  /\ config.oauth \in {"none", "full"}
  /\ config.required => Hosted
  /\ config.pack

Start ==
  /\ server = "starting"
  /\ server' = IF Startable THEN "up" ELSE "refused"
  /\ UNCHANGED <<config, profile, pc, answer, storeVars, admissionVars, authVars>>

-----------------------------------------------------------------------------
(* The middleware stack. *)

\* The client is answered, unless the timeout has answered already.
Status(r, s) == answer' = [answer EXCEPT ![r] = IF @ = Waiting THEN s ELSE @]

Move(r, place) == pc' = [pc EXCEPT ![r] = place]

\* OriginAllowlistMiddleware, then MaxBodySizeMiddleware.
Arrive(r) ==
  /\ server = "up"
  /\ pc[r] = "new"
  /\ profile[r] # None
  /\ \/ /\ profile[r].origin = "foreign"
        /\ Move(r, "done") /\ Status(r, 403)
     \/ /\ profile[r].origin # "foreign" /\ profile[r].body = "large"
        /\ Move(r, "done") /\ Status(r, 413)
     \/ /\ profile[r].origin # "foreign" /\ profile[r].body # "large"
        /\ Move(r, "limit") /\ UNCHANGED answer
  /\ UNCHANGED <<config, server, profile, storeVars, admissionVars, authVars>>

\* RequestTimeoutMiddleware: it may strike until a response has started.
RequestTimeout(r) ==
  /\ pc[r] \notin {"new", "done"}
  /\ answer[r] = Waiting
  /\ Status(r, 504)
  /\ UNCHANGED <<config, server, profile, pc, storeVars, admissionVars, authVars>>

\* ConcurrencyLimitMiddleware: wait_for(self._sem.acquire(), ...)
Admit(r) ==
  /\ pc[r] = "limit"
  /\ \/ AcquireNow(r) /\ Move(r, "inside")
     \/ Enqueue(r) /\ Move(r, "waiting")
  /\ UNCHANGED <<config, server, profile, answer, storeVars, authVars>>

AcquireTimeout(r) ==
  /\ pc[r] = "waiting"
  /\ CancelWait(r)
  /\ UNCHANGED <<requestVars, storeVars, authVars>>

\* Mutant of Resume: a waiter that was cancelled goes on.
ResumeAnyway(r) ==
  /\ pc[r] = "waiting"
  /\ \/ ResumeGranted(r) /\ Move(r, "inside") /\ UNCHANGED answer
     \/ ResumeRefused(r) /\ Move(r, "inside") /\ Status(r, 503)
  /\ UNCHANGED <<config, server, profile, storeVars, authVars>>

\* The event loop resumes a waiter.
Resume(r) ==
  /\ pc[r] = "waiting"
  /\ \/ ResumeGranted(r) /\ Move(r, "inside") /\ UNCHANGED answer
     \/ ResumeRefused(r) /\ Move(r, "done") /\ Status(r, 503)
  /\ UNCHANGED <<config, server, profile, storeVars, authVars>>

\* The response of the application starts: call_next returns and the finally
\* clause gives the permit back.
Respond(r, s) ==
  /\ Release(r)
  /\ Status(r, s)

-----------------------------------------------------------------------------
(* The application: the routes, the bearer check and the tools. *)

\* healthz and readyz, behind the same limit.
Health(r) ==
  /\ pc[r] = "inside"
  /\ profile[r].route = "health"
  /\ Respond(r, 200)
  /\ Move(r, "done")
  /\ UNCHANGED <<config, server, profile, storeVars, authVars>>

\* The bearer backend of the SDK, only there when the server is hosted.
Authenticate(r) ==
  /\ pc[r] = "inside"
  /\ profile[r].route # "health"
  /\ \/ /\ ~ Hosted
        /\ Move(r, "tool")
        /\ UNCHANGED <<answer, admissionVars, authVars>>
     \/ /\ Hosted /\ profile[r].token = None
        /\ Respond(r, 401)
        /\ Move(r, "done")
        /\ UNCHANGED authVars
     \/ /\ Hosted /\ profile[r].token # None
        /\ Verify(r, profile[r].token)
        /\ Move(r, "verifying")
        /\ UNCHANGED <<answer, admissionVars>>
  /\ UNCHANGED <<config, server, profile, storeVars>>

Verifying(r) ==
  /\ VerifyStep(r)
  /\ UNCHANGED <<requestVars, storeVars, admissionVars>>

\* Mutant of Verdict: a rejection leaves without its permit being released.
VerdictKeepingPermit(r) ==
  /\ pc[r] = "verifying"
  /\ \/ /\ vpc[r] = "accepted" /\ profile[r].token.scoped
        /\ Move(r, "tool")
        /\ UNCHANGED <<answer, admissionVars>>
     \/ /\ vpc[r] = "accepted" /\ ~ profile[r].token.scoped
        /\ Respond(r, 403)
        /\ Move(r, "done")
     \/ /\ vpc[r] = "rejected"
        /\ Status(r, 401)
        /\ Move(r, "done")
        /\ UNCHANGED admissionVars
  /\ UNCHANGED <<config, server, profile, storeVars, authVars>>

\* None from verify_token is a 401, a token without the required scopes a 403.
Verdict(r) ==
  /\ pc[r] = "verifying"
  /\ \/ /\ vpc[r] = "accepted" /\ profile[r].token.scoped
        /\ Move(r, "tool")
        /\ UNCHANGED <<answer, admissionVars>>
     \/ /\ vpc[r] = "accepted" /\ ~ profile[r].token.scoped
        /\ Respond(r, 403)
        /\ Move(r, "done")
     \/ /\ vpc[r] = "rejected"
        /\ Respond(r, 401)
        /\ Move(r, "done")
  /\ UNCHANGED <<config, server, profile, storeVars, authVars>>

\* A streamed response starts while the tool is at work.
StartStream(r) ==
  /\ pc[r] \in {"tool", "storing", "stored"}
  /\ r \in held
  /\ Respond(r, 200)
  /\ UNCHANGED <<config, server, profile, pc, storeVars, authVars>>

\* resolve_principal
Owner(r) ==
  IF vpc[r] = "accepted" THEN PrincipalOf(presented[r]) ELSE IF Hosted THEN None ELSE Local

\* The tool is done: the rest of the response goes out, or all of it.
Finish(r) ==
  /\ IF r \in held THEN Respond(r, 200) ELSE UNCHANGED <<answer, admissionVars>>
  /\ Move(r, "done")
  /\ UNCHANGED <<config, server, profile, authVars>>

\* A tool that stores nothing, or whose compilation is refused (ToolError), or
\* that has no principal to own its run: the response is a 200 all the same.
ToolEnds(r) ==
  /\ pc[r] = "tool"
  /\ Finish(r)
  /\ UNCHANGED storeVars

\* parse_context_snapshot: no payload is the empty snapshot; one that is not an
\* object, exceeds a ceiling or is not a governed snapshot is refused, and never
\* taken for none.
ParseContextSnapshot(payload) ==
  CASE payload = "absent" -> None
    [] payload \in {"not an object", "too many items", "too many bytes", "untyped"} -> "refused"
    [] OTHER -> "governed"

\* compile_runtime stores its result; the run resource fetches one, for
\* whichever id the client presents.
ToolCallsStore(r) ==
  /\ pc[r] = "tool"
  /\ Owner(r) # None
  /\ \/ /\ profile[r].route = "compile"
        /\ ParseContextSnapshot(profile[r].context) # "refused"
        /\ Store!Ask(r, "create", Owner(r), r)
     \/ profile[r].route = "read" /\ \E x \in issued : Store!Ask(r, "get", Owner(r), x)
  /\ Move(r, "storing")
  /\ UNCHANGED <<config, server, profile, answer, admissionVars, authVars>>

StoreAnswers(r) ==
  /\ pc[r] = "storing"
  /\ \E c \in asked :
       c.thread = r /\ (Store!Create(c) \/ Store!Serve(c) \/ Store!Deny(c))
  /\ Move(r, "stored")
  /\ UNCHANGED <<config, server, profile, answer, admissionVars, authVars>>

StoredEnds(r) ==
  /\ pc[r] = "stored"
  /\ Finish(r)
  /\ UNCHANGED storeVars

\* What the event loop and the worker threads do for a request.
Work(r) ==
  \/ Admit(r) \/ Resume(r) \/ Health(r) \/ Authenticate(r) \/ Verifying(r) \/ Verdict(r)
  \/ ToolEnds(r) \/ ToolCallsStore(r) \/ StoreAnswers(r) \/ StoredEnds(r)

Next ==
  \/ Start
  \/ \E r \in Requests :
       \/ Arrive(r) \/ RequestTimeout(r) \/ AcquireTimeout(r) \/ StartStream(r) \/ Work(r)

Spec == Init /\ [][Next]_vars

\* The event loop and the worker threads keep running: a fetch has a timeout
\* of its own, and a compilation ends.  No timer has to fire.
FairSpec == Spec /\ \A r \in Requests : WF_vars(Work(r))

-----------------------------------------------------------------------------
(* Properties. *)

\* A request that was refused leaves nothing behind, then or later: a status
\* that says "not served" is never the answer to a call that stores a run.  A
\* 504 makes no such promise.
RefusedLeavesNoRun ==
  \A r \in Requests : answer[r] \in {401, 403, 413, 503} => r \notin issued

\* Every run is owned by whoever the request that made it proved to be, even
\* when the answer was a 504 and the tool went on.  The local principal owns
\* runs of an unprotected server only, and no server is unprotected whose
\* deployment requires protection.
RunsAreAttributed ==
  \A x \in DOMAIN runs :
    IF config.required \/ config.oauth # "none"
    THEN /\ profile[x].token # None /\ Valid(profile[x].token) /\ profile[x].token.scoped
         /\ runs[x].principal = PrincipalOf(profile[x].token)
    ELSE runs[x].principal = Local

\* A request that was let past the first checks is settled: the client has an
\* answer, even if no timer ever fires, and the permit is back, even if one
\* did.  No permit, verification or store call is waited for in vain, and
\* timeouts, refusals and failures do not wear the server out.
EveryRequestSettles ==
  \A r \in Requests :
    pc[r] = "limit" ~> pc[r] = "done" /\ answer[r] # Waiting /\ r \notin held
=============================================================================

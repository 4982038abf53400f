------------------------------ MODULE MCIngress ------------------------------
(* The server for TLC: a few kinds of request, deployment and issuer. *)
EXTENDS Ingress

CONSTANTS r1, r2, r3, r4

Token(genuine, client, subject) ==
  [genuine |-> genuine, scoped |-> TRUE, client |-> client, subject |-> subject]

Ann == Token(TRUE, "app", "ann")
Bob == Token(TRUE, None, "bob")
Nobody == Token(TRUE, None, None)
Forged == Token(FALSE, "app", "ann")
Unscoped == [Bob EXCEPT !.scoped = FALSE]

MCLocal == [client |-> "local-stdio", subject |-> None]

Req(route, token) ==
  [origin |-> "allowed", body |-> "fits", route |-> route, token |-> token, context |-> "absent"]

Health1 == Req("health", None)

Mix(p1, p2, p3, p4) == (r1 :> p1) @@ (r2 :> p2) @@ (r3 :> p3) @@ (r4 :> p4)

Deployment(oauth, required, pack) ==
  [transport |-> "http", oauth |-> oauth, required |-> required, pack |-> pack]

Protected == Deployment("full", TRUE, TRUE)
Unprotected == Deployment("none", FALSE, TRUE)

Issuer(secure, jwks, oidc, oauth) ==
  [secure |-> secure, jwks |-> jwks, oidc |-> oidc, oauth |-> oauth]

Discovered == Issuer(TRUE, None, "nouri", "https")
Configured == Issuer(TRUE, "https", "nouri", "nouri")

World(c, i, mix) == [config |-> c, issuer |-> i, traffic |-> mix]

MCWorlds ==
  {\* two verifications race for the client, with a request behind them
   World(Protected, Discovered, Mix(Req("compile", Ann), Req("compile", Bob), Health1, None)),
   \* tokens that fail, and a run that another request reads
   World(Protected, Configured,
         Mix(Req("compile", Bob), Req("read", Ann), Req("compile", Forged), None)),
   World(Protected, Configured, Mix(Req("compile", Nobody), Req("compile", Unscoped), Req("compile", None), None)),
   \* issuers that cannot be used
   World(Protected, Issuer(TRUE, None, "foreign", "https"),
         Mix(Req("compile", Ann), Req("compile", Bob), None, None)),
   World(Protected, Issuer(FALSE, None, "https", "https"), Mix(Req("compile", Ann), None, None, None)),
   World(Protected, Issuer(TRUE, None, "http", "https"), Mix(Req("compile", Ann), None, None, None)),
   \* no authentication
   World(Unprotected, Configured,
         Mix(Req("compile", None), Req("read", None),
             [Req("compile", Ann) EXCEPT !.context = "too many items"], None)),
   \* four requests at the limit
   World(Unprotected, Configured, Mix(Health1, Health1, Health1, Health1)),
   World(Unprotected, Configured,
         Mix([Health1 EXCEPT !.origin = "foreign"], [Health1 EXCEPT !.body = "large"], None, None)),
   \* deployments that must not start
   World([Unprotected EXCEPT !.transport = "stdio"], Configured, Mix(Health1, None, None, None)),
   World(Deployment("none", TRUE, TRUE), Configured, Mix(Req("compile", None), None, None, None)),
   World(Deployment("partial", FALSE, TRUE), Configured, Mix(Req("compile", None), None, None, None)),
   World(Deployment("none", FALSE, FALSE), Configured, Mix(Req("compile", None), None, None, None))}
=============================================================================

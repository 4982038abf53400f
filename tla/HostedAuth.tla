------------------------------ MODULE HostedAuth ------------------------------
(***************************************************************************)
(* Verification of bearer tokens: mcp/auth.py, class JwtTokenVerifier and  *)
(* discover_jwks_uri.                                                      *)
(*                                                                         *)
(* verify_token runs _verify_sync on a worker thread, so several           *)
(* verifications share _jwks_client and _jwks_uri, without a lock: each    *)
(* read and each assignment of them is a step of its own.  The client of   *)
(* the issuer's keys is made by the first verifications that find none;    *)
(* its URI comes from the configuration or from one of two discovery       *)
(* documents, either of which may be out of reach at any time.             *)
(*                                                                         *)
(* A token is what jwt.decode and the claims tell of it: whether           *)
(* signature, iss, aud, exp and nbf hold, whether it has the scopes the    *)
(* deployment asks for, and the client and the subject it names.  A fetch  *)
(* over the network may fail at any moment.                                *)
(***************************************************************************)
EXTENDS Naturals

CONSTANTS
  Verifiers,   \* the threads that verify, one per request
  None         \* no client, no subject, no uri, no token

\* A discovery document: the uri it publishes, or why it yields none.
Uris == {"https", "http"}
Documents == Uris \cup {"nouri", "foreign"}

VARIABLES
  issuer,        \* HostedAuthConfig and what the issuer publishes:
                 \* [secure : BOOLEAN, jwks : uri or None, oidc, oauth : documents]
  jwksUri,       \* _jwks_uri
  jwksClient,    \* _jwks_client: the uri it was made with
  vpc,           \* where each verification is
  presented,     \* the token each verifies:
                 \* [genuine, scoped : BOOLEAN, client, subject : names or None]
  failed         \* whether a fetch of this verification has failed

authVars == <<issuer, jwksUri, jwksClient, vpc, presented, failed>>

VpcValues == {"off", "client", "uri", "oidc", "oauth", "secure", "build", "key",
              "accepted", "rejected"}

AuthInit(i) ==
  /\ issuer = i
  /\ jwksUri = i.jwks
  /\ jwksClient = None
  /\ vpc = [t \in Verifiers |-> "off"]
  /\ presented = [t \in Verifiers |-> None]
  /\ failed = [t \in Verifiers |-> FALSE]

-----------------------------------------------------------------------------
(* Tokens. *)

\* client_id or azp, else the subject; the principal also has the subject.
PrincipalOf(tok) ==
  [client |-> IF tok.client # None THEN tok.client ELSE tok.subject, subject |-> tok.subject]

\* jwt.decode accepts it, and it can be attributed to somebody.
Valid(tok) == tok.genuine /\ (tok.client # None \/ tok.subject # None)

-----------------------------------------------------------------------------
(* One verification. *)

Goto(t, place) == vpc' = [vpc EXCEPT ![t] = place]

\* verify_token: the work moves to a worker thread.
Verify(t, tok) ==
  /\ vpc[t] = "off"
  /\ Goto(t, "client")
  /\ presented' = [presented EXCEPT ![t] = tok]
  /\ UNCHANGED <<issuer, jwksUri, jwksClient, failed>>

\* _client(): if self._jwks_client is None
ReadClient(t) ==
  /\ vpc[t] = "client"
  /\ Goto(t, IF jwksClient = None THEN "uri" ELSE "key")
  /\ UNCHANGED <<issuer, jwksUri, jwksClient, presented, failed>>

\* _client(): if self._jwks_uri is None
ReadUri(t) ==
  /\ vpc[t] = "uri"
  /\ Goto(t, IF jwksUri = None THEN "oidc" ELSE "secure")
  /\ UNCHANGED <<issuer, jwksUri, jwksClient, presented, failed>>

\* Mutant of Fetch: the address of a document out of reach is kept as the uri.
FetchKeepingMiss(t, document, otherwise) ==
  \/ /\ ~ issuer.secure \/ document = "foreign"
     /\ Goto(t, "rejected")
     /\ UNCHANGED <<jwksUri, failed>>
  \/ /\ issuer.secure
     /\ Goto(t, otherwise)
     /\ failed' = [failed EXCEPT ![t] = TRUE]
     /\ jwksUri' = "http"
  \/ /\ issuer.secure /\ document = "nouri"
     /\ Goto(t, otherwise)
     /\ UNCHANGED <<jwksUri, failed>>
  \/ /\ issuer.secure /\ document \in Uris
     /\ jwksUri' = document
     /\ Goto(t, "secure")
     /\ UNCHANGED failed

\* discover_jwks_uri, one document; where it yields no uri, the next place is tried.
Fetch(t, document, otherwise) ==
  \/ /\ ~ issuer.secure \/ document = "foreign"      \* a configuration error ends it
     /\ Goto(t, "rejected")
     /\ UNCHANGED <<jwksUri, failed>>
  \/ /\ issuer.secure                                \* out of reach
     /\ Goto(t, otherwise)
     /\ failed' = [failed EXCEPT ![t] = TRUE]
     /\ UNCHANGED jwksUri
  \/ /\ issuer.secure /\ document = "nouri"
     /\ Goto(t, otherwise)
     /\ UNCHANGED <<jwksUri, failed>>
  \/ /\ issuer.secure /\ document \in Uris
     /\ jwksUri' = document
     /\ Goto(t, "secure")
     /\ UNCHANGED failed

FetchOidc(t) ==
  /\ vpc[t] = "oidc"
  /\ Fetch(t, issuer.oidc, "oauth")
  /\ UNCHANGED <<issuer, jwksClient, presented>>

FetchOauth(t) ==
  /\ vpc[t] = "oauth"
  /\ Fetch(t, issuer.oauth, "rejected")
  /\ UNCHANGED <<issuer, jwksClient, presented>>

\* require_secure_transport(self._jwks_uri)
CheckTransport(t) ==
  /\ vpc[t] = "secure"
  /\ Goto(t, IF jwksUri = "https" THEN "build" ELSE "rejected")
  /\ UNCHANGED <<issuer, jwksUri, jwksClient, presented, failed>>

\* PyJWKClient(self._jwks_uri): the attribute is read again.
BuildClient(t) ==
  /\ vpc[t] = "build"
  /\ jwksClient' = jwksUri
  /\ Goto(t, "key")
  /\ UNCHANGED <<issuer, jwksUri, presented, failed>>

\* get_signing_key_from_jwt, which may have to fetch the keys, then jwt.decode.
CheckToken(t) ==
  /\ vpc[t] = "key"
  /\ \/ /\ Goto(t, IF Valid(presented[t]) THEN "accepted" ELSE "rejected")
        /\ UNCHANGED failed
     \/ /\ Goto(t, "rejected")
        /\ failed' = [failed EXCEPT ![t] = TRUE]
  /\ UNCHANGED <<issuer, jwksUri, jwksClient, presented>>

VerifyStep(t) ==
  \/ ReadClient(t) \/ ReadUri(t) \/ FetchOidc(t) \/ FetchOauth(t)
  \/ CheckTransport(t) \/ BuildClient(t) \/ CheckToken(t)

-----------------------------------------------------------------------------
(* Properties. *)

\* The issuer offers its keys over HTTPS only, in at least one place.
Sound(i) ==
  IF i.jwks # None THEN i.jwks = "https"
  ELSE i.secure /\ {i.oidc, i.oauth} \subseteq {"https", "nouri"} /\ "https" \in {i.oidc, i.oauth}

\* A failure is never remembered: the verifications that ran before, and the
\* ones that run beside it, cannot make the verifier reject a valid token of a
\* sound issuer.  Such a token is rejected only when a fetch of its very own
\* verification has failed.
RejectedForCause ==
  \A t \in Verifiers :
    vpc[t] = "rejected" /\ Sound(issuer) /\ Valid(presented[t]) => failed[t]
=============================================================================

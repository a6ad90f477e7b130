------------------------------- MODULE Verifier -------------------------------
(***************************************************************************)
(* Bearer validation in front of the API (internal/auth/oidc.go) and the   *)
(* routes behind it (routes in cmd/server/main.go).                        *)
(*                                                                         *)
(* The provider is discovered by the first request that needs it, under a  *)
(* mutex that is held while the identity provider is asked; a discovery    *)
(* that fails is tried again by the next request.  Signatures, expiry and  *)
(* key sets belong to the OIDC library: a token is good or not.            *)
(***************************************************************************)
CONSTANTS
    Procs,       \* requests in flight
    Allowed,     \* the client ids of ALLOWED_CLIENTS
    Credentials, \* what requests may carry
    NoBearer,    \* the credential of a request without a bearer
    Nil          \* an absent claim; nobody

Routes == {"add", "config"}

VARIABLES
    mode,  \* how the gateway is deployed; it does not change
    idp,   \* external: the identity provider is "up" or "down"
    ready, \* v.ready
    mu,    \* who holds v.mu, or Nil
    req    \* where each request is

verifierVars == <<mode, idp, ready, mu, req>>

NoRequest == [pc |-> "idle", cred |-> NoBearer, route |-> "add"]

VerifierTypeOK ==
    /\ mode \in {"open", "issuer", "restricted"}
    /\ idp \in {"up", "down"}
    /\ ready \in BOOLEAN
    /\ mu \in Procs \cup {Nil}
    /\ req \in [Procs -> [pc : {"idle", "locking", "ensuring", "verifying", "handling"},
                          cred : Credentials \cup {NoBearer}, route : Routes]]

\* "open": OIDC_ISSUER is unset, whatever ALLOWED_CLIENTS says; "restricted": both
\* are set.
VerifierInit ==
    /\ mode \in {"open", "issuer", "restricted"}
    /\ idp \in {"up", "down"}
    /\ ready = FALSE
    /\ mu = Nil
    /\ req = [p \in Procs |-> NoRequest]

Enabled == mode # "open"
Restricted == mode = "restricted"

\* Mutant: the configuration routes are always there.
RoutedAlways(route) == TRUE

\* The configuration routes exist only when callers are restricted; else 404.
Routed(route) == route = "config" => Restricted

Goto(p, pc) == req' = [req EXCEPT ![p].pc = pc]
Answered(p) == req' = [req EXCEPT ![p] = NoRequest]

-----------------------------------------------------------------------------

\* A request that passes the router and is not turned away for want of a bearer
\* (401).  Without an issuer the middleware passes everything through and reads no
\* bearer.
Arrive(p, cred, route) ==
    /\ req[p] = NoRequest
    /\ Routed(route)
    /\ Enabled => cred # NoBearer
    /\ req' = [req EXCEPT ![p] = [pc |-> IF Enabled THEN "locking" ELSE "handling",
                                  cred |-> IF Enabled THEN cred ELSE NoBearer,
                                  route |-> route]]
    /\ UNCHANGED <<mode, idp, ready, mu>>

\* ensure finds the provider known.
EnsureReady(p) ==
    /\ req[p].pc = "locking"
    /\ mu = Nil
    /\ ready
    /\ Goto(p, "verifying")
    /\ UNCHANGED <<mode, idp, ready, mu>>

\* ensure takes the mutex and asks the identity provider.
EnsureLock(p) ==
    /\ req[p].pc = "locking"
    /\ mu = Nil
    /\ ~ready
    /\ mu' = p
    /\ Goto(p, "ensuring")
    /\ UNCHANGED <<mode, idp, ready>>

Discover(p) ==
    /\ req[p].pc = "ensuring"
    /\ idp = "up"
    /\ ready' = TRUE
    /\ mu' = Nil
    /\ Goto(p, "verifying")
    /\ UNCHANGED <<mode, idp>>

\* Mutant: the mutex is not released on the error path.
DiscoverFailLocked(p) ==
    /\ req[p].pc = "ensuring"
    /\ Answered(p)
    /\ UNCHANGED <<mode, idp, ready, mu>>

\* Discovery fails, or the caller hangs up while it lasts: 503.
DiscoverFail(p) ==
    /\ req[p].pc = "ensuring"
    /\ mu' = Nil
    /\ Answered(p)
    /\ UNCHANGED <<mode, idp, ready>>

\* Mutant: a token that names no client is let through.
AllowsUnnamed(cred) == cred.azp = Nil \/ cred.azp \in Allowed \/ cred.clientID \in Allowed

\* Access tokens name their client in azp, some in client_id.
Allows(cred) ==
    \/ cred.azp # Nil /\ cred.azp \in Allowed
    \/ cred.clientID # Nil /\ cred.clientID \in Allowed

Verify(p) ==
    /\ req[p].pc = "verifying"
    /\ req[p].cred.good
    /\ Restricted => Allows(req[p].cred)
    /\ Goto(p, "handling")
    /\ UNCHANGED <<mode, idp, ready, mu>>

\* A bad token, or a good one whose keys cannot be fetched (401), or a client that
\* is not allowed (403).
Refuse(p) ==
    /\ req[p].pc = "verifying"
    /\ req[p].cred.good /\ idp = "up" => Restricted /\ ~Allows(req[p].cred)
    /\ Answered(p)
    /\ UNCHANGED <<mode, idp, ready, mu>>

\* The identity provider comes and goes.
IdpChange ==
    /\ idp' \in {"up", "down"} \ {idp}
    /\ UNCHANGED <<mode, ready, mu, req>>

VerifierStep(p) ==
    \/ \E cred \in Credentials \cup {NoBearer}, route \in Routes : Arrive(p, cred, route)
    \/ EnsureReady(p) \/ EnsureLock(p) \/ Discover(p) \/ DiscoverFail(p)
    \/ Verify(p) \/ Refuse(p)

-----------------------------------------------------------------------------

\* May this request's handler run?  The table of README.md:181.
Authorised(r) ==
    CASE mode = "open"       -> r.route # "config"
      [] mode = "issuer"     -> r.cred # NoBearer /\ r.cred.good /\ r.route # "config"
      [] mode = "restricted" -> /\ r.cred # NoBearer /\ r.cred.good
                                /\ {r.cred.azp, r.cred.clientID} \cap (Allowed \ {Nil}) # {}

=============================================================================

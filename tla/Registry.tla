------------------------------- MODULE Registry -------------------------------
(***************************************************************************)
(* The client registry of the gateway (internal/adapters/registry.go).     *)
(*                                                                         *)
(* The registry maps a client id to the client that is driven under it.    *)
(* Environment clients are registered at boot; API clients are replaced as *)
(* a set by Apply.  Every method runs under the registry's lock, so each   *)
(* is one atomic operator here; the modules that extend this one turn them *)
(* into actions.                                                           *)
(*                                                                         *)
(* A spec is the prepared, hashed form of a client's settings: two specs   *)
(* are equal exactly when their hashes are.                                *)
(***************************************************************************)
EXTENDS Integers, FiniteSets

CONSTANTS
    Ids,       \* well-formed client ids
    EnvIds,    \* the ids configured in the environment
    Specs,     \* prepared client settings, identified by their hash
    EnvSpec,   \* the settings of each environment client
    Revisions, \* the revisions the owner pushes
    MaxPush,   \* bound on the number of entries of one push
    Nil        \* no client, no spec, a malformed id

Entry == [spec : Specs, source : {"env", "api"}, draining : BOOLEAN]

\* One entry of a push, its id trimmed.  An id of Nil does not match the client
\* id pattern, a spec of Nil is one that PrepareSpec refuses.
PushEntry == [id : Ids \cup {Nil}, spec : Specs \cup {Nil}]

Pushes == UNION {[1 .. n -> PushEntry] : n \in 0 .. MaxPush}

ASSUME RegistryAssumption ==
    /\ EnvIds \subseteq Ids
    /\ EnvSpec \in [EnvIds -> Specs]
    /\ Revisions \subseteq Nat
    /\ MaxPush \in Nat
    /\ Nil \notin Ids \cup Specs \cup Entry

VARIABLES
    clients,  \* the client registered under each id, or Nil
    leases,   \* how many adds and adoptions hold each id
    revision  \* the revision of the last push that applied without errors

registryVars == <<clients, leases, revision>>

RegistryTypeOK ==
    /\ clients \in [Ids -> Entry \cup {Nil}]
    /\ leases \in [Ids -> Nat]
    /\ revision \in Revisions \cup {0}

-----------------------------------------------------------------------------
(* Registration at boot. *)

EnvEntry(id) == [spec |-> EnvSpec[id], source |-> "env", draining |-> FALSE]

ApiEntry(s) == [spec |-> s, source |-> "api", draining |-> FALSE]

BootClients == [id \in Ids |-> IF id \in EnvIds THEN EnvEntry(id) ELSE Nil]

RegistryInit ==
    /\ clients = BootClients
    /\ leases = [id \in Ids |-> 0]
    /\ revision = 0

-----------------------------------------------------------------------------
(* Lookups and leases. *)

\* Get and Lookup find draining clients too.
Registered(id) == clients[id] # Nil

IsSource(id, source) == Registered(id) /\ clients[id].source = source

\* Mutant: a draining client still takes adds.
LeasableDraining(id) == Registered(id)

\* Lease refuses an unknown client and a draining one.
Leasable(id) == Registered(id) /\ ~clients[id].draining

LeaseCount(id) == leases[id] + 1

Lease(id) ==
    /\ Leasable(id)
    /\ leases' = [leases EXCEPT ![id] = LeaseCount(id)]
    /\ UNCHANGED <<clients, revision>>

\* The count a release leaves; an id whose count reaches 0 leaves the map.
ReleaseCount(id) == IF leases[id] - 1 <= 0 THEN 0 ELSE leases[id] - 1

\* The release func of a lease.  sync.Once makes a second call a no-op, so a
\* holder takes this step once.
Release(id) ==
    /\ leases' = [leases EXCEPT ![id] = ReleaseCount(id)]
    /\ UNCHANGED <<clients, revision>>

-----------------------------------------------------------------------------
(* Apply: replace every API client with the pushed set. *)

Named(push, id) == {i \in DOMAIN push : push[i].id = id}

\* Mutant: a push may take over an environment client's id.
RejectedIgnoringEnv(push, id) ==
    /\ Named(push, id) # {}
    /\ \/ id = Nil
       \/ Cardinality(Named(push, id)) > 1
       \/ \E i \in Named(push, id) : push[i].spec = Nil

\* Mutant: settings that PrepareSpec refuses are taken as they are.
RejectedIgnoringSpec(push, id) ==
    /\ Named(push, id) # {}
    /\ \/ id = Nil
       \/ Cardinality(Named(push, id)) > 1
       \/ IsSource(id, "env")

\* The entries pushed under id are reported as an error.
Rejected(push, id) ==
    /\ Named(push, id) # {}
    /\ \/ id = Nil
       \/ Cardinality(Named(push, id)) > 1
       \/ IsSource(id, "env")
       \/ \E i \in Named(push, id) : push[i].spec = Nil

Accepted(push, id) == Named(push, id) # {} /\ ~Rejected(push, id)

PushedSpec(push, id) == push[CHOOSE i \in Named(push, id) : TRUE].spec

\* The pushed client already runs with these settings.  An environment client has
\* no hash.
Unchanged(push, id) == IsSource(id, "api") /\ clients[id].spec = PushedSpec(push, id)

\* The clients a push adds or rebuilds; their jobs are to be adopted.
Started(push) == {id \in Ids : Accepted(push, id) /\ ~Unchanged(push, id)}

\* Mutant: only tracked jobs keep a removed client.
InUseIgnoringLeases(id, busy) == id \in busy

\* Mutant: only leases keep a removed client.
InUseIgnoringJobs(id, busy) == leases[id] > 0

\* A client in use outlives its removal: an add or an adoption holds it, or a
\* job is tracked on it.
InUse(id, busy) == leases[id] > 0 \/ id \in busy

\* What a client that the push does not name becomes.
Removal(id, busy) ==
    IF InUse(id, busy) THEN [clients[id] EXCEPT !.draining = TRUE] ELSE Nil

AfterPush(push, id, busy) ==
    IF Accepted(push, id)
    THEN IF Unchanged(push, id) THEN [clients[id] EXCEPT !.draining = FALSE]
                                ELSE ApiEntry(PushedSpec(push, id))
    ELSE IF IsSource(id, "api") /\ Named(push, id) = {} THEN Removal(id, busy)
                                                         ELSE clients[id]

\* Mutant: the revision is recorded although an entry was refused.
RevisionAlways(rev, push) == rev

\* Mutant: the revision is recorded only when a client was started.
RevisionIfStarted(rev, push) ==
    IF Started(push) = {} \/ \E id \in Ids \cup {Nil} : Rejected(push, id) THEN revision ELSE rev

\* The revision in effect after the push.
RevisionAfter(rev, push) ==
    IF \E id \in Ids \cup {Nil} : Rejected(push, id) THEN revision ELSE rev

Apply(rev, push, busy) ==
    /\ clients' = [id \in Ids |-> AfterPush(push, id, busy)]
    /\ revision' = RevisionAfter(rev, push)
    /\ UNCHANGED leases

-----------------------------------------------------------------------------
(* Reap: drop the draining clients that nothing needs any more. *)

\* Mutant: Reap does not look at leases and jobs again.
ReapableIfDraining(id, busy) == Registered(id) /\ clients[id].draining

Reapable(id, busy) ==
    Registered(id) /\ clients[id].draining /\ ~InUse(id, busy)

Reap(busy) ==
    /\ clients' = [id \in Ids |-> IF Reapable(id, busy) THEN Nil ELSE clients[id]]
    /\ UNCHANGED <<leases, revision>>

=============================================================================

------------------------------ MODULE ConfigPush ------------------------------
(***************************************************************************)
(* The configuration protocol between the owning application and the       *)
(* gateway (cmd/server/config.go on top of the registry).                  *)
(*                                                                         *)
(* The owner keeps the client configuration and a revision that grows with *)
(* every edit.  It reads the revision the gateway reports and pushes its   *)
(* current set when the two differ.  The gateway keeps everything in       *)
(* memory, so a restart brings it back to revision 0.  Pushes may be lost; *)
(* when Overtaking is TRUE the owner does not wait for an earlier push to  *)
(* be settled (its HTTP call timed out) and an old push can arrive late.   *)
(*                                                                         *)
(* The owner is external: it is modelled from what the code and its        *)
(* comments expect of it.                                                  *)
(***************************************************************************)
EXTENDS Registry

CONSTANTS
    MaxEdits,    \* bound on the owner's revisions
    MaxRestarts, \* bound on gateway restarts
    Overtaking   \* may a push be sent while an earlier one is on its way

ASSUME ConfigPushAssumption ==
    /\ MaxEdits \in Nat
    /\ Revisions = 1 .. MaxEdits
    /\ MaxRestarts \in Nat
    /\ Overtaking \in BOOLEAN

VARIABLES
    current,  \* the owner's newest revision
    content,  \* the set of clients of each of the owner's revisions
    inflight, \* the revisions whose push is on its way
    restarts  \* gateway restarts so far

vars == <<clients, leases, revision, current, content, inflight, restarts>>
ownerVars == <<current, content>>

TypeOK ==
    /\ RegistryTypeOK
    /\ current \in 0 .. MaxEdits
    /\ content \in [1 .. current -> Pushes]
    /\ inflight \subseteq 1 .. current
    /\ restarts \in 0 .. MaxRestarts

Init ==
    /\ RegistryInit
    /\ current = 0
    /\ content = <<>>
    /\ inflight = {}
    /\ restarts = 0

\* The owner's user edits the configuration.
Edit(push) ==
    /\ current < MaxEdits
    /\ current' = current + 1
    /\ content' = [r \in 1 .. current + 1 |-> IF r > current THEN push ELSE content[r]]
    /\ UNCHANGED <<registryVars, inflight, restarts>>

\* The owner reads GET /api/v1/config/clients (handleConfigClients) and pushes
\* when the revision is not its own.
Sync ==
    /\ current > 0
    /\ revision # current
    /\ Overtaking \/ inflight = {}
    /\ inflight' = inflight \cup {current}
    /\ UNCHANGED <<registryVars, ownerVars, restarts>>

\* handleConfigApply runs for a push that arrives.  Which clients have jobs is
\* of no concern to the owner: any may.
Deliver(rev) ==
    /\ rev \in inflight
    /\ \E busy \in SUBSET Ids : Apply(rev, content[rev], busy)
    /\ inflight' = inflight \ {rev}
    /\ UNCHANGED <<ownerVars, restarts>>

\* The push never arrives.
Lose(rev) ==
    /\ rev \in inflight
    /\ inflight' = inflight \ {rev}
    /\ UNCHANGED <<registryVars, ownerVars, restarts>>

\* The poll loop drops drained clients.
Drained ==
    /\ \E busy \in SUBSET Ids : Reap(busy)
    /\ UNCHANGED <<ownerVars, inflight, restarts>>

\* The gateway restarts with its environment clients only.
Restart ==
    /\ restarts < MaxRestarts
    /\ restarts' = restarts + 1
    /\ clients' = BootClients
    /\ leases' = [id \in Ids |-> 0]
    /\ revision' = 0
    /\ UNCHANGED <<ownerVars, inflight>>

Next ==
    \/ \E push \in Pushes : Edit(push)
    \/ Sync
    \/ \E rev \in Revisions : Deliver(rev) \/ Lose(rev)
    \/ Drained
    \/ Restart

Spec == Init /\ [][Next]_vars

\* The owner keeps reading the revision, and a push that is sent again and again
\* arrives at last.
Fairness == WF_vars(Sync) /\ \A rev \in Revisions : SF_vars(Deliver(rev))

FairSpec == Spec /\ Fairness

-----------------------------------------------------------------------------

\* The gateway accepts downloads for exactly the pushed clients, with the pushed
\* settings, and for its environment clients.
InEffect(push) ==
    \A id \in Ids \ EnvIds :
        IF Named(push, id) = {}
        THEN ~Leasable(id)
        ELSE Leasable(id) /\ clients[id].spec = PushedSpec(push, id)

\* The owner can tell from GET alone whether its configuration is in effect:
\* when the gateway reports the owner's own revision, it is.  Pushes with errors,
\* lost pushes and responses, gateway restarts and draining clients all come in
\* between (registry.go:235, README.md:160).
RevisionTells == current > 0 /\ revision = current => InEffect(content[current])

Valid(push) == \A id \in Ids \cup {Nil} : ~Rejected(push, id)

\* Once the owner stops editing and its configuration has no error, the gateway
\* comes to hold it, and comes back to it after a restart.
Converges ==
    (current = MaxEdits /\ Valid(content[current]))
        ~> (current > 0 /\ revision = current /\ InEffect(content[current]))

=============================================================================

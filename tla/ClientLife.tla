------------------------------ MODULE ClientLife ------------------------------
(***************************************************************************)
(* What the registry and the gateway together promise of a download        *)
(* client, seen from outside.  A client is absent, open to new users, or   *)
(* draining: removed, but kept for the users it still has.  A user is an   *)
(* add or an adoption in flight, or a tracked job.  There are no leases    *)
(* here, no locks and no job table: who uses a client is simply known.     *)
(***************************************************************************)
CONSTANTS
    Ids,   \* client ids
    Calls, \* adds and adoptions
    Jobs   \* downloads

VARIABLES
    stage, \* the stage of life of each client
    users  \* the users of each client

lifeVars == <<stage, users>>

Stage == {"absent", "open", "draining"}

Unused == [id \in Ids |-> {}]

\* Only environment clients exist at first; which they are is left open.
Init ==
    /\ stage \in [Ids -> {"absent", "open"}]
    /\ users = Unused

-----------------------------------------------------------------------------

\* An add or an adoption is let in by an open client only.
Join(id, c) ==
    /\ stage[id] = "open"
    /\ users' = [users EXCEPT ![id] = @ \cup {c}]
    /\ UNCHANGED stage

\* One that was let in brings jobs, and nobody else does; the client may have begun
\* to drain since.
Bring(id, j) ==
    /\ users[id] \cap Calls # {}
    /\ users' = [users EXCEPT ![id] = @ \cup {j}]
    /\ UNCHANGED stage

Leave(id, u) ==
    /\ users' = [users EXCEPT ![id] = @ \ {u}]
    /\ UNCHANGED stage

\* What removing a client makes of it.
Closed(id) == IF users[id] = {} \/ stage[id] = "absent" THEN "absent" ELSE "draining"

\* A push opens some clients, closes some and leaves some as they are.
Push ==
    /\ UNCHANGED users
    /\ stage' \in [Ids -> Stage]
    /\ \A id \in Ids : stage'[id] \in {stage[id], "open", Closed(id)}

\* The draining clients without a user go, all at once.
Sweep ==
    /\ stage' = [id \in Ids |-> IF stage[id] = "draining" THEN Closed(id) ELSE stage[id]]
    /\ UNCHANGED users

\* The process starts again.
Restart == stage' \in [Ids -> {"absent", "open"}] /\ users' = Unused

Next ==
    \/ \E id \in Ids, c \in Calls : Join(id, c)
    \/ \E id \in Ids, j \in Jobs : Bring(id, j)
    \/ \E id \in Ids, u \in Calls \cup Jobs : Leave(id, u)
    \/ Push \/ Sweep \/ Restart

Spec == Init /\ [][Next]_lifeVars

=============================================================================

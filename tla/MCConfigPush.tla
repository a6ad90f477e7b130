----------------------------- MODULE MCConfigPush -----------------------------
(***************************************************************************)
(* Instances of ConfigPush for TLC.                                        *)
(***************************************************************************)
EXTENDS ConfigPush

CONSTANT s1

\* The environment client's settings.
EnvAtS1 == [id \in EnvIds |-> s1]

\* The revisions the owner may reach.
OwnerRevisions == 1 .. MaxEdits

=============================================================================

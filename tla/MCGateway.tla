------------------------------ MODULE MCGateway ------------------------------
(***************************************************************************)
(* Instances of Gateway for TLC.                                           *)
(***************************************************************************)
EXTENDS Gateway, TLC

CONSTANTS s1, e1

\* No environment client.
NoEnv == [id \in {} |-> s1]

\* Every spec points at the same download client instance: the settings differ
\* in a category, a save path or a credential.
OneEndpoint == [s \in Specs |-> e1]

\* Every environment client has the settings s1.
EnvAtS1 == [id \in EnvIds |-> s1]

\* Goroutine slots and job ids are interchangeable.
Symmetry == Permutations(Procs) \cup Permutations(JobIds)

=============================================================================

------------------------------- MODULE MCIntake -------------------------------
(***************************************************************************)
(* Instances of Intake.                                                    *)
(***************************************************************************)
EXTENDS Intake

CONSTANTS acquire, stranger

\* A token that does not verify, one of an allowed client under either claim, and
\* a good one of a client that is not allowed.
Tokens == {[good |-> FALSE, azp |-> acquire, clientID |-> Nil],
           [good |-> TRUE,  azp |-> acquire, clientID |-> Nil],
           [good |-> TRUE,  azp |-> Nil,     clientID |-> acquire],
           [good |-> TRUE,  azp |-> Nil,     clientID |-> stranger]}

OnlyAcquire == {acquire}

=============================================================================

------------------------------- MODULE AddBudget -------------------------------
(***************************************************************************)
(* The in-flight budget of large adds (admitAdd, decodeJSON and the start  *)
(* and end of handleAdd in cmd/server/main.go).  An add is admitted by the *)
(* length its request declares, before a byte of its body is read; the     *)
(* body is then read up to a cap and stays in memory until the add is done.*)
(***************************************************************************)
EXTENDS Integers, FiniteSets, Functions

CONSTANTS
    SmallAddBody, \* smallAddBody of main.go
    MaxAddBody,   \* maxAddBody of main.go
    MaxLength,    \* bound on the length a request declares
    Procs         \* requests in flight

ASSUME AddBudgetAssumption ==
    /\ SmallAddBody \in Nat
    /\ MaxAddBody \in Nat
    /\ SmallAddBody < MaxAddBody
    /\ MaxLength \in Nat
    /\ IsFiniteSet(Procs)

AddBodyBudget == 2 * MaxAddBody

\* Content-Length as net/http reports it: -1 when it is unknown.
Unknown == -1
Lengths == {Unknown} \cup 0 .. MaxLength

VARIABLES
    bodyInFlight, \* declared bytes of the large adds in flight
    add           \* each add: what it may read, has reserved and holds

budgetVars == <<bodyInFlight, add>>

NoAdd == [pc |-> "idle", limit |-> 0, reserved |-> 0, held |-> 0]

BudgetTypeOK ==
    /\ bodyInFlight \in Nat
    /\ add \in [Procs -> [pc : {"idle", "reading", "adding"}, limit : 0 .. MaxAddBody,
                          reserved : 0 .. MaxAddBody, held : 0 .. MaxAddBody]]

BudgetInit ==
    /\ bodyInFlight = 0
    /\ add = [p \in Procs |-> NoAdd]

-----------------------------------------------------------------------------

IsSmall(n) == 0 <= n /\ n <= SmallAddBody

\* Mutant: an unknown length counts as nothing.
ReservationUnknownFree(n) ==
    CASE IsSmall(n) \/ n < 0 -> 0
      [] n > MaxAddBody -> MaxAddBody
      [] OTHER -> n

\* What an add of declared length n takes from the budget.
Reservation(n) ==
    CASE IsSmall(n) -> 0
      [] n < 0 \/ n > MaxAddBody -> MaxAddBody
      [] OTHER -> n

\* Mutant: the budget must not be used up.
AdmittedBelow(n) == IsSmall(n) \/ bodyInFlight + Reservation(n) < AddBodyBudget

\* A small add is always admitted, a large one when it fits.
Admitted(n) == IsSmall(n) \/ bodyInFlight + Reservation(n) <= AddBodyBudget

\* Mutant: a body of known length is not cut off.
ReadableUncapped(n) == IF n = Unknown THEN MaxAddBody ELSE n

\* The body goes on for as long as its declared length says, or for as long as
\* the sender likes, and is cut off at the cap.
ReadableUpTo(n) == IF n = Unknown \/ n > MaxAddBody THEN MaxAddBody ELSE n

AdmitAdd(p, n) ==
    /\ add[p] = NoAdd
    /\ Admitted(n)
    /\ bodyInFlight' = bodyInFlight + Reservation(n)
    /\ add' = [add EXCEPT ![p] = [pc |-> "reading", limit |-> ReadableUpTo(n),
                                  reserved |-> Reservation(n), held |-> 0]]

\* decodeJSON reads h bytes.
Read(p, h) ==
    /\ add[p].pc = "reading"
    /\ h <= add[p].limit
    /\ add' = [add EXCEPT ![p].pc = "adding", ![p].held = h]
    /\ UNCHANGED bodyInFlight

\* The deferred release.
Release(p) ==
    /\ bodyInFlight' = bodyInFlight - add[p].reserved
    /\ add' = [add EXCEPT ![p] = NoAdd]

\* Mutant: a request whose body never comes keeps its reservation.
HangUpLeaking(p) ==
    /\ add[p].pc = "reading"
    /\ add' = [add EXCEPT ![p] = NoAdd]
    /\ UNCHANGED bodyInFlight

\* The body cannot be read.
HangUp(p) ==
    /\ add[p].pc = "reading"
    /\ Release(p)

\* The body was too large, not JSON or not base64 (413, 400), or the rest of
\* handleAdd has run, whatever came of it.
Done(p) ==
    /\ add[p].pc = "adding"
    /\ Release(p)

-----------------------------------------------------------------------------

Reserved == [p \in Procs |-> add[p].reserved]
Held == [p \in Procs |-> add[p].held]

\* The adds with a body beyond SmallAddBody in memory.
Large == {p \in Procs : add[p].held > SmallAddBody}

\* However lengths are declared or withheld and requests interleave, the large
\* bodies in memory stay within the budget (main.go:63).
MemoryBounded == SumFunctionOnSet(Held, Large) <= AddBodyBudget

\* The counter is the sum of what the adds in flight reserved: no way out of
\* handleAdd leaks budget or gives it back twice (admitAdd, sync.Once).
BudgetExact == bodyInFlight = SumFunction(Reserved)

\* "two adds of the largest size fit" (main.go:64): an add is refused only when
\* at least two others hold a reservation.
TwoLargestFit ==
    Cardinality({p \in Procs : Reserved[p] > 0}) <= 1 => \A n \in Lengths : Admitted(n)

=============================================================================

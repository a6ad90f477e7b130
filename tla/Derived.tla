-------------------------------- MODULE Derived --------------------------------
(***************************************************************************)
(* The progress figures the gateway works out for itself (fillDerived,     *)
(* optInt32 in cmd/server/main.go): a transfer rate from two byte samples  *)
(* when the client reports none, and an ETA from the rate.                 *)
(***************************************************************************)
EXTENDS Integers

CONSTANTS
    EtaBits, \* width of the integer an event carries its ETA in (32)
    Nil      \* a null pointer, no sample

ASSUME DerivedAssumption == EtaBits \in Nat \ {0} /\ Nil \notin Int

\* Mutant: a byte count that went back counts as a rate.
RateUnguarded(v, prev, elapsed) ==
    IF v.speed <= 0 /\ prev # Nil /\ elapsed >= 1 THEN (v.done - prev) \div elapsed ELSE v.speed

\* v holds a JobView's figures: done, total, speed and eta, -1 when unknown.  A
\* rate the client reports is kept; otherwise the bytes since the previous
\* sample (prev, Nil when there is none) over the seconds since then.
Rate(v, prev, elapsed) ==
    IF v.speed <= 0 /\ prev # Nil /\ v.done > prev /\ elapsed >= 1
    THEN (v.done - prev) \div elapsed
    ELSE v.speed

Eta(v) ==
    IF v.eta < 0 /\ v.speed > 0 /\ v.total > v.done
    THEN (v.total - v.done) \div v.speed
    ELSE v.eta

FillDerived(v, prev, elapsed) ==
    LET rated == [v EXCEPT !.speed = Rate(v, prev, elapsed)]
    IN  [rated EXCEPT !.eta = Eta(rated)]

\* What is left of n in a signed integer of EtaBits bits.
Narrow(n) == ((n + 2^(EtaBits - 1)) % 2^EtaBits) - 2^(EtaBits - 1)

OptInt32(n) == IF n < 0 THEN Nil ELSE Narrow(n)

=============================================================================

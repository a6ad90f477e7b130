------------------------------ MODULE IntakeProofs ------------------------------
(***************************************************************************)
(* Proofs about Intake, for every number of requests, every cap and every  *)
(* set of credentials.                                                     *)
(***************************************************************************)
EXTENDS Intake, SumTheorems

-----------------------------------------------------------------------------
(* The large-add budget. *)

\* What makes the budget inductive: an add that may read a large body has
\* reserved at least as much, and the reservations fit.
BudgetInv ==
    /\ BudgetTypeOK
    /\ BudgetExact
    /\ bodyInFlight <= AddBodyBudget
    /\ \A p \in Procs :
        /\ add[p].held <= add[p].limit
        /\ add[p].limit > SmallAddBody => add[p].limit <= add[p].reserved

\* What an add of any declared length reserves and may read (admitAdd,
\* decodeJSON).
LEMMA ReservationType ==
    ASSUME NEW n \in Lengths
    PROVE  /\ Reservation(n) \in 0 .. MaxAddBody
           /\ ReadableUpTo(n) \in 0 .. MaxAddBody
           /\ ReadableUpTo(n) > SmallAddBody => ReadableUpTo(n) <= Reservation(n)
           /\ IsSmall(n) => Reservation(n) = 0
BY AddBudgetAssumption DEF Lengths, Unknown, Reservation, ReadableUpTo, IsSmall

\* Reservations are natural numbers, and their sum is over all requests.
LEMMA ReservedSum ==
    ASSUME BudgetTypeOK
    PROVE  /\ SumFunction(Reserved) = SumFunctionOnSet(Reserved, Procs)
           /\ \A p \in Procs : Reserved[p] \in Nat /\ Reserved[p] = add[p].reserved
           /\ SumFunctionOnSet(Reserved, Procs) \in Nat
<1>1. SumFunction(Reserved) = SumFunctionOnSet(Reserved, Procs)
  BY Zenon DEF SumFunction, Reserved
<1>2. \A p \in Procs : Reserved[p] \in Nat /\ Reserved[p] = add[p].reserved
  BY AddBudgetAssumption DEF BudgetTypeOK, Reserved
<1>3. IsFiniteSet(Procs)
  BY AddBudgetAssumption
<1> QED
  BY <1>1, <1>2, <1>3, SumNat

\* When one request changes what it has reserved, the sum changes by as much.
LEMMA ReservedUpdate ==
    ASSUME BudgetTypeOK, BudgetTypeOK', NEW p \in Procs,
           \A q \in Procs \ {p} : add'[q] = add[q]
    PROVE  SumFunction(Reserved)' = SumFunction(Reserved) - add[p].reserved + add'[p].reserved
<1> DEFINE f == Reserved
           g == Reserved'
<1>1. /\ SumFunction(Reserved) = SumFunctionOnSet(f, Procs)
      /\ \A q \in Procs : f[q] \in Nat /\ f[q] = add[q].reserved
  BY ReservedSum
<1>2. /\ SumFunction(Reserved)' = SumFunctionOnSet(g, Procs)
      /\ \A q \in Procs : g[q] \in Nat /\ g[q] = add'[q].reserved
  <2>1. SumFunction(Reserved)' = SumFunctionOnSet(g, Procs)
    BY Zenon DEF SumFunction, Reserved
  <2>2. \A q \in Procs : g[q] \in Nat /\ g[q] = add'[q].reserved
    BY AddBudgetAssumption DEF BudgetTypeOK, Reserved
  <2> QED
    BY <2>1, <2>2
<1>3. \A q \in Procs \ {p} : g[q] = f[q]
  BY <1>1, <1>2
<1>4. IsFiniteSet(Procs)
  BY AddBudgetAssumption
<1> HIDE DEF f, g
<1>5. SumFunctionOnSet(g, Procs) = SumFunctionOnSet(f, Procs) - f[p] + g[p]
  BY <1>1, <1>2, <1>3, <1>4, SumUpdate
<1> QED
  BY <1>1, <1>2, <1>5

\* The budget at the start.
LEMMA BudgetStart ==
    ASSUME BudgetInit
    PROVE  BudgetInv
<1>1. BudgetTypeOK /\ \A p \in Procs : Reserved[p] = 0
  BY AddBudgetAssumption DEF BudgetInit, BudgetTypeOK, NoAdd, Reserved
<1>2. SumFunctionOnSet(Reserved, Procs) = 0
  BY <1>1, AddBudgetAssumption, SumZero
<1> QED
  BY <1>1, <1>2, ReservedSum, AddBudgetAssumption
  DEF BudgetInit, BudgetInv, BudgetExact, AddBodyBudget, NoAdd

\* An add is admitted within the budget (admitAdd).
LEMMA AdmitKeepsBudget ==
    ASSUME BudgetInv, NEW p \in Procs, NEW n \in Lengths, AdmitAdd(p, n)
    PROVE  BudgetInv'
<1> DEFINE r == Reservation(n)
<1>1. /\ r \in 0 .. MaxAddBody /\ ReadableUpTo(n) \in 0 .. MaxAddBody
      /\ ReadableUpTo(n) > SmallAddBody => ReadableUpTo(n) <= r
      /\ IsSmall(n) => r = 0
  BY ReservationType
<1>2. BudgetTypeOK'
  BY <1>1, AddBudgetAssumption DEF BudgetInv, BudgetTypeOK, AdmitAdd
<1>3. bodyInFlight' <= AddBodyBudget
  BY <1>1, AddBudgetAssumption DEF BudgetInv, BudgetTypeOK, AdmitAdd, Admitted, AddBodyBudget
<1>4. /\ add[p].reserved = 0 /\ add'[p].reserved = r
      /\ \A q \in Procs \ {p} : add'[q] = add[q]
  BY DEF BudgetInv, BudgetTypeOK, AdmitAdd, NoAdd
<1>5. BudgetExact'
  BY <1>1, <1>2, <1>4, ReservedUpdate DEF BudgetInv, BudgetTypeOK, BudgetExact, AdmitAdd
<1>6. \A q \in Procs :
        /\ add'[q].held <= add'[q].limit
        /\ add'[q].limit > SmallAddBody => add'[q].limit <= add'[q].reserved
  BY <1>1, AddBudgetAssumption DEF BudgetInv, BudgetTypeOK, AdmitAdd
<1> QED
  BY <1>2, <1>3, <1>5, <1>6 DEF BudgetInv, AddBodyBudget

\* Reading a body changes no reservation (decodeJSON).
LEMMA ReadKeepsBudget ==
    ASSUME BudgetInv, NEW p \in Procs, NEW h \in 0 .. MaxAddBody, Read(p, h)
    PROVE  BudgetInv'
<1>1. BudgetTypeOK'
  BY AddBudgetAssumption DEF BudgetInv, BudgetTypeOK, Read
<1>2. /\ add'[p].reserved = add[p].reserved
      /\ \A q \in Procs \ {p} : add'[q] = add[q]
  BY DEF BudgetInv, BudgetTypeOK, Read
<1>3. BudgetExact'
  BY <1>1, <1>2, ReservedUpdate DEF BudgetInv, BudgetTypeOK, BudgetExact, Read
<1>4. \A q \in Procs :
        /\ add'[q].held <= add'[q].limit
        /\ add'[q].limit > SmallAddBody => add'[q].limit <= add'[q].reserved
  BY AddBudgetAssumption DEF BudgetInv, BudgetTypeOK, Read
<1> QED
  BY <1>1, <1>3, <1>4 DEF BudgetInv, AddBodyBudget, Read

\* The deferred release gives back what was reserved and never goes below zero.
LEMMA ReleaseKeepsBudget ==
    ASSUME BudgetInv, NEW p \in Procs, Release(p)
    PROVE  BudgetInv'
<1> DEFINE Total == SumFunctionOnSet(Reserved, Procs)
<1>1. /\ Total = bodyInFlight
      /\ \A q \in Procs : Reserved[q] \in Nat /\ Reserved[q] = add[q].reserved
  BY ReservedSum DEF BudgetInv, BudgetExact
<1>2. add[p].reserved <= bodyInFlight
  <2>1. IsFiniteSet(Procs) /\ IsFiniteSet(Procs \ {p})
    BY AddBudgetAssumption, FS_Subset
  <2>2. Total = Reserved[p] + SumFunctionOnSet(Reserved, Procs \ {p})
    BY <1>1, <2>1, SumSplit
  <2>3. SumFunctionOnSet(Reserved, Procs \ {p}) \in Nat
    BY <1>1, <2>1, SumNat
  <2>4. Reserved[p] \in Nat /\ Reserved[p] = add[p].reserved
    BY <1>1
  <2> HIDE DEF Total
  <2> QED
    BY <1>1, <2>2, <2>3, <2>4
<1>3. BudgetTypeOK'
  BY <1>2, AddBudgetAssumption DEF BudgetInv, BudgetTypeOK, Release, NoAdd
<1>4. /\ add'[p].reserved = 0
      /\ \A q \in Procs \ {p} : add'[q] = add[q]
  BY DEF BudgetInv, BudgetTypeOK, Release, NoAdd
<1>5. BudgetExact'
  BY <1>3, <1>4, ReservedUpdate DEF BudgetInv, BudgetTypeOK, BudgetExact, Release
<1>6. bodyInFlight' <= AddBodyBudget
  BY AddBudgetAssumption DEF BudgetInv, BudgetTypeOK, Release, AddBodyBudget
<1>7. \A q \in Procs :
        /\ add'[q].held <= add'[q].limit
        /\ add'[q].limit > SmallAddBody => add'[q].limit <= add'[q].reserved
  BY AddBudgetAssumption DEF BudgetInv, BudgetTypeOK, Release, NoAdd
<1> QED
  BY <1>3, <1>5, <1>6, <1>7 DEF BudgetInv, AddBodyBudget

\* What the requests hold in large bodies is at most what they have reserved.
LEMMA BudgetBoundsMemory ==
    ASSUME BudgetInv
    PROVE  MemoryBounded
<1>1. /\ SumFunctionOnSet(Reserved, Procs) = bodyInFlight
      /\ \A q \in Procs : Reserved[q] \in Nat /\ Reserved[q] = add[q].reserved
  BY ReservedSum DEF BudgetInv, BudgetExact
<1>2. /\ IsFiniteSet(Procs) /\ IsFiniteSet(Large) /\ Large \in SUBSET Procs
  BY AddBudgetAssumption, FS_Subset DEF Large
<1>3. \A q \in Large : Held[q] \in Nat /\ Reserved[q] \in Nat /\ Held[q] <= Reserved[q]
  BY <1>1, AddBudgetAssumption DEF Held, Large, BudgetInv, BudgetTypeOK
<1>4. SumFunctionOnSet(Held, Large) <= SumFunctionOnSet(Reserved, Large)
  BY <1>2, <1>3, SumLeq
<1>5. SumFunctionOnSet(Reserved, Large) <= SumFunctionOnSet(Reserved, Procs)
  BY <1>1, <1>2, SumSubset
<1>6. /\ SumFunctionOnSet(Held, Large) \in Nat
      /\ SumFunctionOnSet(Reserved, Large) \in Nat
  BY <1>2, <1>3, SumNat
<1>7. bodyInFlight \in Nat /\ bodyInFlight <= AddBodyBudget /\ AddBodyBudget \in Nat
  BY AddBudgetAssumption DEF BudgetInv, BudgetTypeOK, AddBodyBudget
<1> QED
  BY <1>1, <1>4, <1>5, <1>6, <1>7 DEF MemoryBounded

\* With at most one reservation out there is room for another of the largest size.
LEMMA BudgetFitsTwo ==
    ASSUME BudgetInv
    PROVE  TwoLargestFit
<1> DEFINE H == {p \in Procs : Reserved[p] > 0}
<1>1. SUFFICES ASSUME Cardinality(H) <= 1, NEW n \in Lengths PROVE Admitted(n)
  BY DEF TwoLargestFit
<1>2. /\ SumFunctionOnSet(Reserved, Procs) = bodyInFlight
      /\ \A q \in Procs : Reserved[q] \in Nat /\ Reserved[q] = add[q].reserved
  BY ReservedSum DEF BudgetInv, BudgetExact
<1>3. IsFiniteSet(Procs) /\ IsFiniteSet(H)
  BY AddBudgetAssumption, FS_Subset
<1>4. bodyInFlight <= MaxAddBody
  <2>1. CASE Cardinality(H) = 0
    <3>1. \A q \in Procs : Reserved[q] = 0
      BY <1>2, <1>3, <2>1, FS_EmptySet
    <3> QED
      BY <1>2, <1>3, <3>1, SumZero, AddBudgetAssumption
  <2>2. CASE Cardinality(H) = 1
    <3>1. PICK e : H = {e}
      BY <1>3, <2>2, FS_Singleton
    <3>2. e \in Procs /\ \A q \in Procs \ {e} : Reserved[q] = 0
      BY <1>2, <3>1
    <3>3. SumFunctionOnSet(Reserved, Procs) = Reserved[e] + SumFunctionOnSet(Reserved, Procs \ {e})
      BY <1>2, <1>3, <3>2, SumSplit
    <3>4. SumFunctionOnSet(Reserved, Procs \ {e}) = 0
      BY <1>3, <3>2, SumZero, FS_Subset
    <3>5. Reserved[e] \in 0 .. MaxAddBody
      BY <1>2, <3>2 DEF BudgetInv, BudgetTypeOK
    <3> QED
      BY <1>2, <3>3, <3>4, <3>5, AddBudgetAssumption
  <2>3. Cardinality(H) \in Nat
    BY <1>3, FS_CardinalityType
  <2> QED
    BY <1>1, <2>1, <2>2, <2>3
<1>5. Reservation(n) \in 0 .. MaxAddBody
  BY ReservationType
<1> QED
  BY <1>4, <1>5, AddBudgetAssumption DEF Admitted, AddBodyBudget, BudgetInv, BudgetTypeOK

-----------------------------------------------------------------------------
(* The bearer check. *)

\* What makes HandlersAuthorised inductive: a request that still waits for the
\* verifier passed the router and carries a bearer that is to be checked.
AdmissionInv ==
    \A p \in Procs :
        req[p].pc \in {"locking", "ensuring", "verifying"} =>
            Enabled /\ req[p].cred # NoBearer /\ Routed(req[p].route)

\* The inductive invariant of Intake.
IntakeInv == VerifierTypeOK /\ BudgetInv /\ AdmissionInv /\ HandlersAuthorised

\* A request that passes the verifier may be handled (Middleware).
LEMMA VerifiedAuthorised ==
    ASSUME VerifierTypeOK, AdmissionInv, NEW p \in Procs, Verify(p)
    PROVE  Authorised(req[p])
<1>1. /\ Enabled /\ req[p].cred # NoBearer /\ Routed(req[p].route)
      /\ req[p].cred.good
      /\ Restricted => Allows(req[p].cred)
  BY DEF AdmissionInv, Verify
<1>2. CASE mode = "issuer"
  BY <1>1, <1>2 DEF Authorised, Routed, Restricted
<1>3. CASE mode = "restricted"
  BY <1>1, <1>3 DEF Authorised, Restricted, Allows
<1> QED
  BY <1>1, <1>2, <1>3 DEF VerifierTypeOK, Enabled

\* Whether a request may be handled depends on the deployment, its route and its
\* credential alone.
LEMMA StillAuthorised ==
    ASSUME NEW p, mode' = mode, req'[p].cred = req[p].cred, req'[p].route = req[p].route,
           Authorised(req[p])
    PROVE  Authorised(req[p])'
BY DEF Authorised

\* The requests that a step leaves alone stay authorised.
LEMMA OthersAuthorised ==
    ASSUME HandlersAuthorised, NEW Q \in SUBSET Procs, mode' = mode,
           \A q \in Q : req'[q] = req[q]
    PROVE  \A q \in Q : req'[q].pc = "handling" => Authorised(req[q])'
BY StillAuthorised DEF HandlersAuthorised

\* The steps of the verifier keep its types.
LEMMA VerifierTypes ==
    ASSUME VerifierTypeOK, NEW p \in Procs, VerifierStep(p)
    PROVE  VerifierTypeOK'
<1>1. CASE \E cred \in Credentials \cup {NoBearer}, route \in Routes : Arrive(p, cred, route)
  BY <1>1 DEF VerifierTypeOK, Arrive
<1>2. CASE EnsureReady(p) \/ EnsureLock(p) \/ Discover(p) \/ Verify(p)
  BY <1>2 DEF VerifierTypeOK, EnsureReady, EnsureLock, Discover, Verify, Goto
<1>3. CASE DiscoverFail(p) \/ Refuse(p)
  BY <1>3 DEF VerifierTypeOK, DiscoverFail, Refuse, Answered, NoRequest, Routes
<1> QED
  BY <1>1, <1>2, <1>3 DEF VerifierStep

\* The steps of the verifier let only such requests through as may be handled.
LEMMA VerifierAdmits ==
    ASSUME IntakeInv, NEW p \in Procs, VerifierStep(p), UNCHANGED budgetVars
    PROVE  AdmissionInv' /\ HandlersAuthorised'
<1> USE DEF IntakeInv, VerifierTypeOK, budgetVars
<1>1. ASSUME mode' = mode, add[p] = NoAdd,
             \A q \in Procs \ {p} : req'[q] = req[q],
             req'[p].pc = "handling" => Authorised(req[p])'
      PROVE  HandlersAuthorised'
  <2>1. \A q \in Procs \ {p} : req'[q].pc = "handling" => Authorised(req[q])'
    BY <1>1, OthersAuthorised
  <2> QED
    BY <1>1, <2>1 DEF HandlersAuthorised, Handling
<1>2. CASE \E cred \in Credentials \cup {NoBearer}, route \in Routes : Arrive(p, cred, route)
  <2>1. PICK cred \in Credentials \cup {NoBearer}, route \in Routes : Arrive(p, cred, route)
    BY <1>2
  <2>2. AdmissionInv'
    BY <2>1 DEF AdmissionInv, Arrive, Enabled, Restricted, Routed
  <2>3. req'[p].pc = "handling" => Authorised(req[p])'
    BY <2>1 DEF Arrive, Authorised, Enabled, Restricted, Routed
  <2>4. \A q \in Procs \ {p} : req'[q] = req[q]
    BY <2>1 DEF Arrive
  <2>5. mode' = mode /\ add[p] = NoAdd
    BY <2>1 DEF Arrive, NoRequest, HandlersAuthorised, Handling
  <2> QED
    BY <1>1, <2>2, <2>3, <2>4, <2>5
<1>3. CASE EnsureReady(p) \/ EnsureLock(p) \/ Discover(p)
  <2>1. AdmissionInv'
    BY <1>3 DEF AdmissionInv, EnsureReady, EnsureLock, Discover, Goto, Enabled, Restricted, Routed
  <2>2. /\ mode' = mode /\ add[p] = NoAdd /\ req'[p].pc # "handling"
        /\ \A q \in Procs \ {p} : req'[q] = req[q]
    BY <1>3 DEF HandlersAuthorised, Handling, EnsureReady, EnsureLock, Discover, Goto
  <2> QED
    BY <1>1, <2>1, <2>2
<1>4. CASE Verify(p)
  <2>1. AdmissionInv'
    BY <1>4 DEF AdmissionInv, Verify, Goto, Enabled, Restricted, Routed
  <2>2. /\ mode' = mode /\ add[p] = NoAdd
        /\ req'[p].cred = req[p].cred /\ req'[p].route = req[p].route
        /\ \A q \in Procs \ {p} : req'[q] = req[q]
    BY <1>4 DEF HandlersAuthorised, Handling, Verify, Goto
  <2>3. Authorised(req[p])'
    BY <1>4, <2>2, VerifiedAuthorised, StillAuthorised
  <2> QED
    BY <1>1, <2>1, <2>2, <2>3
<1>5. CASE DiscoverFail(p) \/ Refuse(p)
  <2>1. AdmissionInv'
    BY <1>5 DEF AdmissionInv, DiscoverFail, Refuse, Answered, NoRequest, Enabled, Restricted, Routed
  <2>2. /\ mode' = mode /\ add[p] = NoAdd /\ req'[p].pc # "handling"
        /\ \A q \in Procs \ {p} : req'[q] = req[q]
    BY <1>5 DEF HandlersAuthorised, Handling, DiscoverFail, Refuse, Answered, NoRequest
  <2> QED
    BY <1>1, <2>1, <2>2
<1> QED
  BY <1>2, <1>3, <1>4, <1>5 DEF VerifierStep

\* An answered request frees its slot and holds no add any more.
LEMMA AnsweredKeeps ==
    ASSUME IntakeInv, NEW p \in Procs, Finish(p),
           \/ add[p] = NoAdd /\ UNCHANGED add
           \/ add' = [add EXCEPT ![p] = NoAdd]
    PROVE  VerifierTypeOK' /\ AdmissionInv' /\ HandlersAuthorised'
<1>1. VerifierTypeOK'
  BY DEF IntakeInv, VerifierTypeOK, Finish, Answered, NoRequest, Routes
<1>2. AdmissionInv'
  BY DEF IntakeInv, VerifierTypeOK, AdmissionInv, Finish, Answered, NoRequest, Enabled,
         Restricted, Routed
<1>3. HandlersAuthorised'
  BY DEF IntakeInv, VerifierTypeOK, BudgetInv, BudgetTypeOK, HandlersAuthorised, Handling,
         Authorised, Finish, Answered, NoRequest
<1> QED
  BY <1>1, <1>2, <1>3

\* What the handlers do keeps the invariant.
LEMMA HandlerKeeps ==
    ASSUME IntakeInv, NEW p \in Procs, HandlerStep(p)
    PROVE  IntakeInv'
<1>1. ASSUME NEW n \in Lengths, StartAdd(p, n) PROVE IntakeInv'
  <2>1. BudgetInv'
    BY <1>1, AdmitKeepsBudget DEF IntakeInv, StartAdd
  <2>2. VerifierTypeOK' /\ AdmissionInv'
    BY <1>1 DEF IntakeInv, StartAdd, VerifierTypeOK, AdmissionInv, Enabled, Restricted, Routed
  <2>3. HandlersAuthorised'
    BY <1>1 DEF IntakeInv, BudgetInv, BudgetTypeOK, StartAdd, AdmitAdd, HandlersAuthorised,
                Handling, Authorised
  <2> QED
    BY <2>1, <2>2, <2>3 DEF IntakeInv
<1>2. ASSUME NEW n \in Lengths, TooManyAdds(p, n) PROVE IntakeInv'
  <2>1. BudgetInv'
    BY <1>2 DEF IntakeInv, TooManyAdds, budgetVars, BudgetInv, BudgetTypeOK, BudgetExact,
                Reserved, AddBodyBudget
  <2> QED
    BY <1>2, <2>1, AnsweredKeeps DEF IntakeInv, TooManyAdds, budgetVars
<1>3. ASSUME NEW h \in 0 .. MaxAddBody, ReadBody(p, h) PROVE IntakeInv'
  <2>1. BudgetInv'
    BY <1>3, ReadKeepsBudget DEF IntakeInv, ReadBody
  <2>2. VerifierTypeOK' /\ AdmissionInv'
    BY <1>3 DEF IntakeInv, ReadBody, VerifierTypeOK, AdmissionInv, Enabled, Restricted, Routed
  <2>3. HandlersAuthorised'
    <3>1. \A q \in Procs : req'[q].pc = "handling" => Authorised(req[q])'
      BY <1>3, OthersAuthorised DEF IntakeInv, ReadBody
    <3>2. add[p] # NoAdd /\ \A q \in Procs \ {p} : add'[q] = add[q]
      BY <1>3 DEF IntakeInv, BudgetInv, BudgetTypeOK, ReadBody, Read, NoAdd
    <3> QED
      BY <1>3, <3>1, <3>2 DEF IntakeInv, ReadBody, HandlersAuthorised, Handling
  <2> QED
    BY <2>1, <2>2, <2>3 DEF IntakeInv
<1>4. ASSUME EndAdd(p) PROVE IntakeInv'
  <2>1. Release(p)
    BY <1>4 DEF EndAdd, HangUp, Done
  <2>2. BudgetInv'
    BY <2>1, ReleaseKeepsBudget DEF IntakeInv
  <2> QED
    BY <1>4, <2>1, <2>2, AnsweredKeeps DEF IntakeInv, EndAdd, Release
<1>5. ASSUME HandleConfig(p) PROVE IntakeInv'
  <2>1. BudgetInv'
    BY <1>5 DEF IntakeInv, HandleConfig, budgetVars, BudgetInv, BudgetTypeOK, BudgetExact,
                Reserved, AddBodyBudget
  <2>2. add[p] = NoAdd
    BY <1>5 DEF IntakeInv, HandlersAuthorised, HandleConfig, Handling
  <2> QED
    BY <1>5, <2>1, <2>2, AnsweredKeeps DEF IntakeInv, HandleConfig, budgetVars
<1> QED
  BY <1>1, <1>2, <1>3, <1>4, <1>5 DEF HandlerStep

\* No step of any request, and nothing the identity provider does, breaks it.
LEMMA IntakeInductive ==
    ASSUME IntakeInv, [Next]_vars
    PROVE  IntakeInv'
<1> SUFFICES ASSUME IntakeInv, UNCHANGED budgetVars PROVE BudgetInv'
  <2>1. ASSUME NEW p \in Procs, VerifierStep(p), UNCHANGED budgetVars PROVE IntakeInv'
    BY <2>1, VerifierTypes, VerifierAdmits DEF IntakeInv
  <2>2. ASSUME NEW p \in Procs, HandlerStep(p) PROVE IntakeInv'
    BY <2>2, HandlerKeeps
  <2>3. ASSUME IdpChange, UNCHANGED budgetVars PROVE IntakeInv'
    BY <2>3 DEF IntakeInv, IdpChange, budgetVars, VerifierTypeOK, AdmissionInv,
                HandlersAuthorised, Handling, Authorised, Enabled, Restricted, Routed
  <2>4. ASSUME UNCHANGED vars PROVE IntakeInv'
    BY <2>4 DEF IntakeInv, vars, verifierVars, budgetVars, VerifierTypeOK, AdmissionInv,
                HandlersAuthorised, Handling, Authorised, Enabled, Restricted, Routed
  <2> QED
    BY <2>1, <2>2, <2>3, <2>4 DEF Next
<1> QED
  BY DEF IntakeInv, budgetVars, BudgetInv, BudgetTypeOK, BudgetExact, Reserved, AddBodyBudget

-----------------------------------------------------------------------------

\* The invariant holds throughout, for any number of requests: the verifier and
\* the budget of main.go together.
THEOREM IntakeInvariant == Spec => []IntakeInv
<1>1. Init => IntakeInv
  <2> SUFFICES ASSUME Init PROVE IntakeInv
    OBVIOUS
  <2>1. BudgetInv
    BY BudgetStart DEF Init
  <2>2. VerifierTypeOK
    BY DEF Init, VerifierInit, VerifierTypeOK, NoRequest, Routes
  <2>3. AdmissionInv /\ HandlersAuthorised
    BY DEF Init, VerifierInit, BudgetInit, AdmissionInv, HandlersAuthorised, NoRequest
  <2> QED
    BY <2>1, <2>2, <2>3 DEF IntakeInv
<1>2. IntakeInv /\ [Next]_vars => IntakeInv'
  BY IntakeInductive
<1> QED
  BY <1>1, <1>2, PTL DEF Spec

\* Every variable keeps its type; in particular the budget's counter never goes
\* below zero (the deferred release of handleAdd).
THEOREM TypeCorrect == Spec => []TypeOK
<1>1. IntakeInv => TypeOK
  BY DEF IntakeInv, BudgetInv, TypeOK
<1> QED
  BY <1>1, IntakeInvariant, PTL

\* No handler runs, and no budget is spent, for a caller that the deployment does
\* not admit (Middleware and routes).
THEOREM OnlyAuthorisedHandled == Spec => []HandlersAuthorised
<1>1. IntakeInv => HandlersAuthorised
  BY DEF IntakeInv
<1> QED
  BY <1>1, IntakeInvariant, PTL

\* The counter is exactly what the adds in flight have reserved (admitAdd and its
\* release).
THEOREM CounterExact == Spec => []BudgetExact
<1>1. IntakeInv => BudgetExact
  BY DEF IntakeInv, BudgetInv
<1> QED
  BY <1>1, IntakeInvariant, PTL

\* The large bodies in memory stay within addBodyBudget (main.go:63).
THEOREM LargeBodiesFit == Spec => []MemoryBounded
<1>1. IntakeInv => MemoryBounded
  BY BudgetBoundsMemory DEF IntakeInv
<1> QED
  BY <1>1, IntakeInvariant, PTL

\* An add is refused only when at least two others hold a reservation
\* (main.go:64).
THEOREM TwoLargestAdmitted == Spec => []TwoLargestFit
<1>1. IntakeInv => TwoLargestFit
  BY BudgetFitsTwo DEF IntakeInv
<1> QED
  BY <1>1, IntakeInvariant, PTL

=============================================================================

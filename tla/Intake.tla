-------------------------------- MODULE Intake --------------------------------
(***************************************************************************)
(* From the socket to the handler: the routes and the bearer check         *)
(* (Verifier) in front of the large-add budget (AddBudget).  A request is  *)
(* one goroutine: it waits for the verifier's mutex, is refused or passed  *)
(* on, and only then may an add reserve budget and have its body read.     *)
(***************************************************************************)
EXTENDS AddBudget

CONSTANTS Allowed, Credentials, NoBearer, Nil

VARIABLES mode, idp, ready, mu, req

INSTANCE Verifier

vars == <<verifierVars, budgetVars>>

\* An entry of handleAdd or of a configuration handler.
Handling(p, route) == req[p].pc = "handling" /\ req[p].route = route

\* The handler has written its answer.
Finish(p) == Answered(p) /\ UNCHANGED <<mode, idp, ready, mu>>

-----------------------------------------------------------------------------

\* handleAdd starts; n is the declared length of the request.
StartAdd(p, n) ==
    /\ Handling(p, "add")
    /\ AdmitAdd(p, n)
    /\ UNCHANGED <<mode, idp, ready, mu, req>>

\* 429.
TooManyAdds(p, n) ==
    /\ Handling(p, "add")
    /\ add[p] = NoAdd
    /\ ~Admitted(n)
    /\ Finish(p)
    /\ UNCHANGED budgetVars

ReadBody(p, h) == Read(p, h) /\ UNCHANGED <<mode, idp, ready, mu, req>>

EndAdd(p) == (HangUp(p) \/ Done(p)) /\ Finish(p)

HandleConfig(p) ==
    /\ Handling(p, "config")
    /\ Finish(p)
    /\ UNCHANGED budgetVars

Init == VerifierInit /\ BudgetInit

HandlerStep(p) ==
    \/ \E n \in Lengths : StartAdd(p, n) \/ TooManyAdds(p, n)
    \/ \E h \in 0 .. MaxAddBody : ReadBody(p, h)
    \/ EndAdd(p)
    \/ HandleConfig(p)

Next ==
    \/ \E p \in Procs : VerifierStep(p) /\ UNCHANGED budgetVars
    \/ \E p \in Procs : HandlerStep(p)
    \/ IdpChange /\ UNCHANGED budgetVars

Spec == Init /\ [][Next]_vars

(***************************************************************************)
(* A goroutine that can run does, and Go's mutex hands itself to the       *)
(* oldest waiter once it has waited long enough (strong fairness of        *)
(* ensure).  The rest of handleAdd ends because the adapters' HTTP clients *)
(* time out.  Nothing is assumed of what the code sets no deadline for:    *)
(* the discovery (oidc.go:93) and the fetch of the keys, and the body of a *)
(* request, for the server times out the header alone (main.go:133).       *)
(***************************************************************************)
Fairness ==
    \A p \in Procs :
        /\ SF_vars((EnsureReady(p) \/ EnsureLock(p)) /\ UNCHANGED budgetVars)
        /\ WF_vars(\E n \in Lengths : StartAdd(p, n) \/ TooManyAdds(p, n))
        /\ WF_vars(Done(p) /\ Finish(p))

FairSpec == Spec /\ Fairness

-----------------------------------------------------------------------------

TypeOK == VerifierTypeOK /\ BudgetTypeOK

\* No handler runs for a caller the deployment does not admit, whatever happened
\* to the identity provider while the request waited: not without a good bearer
\* once an issuer is set, not for a client outside ALLOWED_CLIENTS, and never a
\* configuration handler unless callers are restricted (Middleware, routes).  So
\* none of the add budget is spent on such a caller either.
HandlersAuthorised ==
    \A p \in Procs :
        /\ req[p].pc = "handling" => Authorised(req[p])
        /\ add[p] # NoAdd => Handling(p, "add")

\* A request that waits for others alone: for the keys of the identity provider or
\* for its own body.
AwaitsOthers(p) == req[p].pc = "verifying" \/ add[p].pc = "reading" \/ Handling(p, "config")

\* A request that queues behind discoveries that fail is answered all the same
\* (ensure's deferred unlock, oidc.go:89), and no request waits for another's body.
\* Two things alone keep requests waiting: a discovery that never ends, which has
\* no deadline and holds the mutex (oidc.go:93), holds up everyone, and keys or a
\* body that never come hold up their own request.
EveryRequestAnswered ==
    \/ \E q \in Procs : <>[](req[q].pc = "ensuring")
    \/ \A p \in Procs :
           \/ <>[]AwaitsOthers(p)
           \/ (req[p].pc # "idle") ~> (req[p].pc = "idle")

=============================================================================

------------------------------ MODULE ODownloader ------------------------------
(***************************************************************************)
(* The oDownloader adapter (internal/adapters/odownloader.go) and what the *)
(* poll loop makes of its answers.  One add creates one package of links;  *)
(* Describe asks for a page of the package's links and folds their states  *)
(* and byte counts into one job.  Every operation is a single request, so  *)
(* it is one action; the links move on between two of them.                *)
(*                                                                         *)
(* The daemon is external: its links are modelled by the states the        *)
(* adapter tells apart.                                                    *)
(***************************************************************************)
EXTENDS Derived, Sequences, Functions

CONSTANTS
    Packages,   \* package ids the daemon hands out
    MaxLinks,   \* bound on the links of a package
    PageSize,   \* how many links one page holds (1000)
    LinkSize,   \* bytes of a link
    MaxSpeed,   \* bound on the rate a link reports
    MaxElapsed  \* bound on the seconds between two polls

ASSUME ODownloaderAssumption ==
    /\ MaxLinks \in Nat
    /\ PageSize \in Nat \ {0}
    /\ LinkSize \in Nat \ {0}
    /\ MaxSpeed \in Nat
    /\ MaxElapsed \in Nat

Active == {"RUNNING", "PAUSED", "WAITING_FOR_CHALLENGE"}
Broken == {"FAILED", "CANCELLED"}
Over == {"FINISHED"} \cup Broken

Link == [state : {"QUEUED"} \cup Active \cup Over, done : 0 .. LinkSize]

\* What Describe last said of a package, and whether a link of the page had not
\* started then.
Answer == [state : {"not-found", "queued", "downloading", "completed", "failed"}, waiting : BOOLEAN]

VARIABLES
    pkg,     \* external: the links of each package, or Nil
    tracked, \* the packages the gateway polls
    sample,  \* lastBytes of a tracked package, or Nil
    missing, \* the tracked packages with missingSince set
    told,    \* the last Answer about each package, or Nil
    event,   \* the figures of the last progress event and its eta_sec, or Nil
    removed  \* the packages whose Remove succeeded

vars == <<pkg, tracked, sample, missing, told, event, removed>>

TypeOK ==
    /\ pkg \in [Packages -> Seq(Link) \cup {Nil}]
    /\ tracked \subseteq Packages
    /\ sample \in [Packages -> Nat \cup {Nil}]
    /\ missing \subseteq tracked
    /\ told \in [Packages -> Answer \cup {Nil}]
    /\ event # Nil => event.view \in [done : Nat, total : Nat, speed : Int, eta : Int]
    /\ removed \subseteq Packages

Init ==
    /\ pkg = [k \in Packages |-> Nil]
    /\ tracked = {}
    /\ sample = [k \in Packages |-> Nil]
    /\ missing = {}
    /\ told = [k \in Packages |-> Nil]
    /\ event = Nil
    /\ removed = {}

-----------------------------------------------------------------------------
(* The daemon (external). *)

Become(k, i, l) ==
    /\ pkg' = [pkg EXCEPT ![k][i] = l]
    /\ UNCHANGED <<tracked, sample, missing, told, event, removed>>

\* A link starts or goes on, waits for a captcha, is paused; a hoster that cannot
\* resume makes it start over; it ends well, ends badly, or is cancelled.
LinkStep(k, i) ==
    /\ pkg[k] # Nil
    /\ i \in DOMAIN pkg[k]
    /\ LET l == pkg[k][i] IN
       \/ l.state \in {"QUEUED", "PAUSED", "WAITING_FOR_CHALLENGE"} /\ Become(k, i, [l EXCEPT !.state = "RUNNING"])
       \/ l.state = "RUNNING" /\ l.done = 0 /\ Become(k, i, [l EXCEPT !.state = "WAITING_FOR_CHALLENGE"])
       \/ l.state = "RUNNING" /\ Become(k, i, [l EXCEPT !.state = "PAUSED"])
       \/ l.state = "RUNNING" /\ l.done + 1 < LinkSize /\ Become(k, i, [l EXCEPT !.done = @ + 1])
       \/ l.state = "RUNNING" /\ l.done > 0 /\ Become(k, i, [l EXCEPT !.done = 0])
       \/ l.state = "RUNNING" /\ Become(k, i, [state |-> "FINISHED", done |-> LinkSize])
       \/ l.state = "RUNNING" /\ Become(k, i, [l EXCEPT !.state = "FAILED"])
       \/ l.state \notin Over /\ Become(k, i, [l EXCEPT !.state = "CANCELLED"])

\* Somebody deletes the package in the daemon.
PackageVanish(k) ==
    /\ pkg[k] # Nil
    /\ pkg' = [pkg EXCEPT ![k] = Nil]
    /\ UNCHANGED <<tracked, sample, missing, told, event, removed>>

NewLinks(n) == [i \in 1 .. n |-> [state |-> "QUEUED", done |-> 0]]

\* An id is given once.
Fresh(k) == pkg[k] = Nil /\ told[k] = Nil /\ k \notin removed /\ k \notin tracked

-----------------------------------------------------------------------------
(* Add. *)

\* The daemon makes a package and names it; the gateway tracks it.
Add(k, n) ==
    /\ Fresh(k)
    /\ pkg' = [pkg EXCEPT ![k] = NewLinks(n)]
    /\ tracked' = tracked \cup {k}
    /\ UNCHANGED <<sample, missing, told, event, removed>>

\* The package is made and the answer lost: Add fails and nothing is tracked.  A
\* payload, a refusal and an empty packageId fail before there is a package.
AddLost(k, n) ==
    /\ Fresh(k)
    /\ pkg' = [pkg EXCEPT ![k] = NewLinks(n)]
    /\ UNCHANGED <<tracked, sample, missing, told, event, removed>>

-----------------------------------------------------------------------------
(* Describe. *)

\* The page of links that Describe gets; none of a package that is gone.
Page(k) == IF pkg[k] = Nil THEN <<>> ELSE SubSeq(pkg[k], 1, IF Len(pkg[k]) < PageSize THEN Len(pkg[k]) ELSE PageSize)

\* Mutant: a link that has not started does not hold up completion.
AllFinishedOrQueued(links) == \A i \in DOMAIN links : links[i].state \in {"FINISHED", "QUEUED"}

\* Mutant: a paused link does not count as running.
AnyRunningUnpaused(links) == \E i \in DOMAIN links : links[i].state \in Active \ {"PAUSED"}

\* Mutant: a cancelled link is one of the unknowns.
AnyFailedUncancelled(links) == \E i \in DOMAIN links : links[i].state = "FAILED"

\* The flags that foldODL's loop leaves.
AllFinished(links) == \A i \in DOMAIN links : links[i].state = "FINISHED"
AnyRunning(links) == \E i \in DOMAIN links : links[i].state \in Active
AnyFailed(links) == \E i \in DOMAIN links : links[i].state \in Broken
AnyStarted(links) == \E i \in DOMAIN links : links[i].state \in Active \cup {"FINISHED"}

\* Mutant: the first link's own state is handed on.
FoldODLNative(links) == IF links = <<>> THEN "not-found" ELSE links[1].state

\* The state of a page of links.
FoldODL(links) ==
    IF links = <<>> THEN "not-found"
    ELSE IF AllFinished(links) THEN "completed"
    ELSE IF AnyFailed(links) /\ ~AnyRunning(links) THEN "failed"
    ELSE IF AnyStarted(links) THEN "downloading" ELSE "queued"

\* A link's size is known once it has started.
Total(l) == IF l.state = "QUEUED" THEN 0 ELSE LinkSize

\* The summed figures of a page at a reported rate.  The links' own ETAs are not
\* used.
View(links, speed) ==
    [done |-> SumFunction([i \in DOMAIN links |-> links[i].done]),
     total |-> SumFunction([i \in DOMAIN links |-> Total(links[i])]),
     speed |-> speed, eta |-> -1]

Waiting(links) == \E i \in DOMAIN links : links[i].state = "QUEUED"

Tell(k) ==
    LET links == Page(k)
    IN  told' = [told EXCEPT ![k] = [state |-> FoldODL(links), waiting |-> Waiting(links)]]

\* handleDescribe asks about any package, tracked or not.
Describe(k) ==
    /\ Tell(k)
    /\ UNCHANGED <<pkg, tracked, sample, missing, event, removed>>

\* untrack.
Untrack(k) ==
    /\ tracked' = tracked \ {k}
    /\ sample' = [sample EXCEPT ![k] = Nil]
    /\ missing' = missing \ {k}

\* pollOne on a package that has ended.
PollEnded(k) ==
    /\ k \in tracked
    /\ FoldODL(Page(k)) \in {"completed", "failed"}
    /\ Tell(k)
    /\ Untrack(k)
    /\ UNCHANGED <<pkg, event, removed>>

\* pollOne on a package that an earlier poll did not find, nor this one after the
\* grace window (see MarkMissing of Gateway).
PollLost(k) ==
    /\ k \in missing
    /\ FoldODL(Page(k)) = "not-found"
    /\ Tell(k)
    /\ Untrack(k)
    /\ UNCHANGED <<pkg, event, removed>>

\* The figures a page may show: only running links report a rate.
Views(links) ==
    {View(links, speed) : speed \in IF \E i \in DOMAIN links : links[i].state = "RUNNING"
                                    THEN 0 .. MaxSpeed ELSE {0}}

\* The figures of a poll, which fillDerived completes from the previous sample.
Figures(k) ==
    {FillDerived(v, sample[k], elapsed) : v \in Views(Page(k)), elapsed \in 0 .. MaxElapsed}

\* pollOne on a package that goes on, or is not found and the window not over: set
\* or clear missingSince, fill in the figures, emit, keep the sample.
PollProgress(k) ==
    /\ k \in tracked
    /\ FoldODL(Page(k)) \notin {"completed", "failed"}
    /\ Tell(k)
    /\ missing' = IF FoldODL(Page(k)) = "not-found" THEN missing \cup {k} ELSE missing \ {k}
    /\ \E v \in Figures(k) :
           /\ event' = [view |-> v, eta |-> OptInt32(v.eta)]
           /\ sample' = [sample EXCEPT ![k] = v.done]
    /\ UNCHANGED <<pkg, tracked, removed>>

-----------------------------------------------------------------------------
(* Remove. *)

Forget(k) == removed' = removed \cup {k} /\ Untrack(k)

\* The daemon deletes the package, or answers 404 for one it does not have; the
\* gateway untracks it.
Remove(k) ==
    /\ pkg' = [pkg EXCEPT ![k] = Nil]
    /\ Forget(k)
    /\ UNCHANGED <<told, event>>

\* Mutant: any answer to the DELETE is taken for a success.
RemoveRefusedForgetting(k) ==
    /\ pkg[k] # Nil
    /\ Forget(k)
    /\ UNCHANGED <<pkg, told, event>>

\* Another status: Remove fails and the package stays tracked.
RemoveRefused(k) ==
    /\ pkg[k] # Nil
    /\ UNCHANGED vars

\* The package is deleted and the answer lost.
RemoveLost(k) ==
    /\ pkg[k] # Nil
    /\ pkg' = [pkg EXCEPT ![k] = Nil]
    /\ UNCHANGED <<tracked, sample, missing, told, event, removed>>

-----------------------------------------------------------------------------

Poll(k) == PollEnded(k) \/ PollLost(k) \/ PollProgress(k)

Next ==
    \E k \in Packages :
        \/ \E n \in 0 .. MaxLinks : Add(k, n) \/ AddLost(k, n)
        \/ \E i \in 1 .. MaxLinks : LinkStep(k, i)
        \/ PackageVanish(k)
        \/ Describe(k) \/ Poll(k)
        \/ Remove(k) \/ RemoveRefused(k) \/ RemoveLost(k)

Spec == Init /\ [][Next]_vars

\* The poll loop's ticker keeps firing, a daemon that is asked again and again
\* answers at last, and the grace window passes.
FairSpec == Spec /\ \A k \in Packages : WF_vars(Poll(k)) /\ WF_vars(PollLost(k))

-----------------------------------------------------------------------------

\* "a package is completed only when every link is FINISHED" (odownloader.go:168),
\* and stays so: this holds of packages that fit one page.  Links beyond the page
\* are not looked at (odownloader.go:151).
CompletedIsAll ==
    \A k \in Packages :
        /\ told[k] # Nil /\ told[k].state = "completed"
        /\ pkg[k] # Nil /\ Len(pkg[k]) <= PageSize
        => \A i \in DOMAIN pkg[k] : pkg[k][i].state = "FINISHED"

\* The gateway untracks a package that is completed or failed, so the outcome it
\* was told must be the last word.  It is, unless a failed package still had a
\* link that had not started (foldODL, odownloader.go:220).
OutcomeIsFinal ==
    [][\A k \in Packages :
        /\ told[k] # Nil /\ told[k].state \in {"completed", "failed"}
        /\ ~told[k].waiting
        => told'[k].state \in {told[k].state, "not-found"}]_vars

\* A package whose links are all over does not stay tracked: every mix of
\* finished, failed and cancelled links folds to an outcome (foldODL, pollOne).
TellsAtLast ==
    \A k \in Packages :
        /\ k \in tracked
        /\ pkg[k] # Nil /\ pkg[k] # <<>>
        /\ \A i \in DOMAIN Page(k) : Page(k)[i].state \in Over
        ~> k \notin tracked

\* A DELETE that was answered 204 has removed the package from the daemon, however
\* often answers were lost before (Remove, 404 taken for success).
RemovedIsGone == \A k \in removed : pkg[k] = Nil

\* A progress event's speed is never negative, although byte counts may go back,
\* and its ETA is negative only when the true one does not fit the event's
\* integer (fillDerived, optInt32 at main.go:782).
ProgressSane ==
    event # Nil =>
        /\ event.view.speed >= 0
        /\ event.eta # Nil =>
               \/ event.eta = event.view.eta /\ event.eta >= 0
               \/ event.view.eta >= 2^(EtaBits - 1)

=============================================================================

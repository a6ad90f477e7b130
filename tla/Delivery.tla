------------------------------- MODULE Delivery -------------------------------
(***************************************************************************)
(* What the caller of the gateway gets to know: events through the         *)
(* publisher (internal/events/events.go), describing a job, and a process  *)
(* that is started, shut down gracefully and killed (main, handleDescribe  *)
(* and pollLoop of cmd/server/main.go).                                    *)
(*                                                                         *)
(* Every emit error is ignored, a job is untracked once its outcome was    *)
(* emitted, nothing is persisted, and only running jobs are adopted.  One  *)
(* client, configured from the environment, holds every job; progress      *)
(* events are left out, and the grace window of a job that the client lost *)
(* (Gateway) ends at any time.  The client lists a job as soon as it has   *)
(* taken it: the not-found of a torrent that is not listed yet             *)
(* (qbittorrent.go:279), which a caller may take for the end of its job,   *)
(* is left out.  A download that failed stays failed.                      *)
(***************************************************************************)
EXTENDS Naturals

CONSTANTS
    Jobs,    \* jobs that are added, by their id at the client
    MaxStops \* bound on shutdowns and crashes

ASSUME DeliveryAssumption == MaxStops \in Nat

VARIABLES
    phase,   \* of main
    closed,  \* pub.closed
    kafka,   \* external: the brokers; "none" when none are configured
    client,  \* external: each job at the download client
    tracked, \* keys of g.jobs
    task,    \* each job in the poll round
    http,    \* the request about each job: an add, later a describe
    log,     \* events the brokers took
    knows,   \* external: what the caller knows of each job
    dropped, \* history: events emitted while no broker could take them
    overran, \* history: Shutdown gave up waiting for the requests in flight
    stops    \* counts shutdowns and crashes

vars == <<phase, closed, kafka, client, tracked, task, http, log, knows, dropped, overran, stops>>

Ends == {"completed", "failed"}
Events == {"started"} \cup Ends

TypeOK ==
    /\ phase \in {"down", "serving", "draining", "closing"}
    /\ closed \in BOOLEAN
    /\ kafka \in {"none", "up", "down"}
    /\ client \in [Jobs -> {"none", "running", "gone"} \cup Ends]
    /\ tracked \subseteq {j \in Jobs : client[j] # "none"}
    /\ task \in [Jobs -> {"none", "due", "ended", "emitted"}]
    /\ http \in [Jobs -> {"none", "called", "tracked", "emitted", "asked"}]
    /\ log \subseteq Events \X Jobs
    /\ dropped \subseteq Events \X Jobs
    /\ knows \in [Jobs -> {"nothing", "accepted", "gone"} \cup Ends]
    /\ overran \in BOOLEAN
    /\ stops \in 0 .. MaxStops

Idle == [j \in Jobs |-> "none"]

Init ==
    /\ phase = "down"
    /\ closed = FALSE
    /\ kafka \in {"none", "up"}
    /\ client = Idle
    /\ tracked = {}
    /\ task = Idle
    /\ http = Idle
    /\ log = {}
    /\ knows = [j \in Jobs |-> "nothing"]
    /\ dropped = {}
    /\ overran = FALSE
    /\ stops = 0

Running == phase # "down"
InFlight == {j \in Jobs : http[j] # "none"}

\* emit: without brokers it only logs, to brokers that are down or through a
\* closed producer it fails, and no caller looks at the error.
Emit(kind, j) ==
    /\ log' = IF ~closed /\ kafka = "up" THEN log \cup {<<kind, j>>} ELSE log
    /\ dropped' = IF ~closed /\ kafka # "up" THEN dropped \cup {<<kind, j>>} ELSE dropped

Job(j, s) == client' = [client EXCEPT ![j] = s]
Task(j, s) == task' = [task EXCEPT ![j] = s]
Http(j, s) == http' = [http EXCEPT ![j] = s]
Learn(j, s) == knows' = [knows EXCEPT ![j] = s]

-----------------------------------------------------------------------------
\* The process.

\* main until it serves.  A producer that cannot reach its brokers ends it, and
\* an adoption that fails leaves the jobs of its client untracked for good.
Boot(adopted) ==
    /\ ~Running
    /\ kafka # "down"
    /\ adopted \in {{}, {j \in Jobs : client[j] = "running"}}
    /\ phase' = "serving"
    /\ closed' = FALSE
    /\ tracked' = adopted
    /\ UNCHANGED <<kafka, client, task, http, log, knows, dropped, overran, stops>>

\* SIGTERM: ctx is cancelled and the listener closes; requests in flight go on.
Signal ==
    /\ phase = "serving"
    /\ stops < MaxStops
    /\ stops' = stops + 1
    /\ phase' = "draining"
    /\ UNCHANGED <<closed, kafka, client, tracked, task, http, log, knows, dropped, overran>>

\* srv.Shutdown returns when no request is left, or after ten seconds.
Shutdown ==
    /\ phase = "draining"
    /\ phase' = "closing"
    /\ overran' = (overran \/ InFlight # {})
    /\ UNCHANGED <<closed, kafka, client, tracked, task, http, log, knows, dropped, stops>>

\* Mutant: the publisher is closed before srv.Shutdown returns.
CloseEarly ==
    /\ phase \in {"draining", "closing"}
    /\ ~closed
    /\ closed' = TRUE
    /\ UNCHANGED <<phase, kafka, client, tracked, task, http, log, knows, dropped, overran, stops>>

\* The deferred pub.Close; the poll loop and overdue requests still run.
Close ==
    /\ phase = "closing"
    /\ ~closed
    /\ closed' = TRUE
    /\ UNCHANGED <<phase, kafka, client, tracked, task, http, log, knows, dropped, overran, stops>>

\* What a process that ends takes with it.
Die ==
    /\ phase' = "down"
    /\ tracked' = {}
    /\ task' = Idle
    /\ http' = Idle
    /\ UNCHANGED <<closed, kafka, client, log, knows, dropped, overran>>

\* main returns.
Exit ==
    /\ phase = "closing" /\ closed
    /\ Die
    /\ UNCHANGED stops

Kill ==
    /\ Running
    /\ stops < MaxStops
    /\ stops' = stops + 1
    /\ Die

-----------------------------------------------------------------------------
\* handleAdd and handleDescribe.

\* The client takes the job.
AddCall(j) ==
    /\ phase = "serving"
    /\ client[j] = "none"
    /\ Job(j, "running")
    /\ Http(j, "called")
    /\ UNCHANGED <<phase, closed, kafka, tracked, task, log, knows, dropped, overran, stops>>

AddTrack(j) ==
    /\ http[j] = "called"
    /\ tracked' = tracked \cup {j}
    /\ Http(j, "tracked")
    /\ UNCHANGED <<phase, closed, kafka, client, task, log, knows, dropped, overran, stops>>

AddEmit(j) ==
    /\ http[j] = "tracked"
    /\ Emit("started", j)
    /\ Http(j, "emitted")
    /\ UNCHANGED <<phase, closed, kafka, client, tracked, task, knows, overran, stops>>

\* 202.
AddAnswer(j) ==
    /\ http[j] = "emitted"
    /\ Learn(j, "accepted")
    /\ Http(j, "none")
    /\ UNCHANGED <<phase, closed, kafka, client, tracked, task, log, dropped, overran, stops>>

\* The caller asks about a job whose outcome it has not seen.
Ask(j) ==
    /\ phase = "serving"
    /\ http[j] = "none"
    /\ knows[j] = "accepted"
    /\ Http(j, "asked")
    /\ UNCHANGED <<phase, closed, kafka, client, tracked, task, log, knows, dropped, overran, stops>>

\* Mutant: only a tracked job is described.
DescribeTracked(j) ==
    /\ http[j] = "asked"
    /\ j \in tracked
    /\ knows' = IF client[j] = "running" THEN knows ELSE [knows EXCEPT ![j] = client[j]]
    /\ Http(j, "none")
    /\ UNCHANGED <<phase, closed, kafka, client, tracked, task, log, dropped, overran, stops>>

\* Mutant: whatever state the client answers passes for an outcome.
DescribeAnyState(j) ==
    /\ http[j] = "asked"
    /\ Learn(j, client[j])
    /\ Http(j, "none")
    /\ UNCHANGED <<phase, closed, kafka, client, tracked, task, log, dropped, overran, stops>>

\* The job as its client has it now, tracked or not; a job it no longer has is
\* 404 with the state not-found.
Describe(j) ==
    /\ http[j] = "asked"
    /\ knows' = IF client[j] = "running" THEN knows ELSE [knows EXCEPT ![j] = client[j]]
    /\ Http(j, "none")
    /\ UNCHANGED <<phase, closed, kafka, client, tracked, task, log, dropped, overran, stops>>

\* The client cannot be asked: 502.
DescribeFail(j) ==
    /\ http[j] = "asked"
    /\ Http(j, "none")
    /\ UNCHANGED <<phase, closed, kafka, client, tracked, task, log, knows, dropped, overran, stops>>

-----------------------------------------------------------------------------
\* pollLoop.

\* pollAll: a round starts when the last one is over.
PollAll ==
    /\ Running
    /\ task = Idle
    /\ tracked # {}
    /\ task' = [j \in Jobs |-> IF j \in tracked THEN "due" ELSE "none"]
    /\ UNCHANGED <<phase, closed, kafka, client, tracked, http, log, knows, dropped, overran, stops>>

\* pollOne: the client says that the job ended, or has long lost it.
PollEnded(j) ==
    /\ task[j] = "due"
    /\ phase = "serving"
    /\ client[j] # "running"
    /\ Task(j, "ended")
    /\ UNCHANGED <<phase, closed, kafka, client, tracked, http, log, knows, dropped, overran, stops>>

\* Mutant: a job that cannot be described is dropped.
PollLaterDropping(j) ==
    /\ task[j] = "due"
    /\ Task(j, "none")
    /\ tracked' = tracked \ {j}
    /\ UNCHANGED <<phase, closed, kafka, client, http, log, knows, dropped, overran, stops>>

\* The job runs, is missing for a short time, or its client did not answer in
\* time or at all, as happens to every describe once ctx is cancelled.
PollLater(j) ==
    /\ task[j] = "due"
    /\ Task(j, "none")
    /\ UNCHANGED <<phase, closed, kafka, client, tracked, http, log, knows, dropped, overran, stops>>

PollEmit(j) ==
    /\ task[j] = "ended"
    /\ Emit(IF client[j] = "completed" THEN "completed" ELSE "failed", j)
    /\ Task(j, "emitted")
    /\ UNCHANGED <<phase, closed, kafka, client, tracked, http, knows, overran, stops>>

PollUntrack(j) ==
    /\ task[j] = "emitted"
    /\ tracked' = tracked \ {j}
    /\ Task(j, "none")
    /\ UNCHANGED <<phase, closed, kafka, client, http, log, knows, dropped, overran, stops>>

-----------------------------------------------------------------------------
\* The world around it.

\* The download ends, or somebody removes it at the client.
JobEnds(j, s) ==
    /\ client[j] = "running"
    /\ Job(j, s)
    /\ UNCHANGED <<phase, closed, kafka, tracked, task, http, log, knows, dropped, overran, stops>>

BrokersChange ==
    /\ kafka # "none"
    /\ kafka' \in {"up", "down"} \ {kafka}
    /\ UNCHANGED <<phase, closed, client, tracked, task, http, log, knows, dropped, overran, stops>>

\* The caller reads the topics.
Consume(j, kind) ==
    /\ <<kind, j>> \in log
    /\ knows[j] = "accepted"
    /\ Learn(j, kind)
    /\ UNCHANGED <<phase, closed, kafka, client, tracked, task, http, log, dropped, overran, stops>>

-----------------------------------------------------------------------------

Request(j) ==
    \/ AddTrack(j) \/ AddEmit(j) \/ AddAnswer(j)
    \/ Describe(j) \/ DescribeFail(j)

PollTask(j) == PollEnded(j) \/ PollLater(j) \/ PollEmit(j) \/ PollUntrack(j)

Next ==
    \/ \E adopted \in SUBSET Jobs : Boot(adopted)
    \/ Signal \/ Shutdown \/ Close \/ Exit \/ Kill
    \/ \E j \in Jobs : AddCall(j) \/ Ask(j) \/ Request(j) \/ PollTask(j)
    \/ PollAll
    \/ \E j \in Jobs, s \in {"gone"} \cup Ends : JobEnds(j, s)
    \/ \E j \in Jobs, kind \in Ends : Consume(j, kind)
    \/ BrokersChange

Spec == Init /\ [][Next]_vars

(***************************************************************************)
(* The process does what it is about to do, a request and a poll that were *)
(* begun end, and the supervisor starts the process again.  Of the world:  *)
(* an outage of the brokers ends, downloads end, the caller asks again,    *)
(* and a client that is asked often enough answers once.                   *)
(***************************************************************************)
Fairness ==
    /\ SF_vars(\E adopted \in SUBSET Jobs : Boot(adopted))
    /\ WF_vars(Shutdown) /\ WF_vars(Close) /\ WF_vars(Exit)
    /\ WF_vars(PollAll)
    /\ WF_vars(kafka = "down" /\ BrokersChange)
    /\ \A j \in Jobs :
        /\ WF_vars(Request(j)) /\ SF_vars(Describe(j))
        /\ WF_vars(PollTask(j)) /\ SF_vars(PollEnded(j))
        /\ WF_vars(\E s \in {"gone"} \cup Ends : JobEnds(j, s))
        /\ SF_vars(Ask(j))

FairSpec == Spec /\ Fairness

-----------------------------------------------------------------------------

\* The caller of an add that was accepted finds it announced on the topic, unless
\* no broker could take the event at that moment or Shutdown gave up on requests in
\* flight: a graceful stop never closes the publisher under an add (the order of
\* main's defers, main.go:120 and 148).
AcceptedIsAnnounced ==
    \A j \in Jobs :
        \/ knows[j] = "nothing"
        \/ <<"started", j>> \in log \cup dropped
        \/ overran

\* An accepted job's outcome becomes known to a caller that asks, although events
\* are lost to brokers that are down, to a publisher closed under the poll loop
\* and to crashes, and jobs to failed adoptions (handleDescribe; "It is how the
\* caller learns what became of a job whose events it never saw", README.md:102).
OutcomeLearned == \A j \in Jobs : (knows[j] = "accepted") ~> (knows[j] \in {"gone"} \cup Ends)

\* While the process serves and the brokers are up, every tracked job gets its
\* terminal event, however often its client fails to answer (pollLoop: "the
\* gateway poll is the durable signal", main.go:540).
OutcomeDelivered ==
    \A j \in Jobs :
        (j \in tracked /\ task[j] = "none") ~>
            \/ \E kind \in Ends : <<kind, j>> \in log
            \/ kafka # "up"
            \/ phase # "serving"

=============================================================================

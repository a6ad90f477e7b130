-------------------------------- MODULE Gateway --------------------------------
(***************************************************************************)
(* The gateway (cmd/server/main.go, cmd/server/config.go): HTTP handlers   *)
(* that add and remove downloads, config pushes that replace the clients,  *)
(* the adoption of jobs that already run in a client, and the poll loop    *)
(* that turns each tracked job's state into events.                        *)
(*                                                                         *)
(* Handlers and adoptions are goroutines that take a lock for one          *)
(* operation at a time and call a download client between two operations;  *)
(* each such operation or call is one action, and the steps of different   *)
(* goroutines interleave freely.  The download clients themselves are      *)
(* external and modelled by the state of each job they hold.               *)
(***************************************************************************)
EXTENDS Registry

CONSTANTS
    Endpoints,       \* download client instances
    EndpointOf,      \* the instance a spec points at
    JobIds,          \* the job ids a client hands out
    Wanted,          \* wanted item ids an add may carry
    Procs,           \* goroutine slots for requests and adoptions
    PollConcurrency, \* pollConcurrency of main.go
    MaxPending,      \* bound on adoptions waiting to run, per client id
    MaxCrashes       \* bound on restarts

Keys == Ids \X JobIds

WantedItem == Wanted \cup {Nil}

\* A tracked job.  missing says how long the client has not known the job:
\* missingSince is zero, within the lostAfter grace window, or beyond it.
Tracked == [wanted : WantedItem, missing : {"zero", "recent", "overdue"}]

\* A terminal event.
Outcome == [kind : {"completed", "failed"}, wanted : WantedItem]

ASSUME GatewayAssumption ==
    /\ EndpointOf \in [Specs -> Endpoints]
    /\ IsFiniteSet(Procs)
    /\ PollConcurrency \in Nat \ {0}
    /\ MaxPending \in Nat
    /\ MaxCrashes \in Nat
    /\ Nil \notin JobIds \cup Wanted \cup Tracked \cup Outcome

VARIABLES
    phase,     \* "boot" while adoptExisting runs, then "serving"
    jobs,      \* g.jobs: the tracked job of each key, or Nil
    op,        \* what each goroutine slot is doing
    pending,   \* adoptions started but not yet running, per client id
    polling,   \* a pollAll is in progress
    poll,      \* its per-job tasks, or Nil
    remote,    \* external: the jobs each download client holds
    outcome,   \* the terminal event that the poll task of a job has handed to the
               \* publisher, or Nil
    crashes    \* restarts so far

localVars == <<phase, jobs, op, pending, polling, poll>>
vars == <<clients, leases, revision, localVars, remote, outcome, crashes>>

Idle == [pc |-> "idle"]

\* A POST /api/v1/downloads that holds its lease.
AddOp == [pc : {"leased", "accepted", "tracked"}, id : Ids, spec : Specs,
          job : JobIds \cup {Nil}, wanted : WantedItem]

\* An adoption that holds its lease.
AdoptOp == [pc : {"adopting", "adopted"}, id : Ids, spec : Specs, found : SUBSET JobIds]

\* Where a goroutine holds a lease.
LeasePC == {"leased", "accepted", "tracked", "adopting", "adopted"}

\* A DELETE /api/v1/downloads/{adapter}/{id}; it takes no lease.
RemoveOp == [pc : {"removing", "removed"}, id : Ids, spec : Specs, job : JobIds]

\* One pollOne, with the values of the snapshot it works from.
PollTask ==
    [pc : {"queued", "drop"}, wanted : WantedItem, spec : {Nil}, seen : {"unknown"}]
    \cup [pc : {"describe", "report", "lost", "untrack"}, wanted : WantedItem, spec : Specs,
          seen : {"unknown", "running", "completed", "failed"}]

RemoteState == {"fresh", "running", "completed", "failed", "gone"}

TypeOK ==
    /\ RegistryTypeOK
    /\ phase \in {"boot", "serving"}
    /\ jobs \in [Keys -> Tracked \cup {Nil}]
    /\ op \in [Procs -> {Idle} \cup AddOp \cup AdoptOp \cup RemoveOp]
    /\ pending \in [Ids -> Nat]
    /\ polling \in BOOLEAN
    /\ poll \in [Keys -> PollTask \cup {Nil}]
    /\ remote \in [Endpoints -> [JobIds -> RemoteState]]
    /\ outcome \in [Keys -> Outcome \cup {Nil}]
    /\ crashes \in Nat

-----------------------------------------------------------------------------
(* The tracked jobs. *)

\* The ids hasJobs answers true for.
Busy == {id \in Ids : \E j \in JobIds : jobs[<<id, j>>] # Nil}

NewTracked(w) == [wanted |-> w, missing |-> "zero"]

Track(id, j, w) == [jobs EXCEPT ![<<id, j>>] = NewTracked(w)]

\* Mutant: adoption overwrites the record of a tracked job.
TrackAlways(id, j, w) == Track(id, j, w)

\* Mutant: the test of trackIfAbsent is turned round.
TrackIfPresent(id, j, w) == IF jobs[<<id, j>>] # Nil THEN Track(id, j, w) ELSE jobs

TrackIfAbsent(id, j, w) == IF jobs[<<id, j>>] = Nil THEN Track(id, j, w) ELSE jobs

\* By key, whatever record is tracked under it by now.
Untrack(id, j) == [jobs EXCEPT ![<<id, j>>] = Nil]

\* Mutant: the grace window is started on the snapshot's copy of the job.
MarkMissingOnCopy(k) == jobs

\* markMissing starts the grace window when it is not already running;
\* MissingOverdue is its answer.
MarkMissing(k) ==
    IF jobs[k] # Nil /\ jobs[k].missing = "zero"
    THEN [jobs EXCEPT ![k].missing = "recent"]
    ELSE jobs

MissingOverdue(k) == jobs[k] # Nil /\ jobs[k].missing = "overdue"

ClearMissing(k) ==
    IF jobs[k] # Nil THEN [jobs EXCEPT ![k].missing = "zero"] ELSE jobs

\* Handing a terminal event to the publisher.  Its error is ignored by every
\* caller.  Started and progress events are handed over too; no later step
\* depends on them and they are not recorded.
Emit(kind, k, w) == outcome' = [outcome EXCEPT ![k] = [kind |-> kind, wanted |-> w]]

-----------------------------------------------------------------------------
(* The download clients (external). *)

RemoteJob(s, j) == remote[EndpointOf[s]][j]

SetRemote(s, j, state) == remote' = [remote EXCEPT ![EndpointOf[s]][j] = state]

\* A running download ends.
RemoteFinish(e, j) ==
    /\ remote[e][j] = "running"
    /\ \E state \in {"completed", "failed"} : remote' = [remote EXCEPT ![e][j] = state]
    /\ UNCHANGED <<registryVars, localVars, outcome, crashes>>

\* Somebody deletes the job in the client, or its history entry expires.
RemoteVanish(e, j) ==
    /\ remote[e][j] \in {"running", "completed", "failed"}
    /\ remote' = [remote EXCEPT ![e][j] = "gone"]
    /\ UNCHANGED <<registryVars, localVars, outcome, crashes>>

-----------------------------------------------------------------------------
(* handleAdd. *)

Finish(p) == op' = [op EXCEPT ![p] = Idle]

\* Admission, decoding and validation succeeded and the lease is taken.  A
\* refused lease (404, 409) changes nothing.
AddBegin(p, id, w) ==
    /\ phase = "serving"
    /\ op[p] = Idle
    /\ Lease(id)
    /\ op' = [op EXCEPT ![p] = [pc |-> "leased", id |-> id, spec |-> clients[id].spec,
                                job |-> Nil, wanted |-> w]]
    /\ UNCHANGED <<phase, jobs, pending, polling, poll, remote, outcome, crashes>>

\* Adapter.Add succeeds: the client runs a new job.
AddCall(p, j) ==
    /\ op[p].pc = "leased"
    /\ RemoteJob(op[p].spec, j) = "fresh"
    /\ SetRemote(op[p].spec, j, "running")
    /\ op' = [op EXCEPT ![p].pc = "accepted", ![p].job = j]
    /\ UNCHANGED <<registryVars, phase, jobs, pending, polling, poll, outcome, crashes>>

\* Mutant: an early return that forgets the lease.
AddFailLeaking(p) ==
    /\ op[p].pc = "leased"
    /\ Finish(p)
    /\ UNCHANGED <<registryVars, phase, jobs, pending, polling, poll, remote, outcome, crashes>>

\* The payload is refused or Adapter.Add returns an error; the request ends.
AddFail(p) ==
    /\ op[p].pc = "leased"
    /\ Release(op[p].id)
    /\ Finish(p)
    /\ UNCHANGED <<phase, jobs, pending, polling, poll, remote, outcome, crashes>>

\* The client took the job but its answer is lost: Adapter.Add returns an error
\* and the job runs untracked.
AddLost(p, j) ==
    /\ op[p].pc = "leased"
    /\ RemoteJob(op[p].spec, j) = "fresh"
    /\ SetRemote(op[p].spec, j, "running")
    /\ Release(op[p].id)
    /\ Finish(p)
    /\ UNCHANGED <<phase, jobs, pending, polling, poll, outcome, crashes>>

AddTrack(p) ==
    /\ op[p].pc = "accepted"
    /\ jobs' = Track(op[p].id, op[p].job, op[p].wanted)
    /\ op' = [op EXCEPT ![p].pc = "tracked"]
    /\ UNCHANGED <<registryVars, phase, pending, polling, poll, remote, outcome, crashes>>

\* EmitStarted, the 202, and the deferred release.
AddStarted(p) ==
    /\ op[p].pc = "tracked"
    /\ Release(op[p].id)
    /\ Finish(p)
    /\ UNCHANGED <<phase, jobs, pending, polling, poll, remote, outcome, crashes>>

-----------------------------------------------------------------------------
(* handleRemove. *)

\* Get finds the client; an unknown one is answered 404.  The job id is whatever
\* the caller sends.
RemoveBegin(p, id, j) ==
    /\ phase = "serving"
    /\ op[p] = Idle
    /\ Registered(id)
    /\ op' = [op EXCEPT ![p] = [pc |-> "removing", id |-> id, spec |-> clients[id].spec, job |-> j]]
    /\ UNCHANGED <<registryVars, phase, jobs, pending, polling, poll, remote, outcome, crashes>>

\* Adapter.Remove succeeds, also for a job that the client does not have.  The job
\* may be left in the client all the same: see RemovedIsGone of NZBGet and
\* QBittorrent.
RemoveCall(p) ==
    /\ op[p].pc = "removing"
    /\ \/ /\ RemoteJob(op[p].spec, op[p].job) # "fresh"
          /\ SetRemote(op[p].spec, op[p].job, "gone")
       \/ UNCHANGED remote
    /\ op' = [op EXCEPT ![p].pc = "removed"]
    /\ UNCHANGED <<registryVars, phase, jobs, pending, polling, poll, outcome, crashes>>

\* Adapter.Remove fails: 502, and the job stays tracked.
RemoveFail(p) ==
    /\ op[p].pc = "removing"
    /\ Finish(p)
    /\ UNCHANGED <<registryVars, phase, jobs, pending, polling, poll, remote, outcome, crashes>>

\* The job is forgotten without an event and the request answered 204.
RemoveUntrack(p) ==
    /\ op[p].pc = "removed"
    /\ jobs' = Untrack(op[p].id, op[p].job)
    /\ Finish(p)
    /\ UNCHANGED <<registryVars, phase, pending, polling, poll, remote, outcome, crashes>>

-----------------------------------------------------------------------------
(* handleConfigApply and adopt. *)

\* A push replaces the API clients and starts one adoption per started client.
ConfigApply(rev, push) ==
    /\ phase = "serving"
    /\ \A id \in Started(push) : pending[id] < MaxPending
    /\ Apply(rev, push, Busy)
    /\ pending' = [id \in Ids |-> IF id \in Started(push) THEN pending[id] + 1 ELSE pending[id]]
    /\ UNCHANGED <<phase, jobs, op, polling, poll, remote, outcome, crashes>>

\* At boot the clients are adopted one after the other.
MayAdopt == phase = "boot" => \A q \in Procs : op[q] = Idle

AdoptBegin(p, id) ==
    /\ pending[id] > 0
    /\ op[p] = Idle
    /\ MayAdopt
    /\ Lease(id)
    /\ op' = [op EXCEPT ![p] = [pc |-> "adopting", id |-> id, spec |-> clients[id].spec, found |-> {}]]
    /\ pending' = [pending EXCEPT ![id] = @ - 1]
    /\ UNCHANGED <<phase, jobs, polling, poll, remote, outcome, crashes>>

\* The client was removed again before the adoption ran.
AdoptSkip(id) ==
    /\ pending[id] > 0
    /\ ~Leasable(id)
    /\ pending' = [pending EXCEPT ![id] = @ - 1]
    /\ UNCHANGED <<registryVars, phase, jobs, op, polling, poll, remote, outcome, crashes>>

\* Mutant: a client lists the jobs that have ended too.
AdoptableEnded(s) == {j \in JobIds : RemoteJob(s, j) \in {"running", "completed", "failed"}}

\* The jobs that still run in a client.  Which of them are filed under the category
\* of the client is left to NZBGet and QBittorrent: here all are.
Adoptable(s) == {j \in JobIds : RemoteJob(s, j) = "running"}

AdoptList(p) ==
    /\ op[p].pc = "adopting"
    /\ op' = [op EXCEPT ![p].pc = "adopted", ![p].found = Adoptable(op[p].spec)]
    /\ UNCHANGED <<registryVars, phase, jobs, pending, polling, poll, remote, outcome, crashes>>

\* The client cannot list its jobs, or the call fails: nothing is adopted.
AdoptFail(p) ==
    /\ op[p].pc = "adopting"
    /\ Release(op[p].id)
    /\ Finish(p)
    /\ UNCHANGED <<phase, jobs, pending, polling, poll, remote, outcome, crashes>>

\* An adopted job has no wanted item: acquire re-associates it.
AdoptTrack(p, j) ==
    /\ op[p].pc = "adopted"
    /\ j \in op[p].found
    /\ jobs' = TrackIfAbsent(op[p].id, j, Nil)
    /\ op' = [op EXCEPT ![p].found = @ \ {j}]
    /\ UNCHANGED <<registryVars, phase, pending, polling, poll, remote, outcome, crashes>>

AdoptDone(p) ==
    /\ op[p].pc = "adopted"
    /\ op[p].found = {}
    /\ Release(op[p].id)
    /\ Finish(p)
    /\ UNCHANGED <<phase, jobs, pending, polling, poll, remote, outcome, crashes>>

-----------------------------------------------------------------------------
(* pollLoop, pollAll and pollOne. *)

NewTask(k) == [pc |-> "queued", wanted |-> jobs[k].wanted, spec |-> Nil, seen |-> "unknown"]

\* Mutant: pollAll returns at once when no job is tracked.
PollSnapshotIfBusy ==
    /\ Busy # {}
    /\ phase = "serving"
    /\ ~polling
    /\ polling' = TRUE
    /\ poll' = [k \in Keys |-> IF jobs[k] # Nil THEN NewTask(k) ELSE Nil]
    /\ UNCHANGED <<registryVars, phase, jobs, op, pending, remote, outcome, crashes>>

PollSnapshot ==
    /\ phase = "serving"
    /\ ~polling
    /\ polling' = TRUE
    /\ poll' = [k \in Keys |-> IF jobs[k] # Nil THEN NewTask(k) ELSE Nil]
    /\ UNCHANGED <<registryVars, phase, jobs, op, pending, remote, outcome, crashes>>

AtPoll(k, pc) == poll[k] # Nil /\ poll[k].pc = pc

\* Tasks that hold a slot of the semaphore.
Polled == {k \in Keys : poll[k] # Nil /\ poll[k].pc # "queued"}

\* The task takes a slot and asks the registry for the client.
PollGet(k) ==
    /\ AtPoll(k, "queued")
    /\ Cardinality(Polled) < PollConcurrency
    /\ poll' = IF Registered(k[1])
               THEN [poll EXCEPT ![k].pc = "describe", ![k].spec = clients[k[1]].spec]
               ELSE [poll EXCEPT ![k].pc = "drop"]
    /\ UNCHANGED <<registryVars, phase, jobs, op, pending, polling, remote, outcome, crashes>>

\* The client is not configured any more: the job is dropped without an event.
PollDrop(k) ==
    /\ AtPoll(k, "drop")
    /\ jobs' = Untrack(k[1], k[2])
    /\ poll' = [poll EXCEPT ![k] = Nil]
    /\ UNCHANGED <<registryVars, phase, op, pending, polling, remote, outcome, crashes>>

\* Mutant: the client's raw answer is not folded.
SeenUnfolded(s, j) == {RemoteJob(s, j)}

\* What Describe may make of what the client holds.  It does not know a job it
\* never had, no longer has, or does not list yet (a magnet without metadata).
Seen(s, j) ==
    CASE RemoteJob(s, j) \in {"fresh", "gone"} -> {"unknown"}
      [] RemoteJob(s, j) = "running" -> {"running", "unknown"}
      [] RemoteJob(s, j) \in {"completed", "failed"} -> {RemoteJob(s, j)}

PollDescribe(k) ==
    /\ AtPoll(k, "describe")
    /\ \E v \in Seen(poll[k].spec, k[2]) :
           poll' = [poll EXCEPT ![k].pc = "report", ![k].seen = v]
    /\ UNCHANGED <<registryVars, phase, jobs, op, pending, polling, remote, outcome, crashes>>

\* Describe fails: the task ends and leaves missingSince as it is.
PollError(k) ==
    /\ AtPoll(k, "describe")
    /\ poll' = [poll EXCEPT ![k] = Nil]
    /\ UNCHANGED <<registryVars, phase, jobs, op, pending, polling, remote, outcome, crashes>>

\* The job has ended: emit its outcome, then untrack.
PollEnded(k) ==
    /\ AtPoll(k, "report")
    /\ poll[k].seen \in {"completed", "failed"}
    /\ Emit(poll[k].seen, k, poll[k].wanted)
    /\ poll' = [poll EXCEPT ![k].pc = "untrack"]
    /\ UNCHANGED <<registryVars, phase, jobs, op, pending, polling, remote, crashes>>

\* The client has not known the job for longer than the grace window.
PollLost(k) ==
    /\ AtPoll(k, "report")
    /\ poll[k].seen = "unknown"
    /\ MissingOverdue(k)
    /\ poll' = [poll EXCEPT ![k].pc = "lost"]
    /\ UNCHANGED <<registryVars, phase, jobs, op, pending, polling, remote, outcome, crashes>>

\* The job is given up, whatever is tracked under its key by now.
PollGiveUp(k) ==
    /\ AtPoll(k, "lost")
    /\ Emit("failed", k, poll[k].wanted)
    /\ poll' = [poll EXCEPT ![k].pc = "untrack"]
    /\ UNCHANGED <<registryVars, phase, jobs, op, pending, polling, remote, crashes>>

PollMissing(k) ==
    /\ AtPoll(k, "report")
    /\ poll[k].seen = "unknown"
    /\ ~MissingOverdue(k)
    /\ jobs' = MarkMissing(k)
    /\ poll' = [poll EXCEPT ![k] = Nil]
    /\ UNCHANGED <<registryVars, phase, op, pending, polling, remote, outcome, crashes>>

PollRunning(k) ==
    /\ AtPoll(k, "report")
    /\ poll[k].seen = "running"
    /\ jobs' = ClearMissing(k)
    /\ poll' = [poll EXCEPT ![k] = Nil]
    /\ UNCHANGED <<registryVars, phase, op, pending, polling, remote, outcome, crashes>>

PollUntrack(k) ==
    /\ AtPoll(k, "untrack")
    /\ jobs' = Untrack(k[1], k[2])
    /\ poll' = [poll EXCEPT ![k] = Nil]
    /\ outcome' = [outcome EXCEPT ![k] = Nil]
    /\ UNCHANGED <<registryVars, phase, op, pending, polling, remote, crashes>>

\* Every task is done: Reap closes the round.
PollReap ==
    /\ polling
    /\ \A k \in Keys : poll[k] = Nil
    /\ Reap(Busy)
    /\ polling' = FALSE
    /\ UNCHANGED <<phase, jobs, op, pending, poll, remote, outcome, crashes>>

\* lostAfter passes since missingSince.
Elapse(k) ==
    /\ jobs[k] # Nil
    /\ jobs[k].missing = "recent"
    /\ jobs' = [jobs EXCEPT ![k].missing = "overdue"]
    /\ UNCHANGED <<registryVars, phase, op, pending, polling, poll, remote, outcome, crashes>>

-----------------------------------------------------------------------------
(* Process lifetime. *)

\* One adoption per environment client, before anything is served.
BootPending == [id \in Ids |-> IF id \in EnvIds THEN 1 ELSE 0]

Init ==
    /\ RegistryInit
    /\ phase = "boot"
    /\ jobs = [k \in Keys |-> Nil]
    /\ op = [p \in Procs |-> Idle]
    /\ pending = BootPending
    /\ polling = FALSE
    /\ poll = [k \in Keys |-> Nil]
    /\ remote = [e \in Endpoints |-> [j \in JobIds |-> "fresh"]]
    /\ outcome = [k \in Keys |-> Nil]
    /\ crashes = 0

\* adoptExisting is done: the poll loop and the HTTP server start.
Serve ==
    /\ phase = "boot"
    /\ \A id \in Ids : pending[id] = 0
    /\ \A p \in Procs : op[p] = Idle
    /\ phase' = "serving"
    /\ UNCHANGED <<registryVars, jobs, op, pending, polling, poll, remote, outcome, crashes>>

\* The process dies at any point and starts again with nothing but its
\* environment; the clients keep their jobs.
Crash ==
    /\ crashes < MaxCrashes
    /\ crashes' = crashes + 1
    /\ clients' = BootClients
    /\ leases' = [id \in Ids |-> 0]
    /\ revision' = 0
    /\ phase' = "boot"
    /\ jobs' = [k \in Keys |-> Nil]
    /\ op' = [p \in Procs |-> Idle]
    /\ pending' = BootPending
    /\ polling' = FALSE
    /\ poll' = [k \in Keys |-> Nil]
    /\ outcome' = [k \in Keys |-> Nil]
    /\ UNCHANGED remote

-----------------------------------------------------------------------------

AddStep(p) ==
    \/ \E id \in Ids, w \in WantedItem : AddBegin(p, id, w)
    \/ \E j \in JobIds : AddCall(p, j) \/ AddLost(p, j)
    \/ AddFail(p) \/ AddTrack(p) \/ AddStarted(p)

RemoveStep(p) ==
    \/ \E id \in Ids, j \in JobIds : RemoveBegin(p, id, j)
    \/ RemoveCall(p) \/ RemoveFail(p) \/ RemoveUntrack(p)

AdoptStep(p) ==
    \/ \E id \in Ids : AdoptBegin(p, id)
    \/ AdoptList(p) \/ AdoptFail(p) \/ AdoptDone(p)
    \/ \E j \in JobIds : AdoptTrack(p, j)

PollStep(k) ==
    \/ PollGet(k) \/ PollDrop(k) \/ PollDescribe(k) \/ PollError(k)
    \/ PollEnded(k) \/ PollLost(k) \/ PollGiveUp(k)
    \/ PollMissing(k) \/ PollRunning(k) \/ PollUntrack(k)

Next ==
    \/ \E p \in Procs : AddStep(p) \/ RemoveStep(p) \/ AdoptStep(p)
    \/ \E rev \in Revisions, push \in Pushes : ConfigApply(rev, push)
    \/ \E id \in Ids : AdoptSkip(id)
    \/ \E k \in Keys : PollStep(k) \/ Elapse(k)
    \/ PollSnapshot \/ PollReap
    \/ \E e \in Endpoints, j \in JobIds : RemoteFinish(e, j) \/ RemoteVanish(e, j)
    \/ Serve \/ Crash

Spec == Init /\ [][Next]_vars

\* A request or adoption that has begun goes on to its end: its calls to a
\* client return, if only with a timeout.
Proceed(p) ==
    \/ \E j \in JobIds : AddCall(p, j) \/ AddLost(p, j) \/ AdoptTrack(p, j)
    \/ AddFail(p) \/ AddTrack(p) \/ AddStarted(p)
    \/ AdoptList(p) \/ AdoptFail(p) \/ AdoptDone(p)

\* Booting ends; then the poll loop's next round, a step of one of its tasks
\* (PollDescribe, which needs the client, apart) or its Reap.
PollLoop ==
    \/ Serve \/ PollSnapshot \/ PollReap
    \/ \E k \in Keys :
           \/ PollGet(k) \/ PollDrop(k) \/ PollEnded(k) \/ PollLost(k) \/ PollGiveUp(k)
           \/ PollMissing(k) \/ PollRunning(k) \/ PollUntrack(k)

\* An adoption that was started runs when there is a goroutine slot for it.
AdoptStart == \E id \in Ids : AdoptSkip(id) \/ \E p \in Procs : AdoptBegin(p, id)

\* Goroutines are scheduled, the ticker keeps firing, the grace window passes.
\* Of the clients: a client that is asked again and again answers at last, and a
\* running download ends.
Fairness ==
    /\ WF_vars(PollLoop) /\ WF_vars(AdoptStart)
    /\ \A k \in Keys : SF_vars(PollDescribe(k)) /\ WF_vars(Elapse(k))
    /\ \A p \in Procs : WF_vars(Proceed(p))
    /\ \A e \in Endpoints, j \in JobIds : WF_vars(RemoteFinish(e, j))

FairSpec == Spec /\ Fairness

-----------------------------------------------------------------------------
(* What makes the gateway correct. *)

\* The goroutines that hold a lease on id.
Holders(id) == {p \in Procs : op[p].pc \in LeasePC /\ op[p].id = id}

\* Every lease is held by exactly one add or adoption in flight: none leaks on
\* an error path and none is released twice (Registry.Lease, handleAdd, adopt).
LeasesMatchHolders == \A id \in Ids : leases[id] = Cardinality(Holders(id))

\* A tracked job's client is registered, so the job keeps being polled until it
\* ends or is lost.  Config pushes and Reap race with adds and adoptions that
\* have reached the client and not yet tracked the job; the lease closes that
\* window (main.go:265, registry.go:305 and 333).
TrackedHasClient == \A id \in Ids, j \in JobIds : jobs[<<id, j>>] # Nil => Registered(id)

\* Environment clients can be neither replaced, drained nor removed by any
\* sequence of pushes and reaps (registry.go:277, 302, 333).
EnvClientsFixed == \A id \in EnvIds : clients[id] = EnvEntry(id)

\* A client in use stays registered: the lease an add or an adoption took still
\* names a client.
HoldersHaveClient == \A p \in Procs : op[p].pc \in LeasePC => Registered(op[p].id)

\* The inductive invariant behind TrackedHasClient: a tracked job's client
\* survives because jobs and leases keep it, a job is tracked under a lease, and
\* the lease counts are exact.
LeaseInv ==
    /\ TypeOK
    /\ LeasesMatchHolders
    /\ HoldersHaveClient
    /\ TrackedHasClient

\* A DELETE of k is answered 204 in this step.
Deleted(k) ==
    \E p \in Procs : op[p].pc = "removed" /\ <<op[p].id, op[p].job>> = k /\ op'[p] = Idle

\* The terminal event of the poll task of k.
TaskOutcome(k) ==
    [kind |-> IF poll[k].seen = "unknown" THEN "failed" ELSE poll[k].seen, wanted |-> poll[k].wanted]

\* How a job may stop being tracked while the process lives.  A DELETE of it is
\* answered, or the poll task that forgets it has told its end; a client that said
\* the job ended was right, so that untracking by key (main.go:509) never hits a
\* download that goes on, however stale the snapshot.  One way is silent: a task
\* that found no client drops what was tracked under its key since, and that is an
\* adopted job: "Adds lease their client, so only a job adopted in a race with the
\* client's removal can land here" (main.go:580).
NoSilentLoss ==
    [][\A k \in Keys :
        jobs[k] # Nil /\ jobs'[k] = Nil =>
            \/ Deleted(k)
            \/ /\ AtPoll(k, "untrack")
               /\ outcome[k] = TaskOutcome(k)
               /\ poll[k].seen # "unknown" => RemoteJob(poll[k].spec, k[2]) # "running"
            \/ AtPoll(k, "drop") /\ jobs[k].wanted = Nil
            \/ crashes' # crashes]_vars

\* What a restart brings back: when the adoption of a client at boot ends without
\* an error, every download that runs in the client is tracked, the one whose add
\* was cut off before track among them (adoptExisting, "without this an in-flight
\* download is orphaned", main.go:717).
RestartAdopts ==
    [][\A p \in Procs, j \in JobIds :
        /\ phase = "boot" /\ op[p].pc = "adopted"
        /\ op'[p] = Idle /\ crashes' = crashes
        /\ RemoteJob(op[p].spec, j) = "running"
        => jobs[<<op[p].id, j>>] # Nil]_vars

\* While a job stays tracked its wanted item is never lost or exchanged, however
\* often its client is replaced and re-adopted (trackIfAbsent, main.go:495).
WantedKept ==
    [][\A k \in Keys :
        jobs[k] # Nil /\ jobs'[k] # Nil /\ jobs[k].wanted # Nil
            => jobs'[k].wanted = jobs[k].wanted]_vars

\* The job has ended wherever it ran, and no record, poll or request in flight
\* knows it any more.
Settled(k) ==
    /\ jobs[k] = Nil
    /\ poll[k] = Nil
    /\ \A e \in Endpoints : remote[e][k[2]] \notin {"fresh", "running"}
    /\ \A p \in Procs :
           /\ op[p].pc \in {"accepted", "tracked"} => op[p].job # k[2]
           /\ op[p].pc = "adopted" => k[2] \notin op[p].found

\* A job that is over and forgotten stays so: no push, adoption or restart that
\* lists its client from then on tracks it again and replays its terminal event
\* (adopt, "do not replay its event" at qbittorrent.go:474).  An adoption that
\* listed the job before it ended may still do so; such a job is not settled.
SettledStays ==
    [][\A k \in Keys :
        Settled(k) => Settled(k)']_vars

Draining(id) == Registered(id) /\ clients[id].draining

\* A client that a push removed while it was in use does not drain forever: once
\* its downloads have ended the poll loop drops it, unless a later push takes it
\* back (pollAll, Reap).
DrainingEnds == \A id \in Ids \ EnvIds : Draining(id) ~> ~Draining(id)

\* A tracked job that has ended in its client, or that the client does not know
\* any more, is not tracked forever (pollOne, lostAfter).
EndedJobLeaves ==
    \A id \in Ids, j \in JobIds :
        /\ jobs[<<id, j>>] # Nil
        /\ Registered(id)
        /\ RemoteJob(clients[id].spec, j) \in {"completed", "failed", "gone"}
        ~> jobs[<<id, j>>] = Nil

-----------------------------------------------------------------------------
(* What the registry's leases and the job table come to.                     *)

StageOf(id) ==
    IF Registered(id) THEN IF clients[id].draining THEN "draining" ELSE "open"
                      ELSE "absent"

\* The goroutines that lease a client and the jobs that are tracked on it.
UsersOf(id) ==
    {<<"proc", p>> : p \in Holders(id)}
    \cup {<<"job", j>> : j \in {i \in JobIds : jobs[<<id, i>>] # Nil}}

Life == INSTANCE ClientLife WITH
    Calls <- {<<"proc", p>> : p \in Procs},
    Jobs  <- {<<"job", j>> : j \in JobIds},
    stage <- [id \in Ids |-> StageOf(id)],
    users <- [id \in Ids |-> UsersOf(id)]

\* Lease counts, hasJobs and Reap implement the life of a client as its users
\* see it: only an open client takes an add or an adoption, a draining one at most
\* the jobs of those it already has; one in use is never dropped by a push or by
\* Reap, and a sweep drops every removed one that is not (Registry.Lease, Apply,
\* Reap; handleAdd, adopt).
ImplementsClientLife == Life!Spec

-----------------------------------------------------------------------------
(* A statement of the repository's README that does not hold.                *)

\* "wanted_item_id is stamped onto the job and echoed on the completed event"
\* (README.md:96): the completed event of a job that is tracked with a wanted
\* item carries it.
CompletedEchoesWanted ==
    [][\A k \in Keys :
        /\ outcome'[k] # outcome[k]
        /\ outcome'[k] = [kind |-> "completed", wanted |-> Nil]
        /\ jobs[k] # Nil
        => jobs[k].wanted = Nil]_vars

=============================================================================

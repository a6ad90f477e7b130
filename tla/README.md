# A TLA+ model of the download gateway

The gateway sits between an application that wants downloads (the *owner*, called
acquire in the code) and the download clients that carry them out. This
directory holds TLA+ modules that model its core, TLC configurations that check
them on small instances, and TLAPS proofs that hold for every instance.

## The system

| part | source | state it keeps | operations |
|---|---|---|---|
| client registry | `internal/adapters/registry.go` | clients by id, leases, revision | AddEnv, Get/Lookup, Lease/release, Apply, Reap |
| download handlers | `cmd/server/main.go` | tracked jobs | handleAdd, handleRemove, handleDescribe; list, pause, resume, status leave the state alone |
| poll loop | `cmd/server/main.go` | a snapshot per round, `missingSince` per job | pollLoop, pollAll, pollOne, markMissing, clearMissing |
| adoption | `cmd/server/main.go` | – | adoptExisting at boot, adopt after a push |
| configuration API | `cmd/server/config.go` | – (the registry's) | handleConfigApply, handleConfigClients, handleConfigTest |
| large-add budget | `cmd/server/main.go` | bytes in flight | admitAdd, release, decodeJSON |
| NZBGet adapter | `internal/adapters/nzbget.go` | none; NZBGet's queue and history | Add, Describe, Pause, Resume, Remove, Adopt |
| qBittorrent adapter | `internal/adapters/qbittorrent.go` | cookie jar | authed, login, Add, Describe, Remove, control, Adopt |
| oDownloader adapter | `internal/adapters/odownloader.go` | none; the daemon's packages of links | Add, Describe (foldODL), Remove |
| client settings | `internal/adapters/clients.go` | none | PrepareSpec, specHash |
| endpoint guard, response caps | `endpoint.go`, `responses.go` | none | dial check, redirect check, capped decoding |
| derived progress | `cmd/server/main.go` | a byte sample per job | observe, prevSample, fillDerived, optInt32 |
| publisher | `internal/events/events.go` | Kafka producer, closed flag | NewPublisher, emit, Ready, Close |
| process | `cmd/server/main.go` | stopping flag | main: boot, signal, Shutdown, Close |
| authentication | `internal/auth/oidc.go` | lazily discovered provider | ensure, Middleware |

A request handler is a goroutine. `handleAdd` leases its client, calls it, tracks
the job, emits `started` and releases the lease. A config push replaces the set
of pushed clients under the registry's lock, asks the gateway which clients still
have jobs, and starts one background adoption per new or changed client. The poll
loop takes a snapshot of the tracked jobs, asks each job's client about it (a
bounded number at a time), emits events, untracks what has ended, and lets the
registry drop removed clients that nothing needs any more. The registry's lock
and the gateway's are held for one operation at a time and never across a call to
a client, so everything between two operations may be stale.

What is hard here: the window between a client taking a job and the gateway
tracking it; polls that act on a snapshot; adoptions that race with adds; clients
that disappear, are replaced or come back under the same id; calls that fail after
they took effect; sessions that expire; emits whose errors nobody looks at; a
publisher that is closed while polls still run; nothing being persisted. `PROJECT.json`
lists these hazards, each at its line.

## The modules

**Registry** — `registry.go`. `clients`, `leases`, `revision`; `Lease`, `Release`,
`Apply`, `Reap` as operators, each atomic as its lock makes it. A spec stands for
the settings `PrepareSpec` accepts, identified by their hash; `Nil` for those it
refuses and for a malformed id. `Apply` is given per id: what the push's entries
for that id make of it, which is what the loop over the entries and the loop over
the registered clients come to.

**Gateway** — extends Registry. A goroutine slot in `op` runs an add, a delete or
an adoption, one action per critical section or client call; `poll` holds one task
per job of the round's snapshot, with the values of that snapshot. `remote` is the
download clients' side (external): each job is fresh, running, completed, failed
or gone. A client call may fail, and an add may fail after it took effect
(`AddLost`). `missing` abstracts `missingSince` to zero, within `lostAfter`, or
beyond it (`Elapse`). `outcome` is the terminal event that the poll task of a job has
handed to the publisher and that the task has yet to untrack for; it goes with the
task, so it says nothing of a later life of the key. What Describe sees (`Seen`) of a
running job may also be not-found, as of a torrent that is not listed yet, so the grace
window is started and cleared by live jobs too, and a job may be given up while it
runs. `Crash` loses everything but the environment. Which of its jobs a client lists
for adoption by their category is left to NZBGet and QBittorrent; here it lists all
that run. A failed download stays failed (resuming an errored torrent is in
QBittorrent only).
Handlers that only read are left out. `hasJobs` is read once per push here; the
code reads it per removed client, which differs only when two pushed clients
change at the same instant.

**ClientLife** — the abstract specification of a client as its users see it: absent,
open or draining, with a set of users, and no leases, locks or job table. Its users are
the adds and adoptions in flight (`Calls`) and the tracked downloads (`Jobs`). Only an
open client lets a call in (`Join`; 409 in the code for a draining one); a job comes
with a call that is already there (`Bring`), into a draining client too; a client in
use is never dropped, and a sweep drops every draining one that is not. Gateway implements it
with `StageOf` (a registry entry and its draining flag) and `UsersOf` (lease holders
and tracked jobs) as the refinement mapping.

**ConfigPush** — extends Registry with the owner's side: edit, read the revision,
push when it is not the owner's own; pushes may be lost, the gateway may restart,
and with `Overtaking` an old push may arrive after a newer one.

**NZBGet** — the adapter's calls against a queue and a history that move on between
them. Every call may fail, before or after it took effect.

**QBittorrent** — the request machinery `authed` (session held, login, 403 and
re-login, resend) shared by several callers and by several clients of one
instance, and the operations built from such requests. Resume starts a paused or an
errored torrent; of its own accord qBittorrent is taken never to start an errored one
again, nor to check a finished one again.

**Derived** — the rate and the ETA the gateway works out from two byte samples, and
the integer an event carries them in (`EtaBits` wide).

**ODownloader** — extends Derived. A package is a sequence of links that start,
pause, wait for a captcha, start over, end or are cancelled between two requests;
Describe folds one page of them: a byte sum, and a state from four flags over the
links. Add and Remove may take effect with their answer
lost. The poll's samples and progress events are there, because the byte counts of
links that start over are where derived figures could go wrong. The grace window is
the one of Gateway: `missing` has the packages that a poll did not find, and a later
poll gives them up; what handleDescribe sees does not count.

**Verifier** — `oidc.go` and the routes: the three deployments of the README's table,
the mutex that is held during discovery, tokens that are good or not and name their
client in either claim.

**AddBudget** — the reservation of a large add by its declared length, and the
bytes it then holds; the budget is a sum over the requests.

**Intake** — composes the two: a request goes through Verifier before its handler
may reserve budget and read a body, and its answer ends both.

**Delivery** — the publisher, the process and the caller. `phase` follows main from
boot over the signal and Shutdown to the deferred Close; requests and poll tasks run
on until the process ends. `Emit` loses an event when there are no brokers, when they
are down, or when the publisher is closed. The caller learns by reading the topics or
by describing; the not-found of a torrent that is not listed yet is left out. `dropped` and `overran` are history variables that only the
properties read. An emit through a closed producer loses the event here; that
sarama may panic instead ends a process that is about to exit anyway.

**MCGateway, MCConfigPush, MCQBittorrent, MCIntake** — constants for TLC. NZBGet,
ODownloader and Delivery are checked directly. Definitions marked "Mutant" are faulty variants of the
definition they precede; each checked property is violated when one of them takes
its place.

**GatewayProofs, SumTheorems, IntakeProofs, DeliveryProofs, ConfigPushProofs,
NZBGetProofs, QBittorrentProofs, ODownloaderProofs** — the theorems about the modules
they are named after, and about sums over finite sets.

## What the runs show

| run | bounds | result |
|---|---|---|
| `gateway_push` | 1 client id, 2 specs, 1 job, 2 goroutines, 1 poll slot | leases are exact (`LeasesMatchHolders`), a tracked job has its client (`TrackedHasClient`) and keeps its wanted item (`WantedKept`); it is forgotten only by a DELETE, by the poll task that told its end, or, if adopted, by a task that had found its client gone, as main.go:580 has it (`NoSilentLoss`) |
| `gateway_life` | an environment client and a pushed one, 2 jobs on 1 poll slot, 1 goroutine, 1 crash, fairness | `LeaseInv`; environment clients stay (`EnvClientsFixed`); an adoption at boot takes up every download that still runs (`RestartAdopts`); a job that is over and that nothing in flight knows is not tracked again (`SettledStays`; an adoption that listed the job before it ended may still track it after its event and replay that, and the property does not say otherwise); Gateway implements ClientLife (`ImplementsClientLife`); a removed client is dropped at last (`DrainingEnds`), an ended or vanished job leaves (`EndedJobLeaves`) |
| `config_inorder` | 2 edits, pushes of 2 entries, 1 restart, lost pushes, fairness | the reported revision tells the truth (`RevisionTells`); the configuration converges (`Converges`) |
| `nzbget` | 2 callers, 2 jobs | an outage is never taken for an absent job (`NotFoundIsTrue`), a reported outcome is final (`OutcomeIsFinal`), ended jobs are not adopted (`NoReplay`) |
| `qbittorrent` | 2 callers of 1 client, 1 job, fairness | an add is carried out at most once (`AddedOnce`), every operation is answered (`CallsEnd`), a torrent reported as completed, or as failed and not resumed since, is not adopted (`NoReplay`) |
| `odownloader` | 1 package of up to 3 links of 2 bytes, a page of 2, a 2-bit ETA, fairness | completed means every link of the page (`CompletedIsAll`), an outcome is final unless a link had not started (`OutcomeIsFinal`), a package whose links are over is untracked (`TellsAtLast`), a removed package is gone (`RemovedIsGone`), speed and ETA are sane up to the ETA's width (`ProgressSane`) |
| `intake` | 3 requests, 4 kinds of token and none, all 3 deployments, lengths up to 2 with cap 1, fairness | handlers run only for admitted callers (`HandlersAuthorised`), large bodies stay within the budget (`MemoryBounded`), nothing leaks it (`BudgetExact`), two of the largest fit (`TwoLargestFit`); every request is answered, unless a discovery never ends or the request's own keys or body never come (`EveryRequestAnswered`) |
| `delivery` | 1 job, 3 stops or crashes, brokers absent or changing, fairness | an accepted add was announced (`AcceptedIsAnnounced`), outcomes are published while process and brokers are up (`OutcomeDelivered`), and otherwise learned by asking (`OutcomeLearned`) |

Four runs end in a counterexample to a statement of the code's own comments or of
the repository's README; `PROJECT.json` quotes them under "findings".

- `gateway_echo`: a completed event can miss the wanted item its job was added
  with (`README.md:96`), when a push's adoption tracks the job first.
- `config_overtake`: the revision can be the owner's while an older push is in
  effect (`registry.go:235`), since Apply does not compare revisions.
- `nzbget_remove`: Remove can succeed with the job still in NZBGet
  (`nzbget.go:444`), since editqueue's bool is ignored.
- `qbittorrent_remove`: Remove can succeed for a torrent that is only not listed
  yet (`qbittorrent.go:295`).

**Bounds.** One client id with two specs gives every transition of an entry (new,
replaced, unchanged, draining, taken back, dropped); the second id of
`gateway_life` adds the environment source, and `config_inorder` entries that
interfere within a push. Two goroutines (`gateway_push`) give every pair of handlers racing on one job, with the poll
loop as the third party. A second job matters only for the poll's slots (one job
per client in `gateway_life`) and for NZBGet's second caller. Three links are one more
than a page, and two are every pair of link states. Three requests are one more than
the budget holds; with a cap of 1 every class of length occurs (small, large, beyond
the cap, unknown). In Delivery jobs meet only in the poll round, which Gateway covers,
so one job is enough; three stops let a graceful one, a crash and another of either
follow each other. A 2-bit ETA reaches its limit with the bytes of two links; the
formula is the same for 32. `MaxPending` bounds adoptions
waiting to run, `MaxCrashes`, `MaxRestarts`, `MaxStops` and `MaxEdits` the faults and edits,
`MaxPush` the entries of a push, `MaxLength` a declared body. Symmetry over
goroutines and jobs is used only in the safety run `gateway_push`.

**Fairness.** The ticker fires and goroutines are scheduled, so poll rounds start
and tasks go on (weak fairness of `PollLoop`, a round being finite, and of
`AdoptStart`); every client call has a timeout (30 s for NZBGet and qBittorrent,
20 s for oDownloader, 15 s on Describe and Adopt), so a begun request or adoption
ends; time passes (`Elapse`). Two assumptions concern the clients and not the
code: a client that is asked again and again answers at last (strong fairness of
`PollDescribe`), and a running download ends. `ConfigPush` assumes an owner that
keeps reading the revision and a network that delivers a push sent again and
again. In Intake a goroutine that waits for the verifier's mutex gets it (Go's mutex
hands itself to a waiter that starves), and handleAdd ends once it has its body. Nothing
is assumed of discovery and of the fetch of keys, which have no deadline (`oidc.go:93`),
nor of bodies, since the server times out headers only (`main.go:133`):
`EveryRequestAnswered` says what is left, that a discovery which fails holds up nobody
and one request's body no other request. Delivery assumes a
supervisor that restarts the process, brokers that come back, and a caller that asks
again. A run of Delivery may stop once its jobs are over and its stops used up, so
only there deadlock is not checked. Nothing is assumed of new requests, pushes or expiring sessions.

## What is proved

Every safety property of the passing runs, invariants and action properties, and the
refinement of ClientLife are theorems too: they hold for every value of the constants,
from the assumptions of the modules, which TLC evaluates in the runs. Each module's
argument rests on an inductive invariant, stronger than what it is for.

**GatewayProofs** (any ids, specs, instances, jobs and goroutines; needs
`RegistryAssumption` and `GatewayAssumption`).

- `TypeCorrect`; `LeaseInvariant`, and from it `TrackedJobsHaveClients` and
  `LeasesExact`. `TrackedHasClient` is not inductive: a push may remove a client in
  the step before an add tracks its job. What excludes this is that the client is kept
  by the add's lease. So `LeaseInv` adds that whoever holds a lease has a registered
  client (`HoldersHaveClient`), which in turn needs the counts to be exact
  (`LeasesMatchHolders`): a count below the number of holders would let Apply or Reap
  drop a client under one of them. With exact counts, a client in use is at most set
  draining by Apply and is not touched by Reap. The counting rests on two lemmas about
  the cardinality of `Holders` when a goroutine joins or leaves it.
- `EnvClientsStay`: environment clients are never touched.
- `NothingLostSilently`, with the hypothesis `[]DistinctJobs` explained below. Besides
  `WantedInv` it needs `PollInv`, which says what a poll task may rely on however old
  its snapshot is: what a client told it of an end is still so, what it is about to
  untrack it has told of, and if it found no client, then no add has tracked its key
  since. The last part is why the silent branch of pollOne hits adopted jobs only: an
  add's job id was fresh when the client took it, so the key is in no snapshot older
  than that, and from then until the job is tracked the add's lease keeps the client.
- `RunningJobsReadopted`: with `BootInv`, an adoption at boot that has listed its client
  has each download which still runs there yet to track or has tracked it, since
  nothing is served or polled before it is done.
- `SettledForGood`: needs no invariant beyond the types. What a settled job would need
  to come back is a goroutine that knows it or a client that lists it as running.
- `WantedItemsKept`: with `WantedInv`, the job an add is about to track is its own.
  The theorem has a hypothesis, `[]DistinctJobs`: no two instances give out the same
  job id. It is needed. With two instances behind one client id, TLC finds two adds, one
  before and one after the id is repointed, that get the same job id, and the second
  replaces the wanted item of the first. A single instance satisfies it trivially, as
  in the runs; qBittorrent's random tags satisfy it in practice; two NZBGets, which
  both count from 1, do not.
- `ClientLifeImplemented`: Init maps to Init, and each action to a step of ClientLife
  or to a stutter. A push maps to one abstract step for all ids at once; `LeaseInv`
  gives that the entries it drops have no users, and that a job which is tracked comes
  with a lease holder that is among the users (`Bring`).

**SumTheorems, IntakeProofs** (any number of requests, any cap, any tokens). The budget
is a sum over the adds in flight, by `SumFunction` of the community modules, which is a
recursion over subsets. SumTheorems shows that this recursion has exactly one solution
and how a sum changes with one summand, each by taking a smallest subset for which it
fails. With these, `BudgetInv` is inductive: the counter is the sum of the
reservations, it is within the budget, and an add that may read a large body has
reserved that much. `CounterExact`, `LargeBodiesFit` and `TwoLargestAdmitted` follow.
`OnlyAuthorisedHandled` needs `AdmissionInv`: a request that waits for the verifier
passed the router and has a bearer.

**DeliveryProofs** (any number of jobs and stops). `AcceptedAnnounced` rests on
`DeliveryInv`: the publisher is closed only when no request is left or Shutdown gave up
on them (`ClosedIsQuiet`), so a request that emits finds it open.

**ConfigPushProofs** (any clients, settings, edits and restarts).
`RevisionTellsTheTruth` assumes `Overtaking = FALSE`, the owner that settles one push
before it sends another; with `TRUE` it is false (`config_overtake`). `RevisionTells`
alone is not inductive: a push with an error changes clients and keeps the revision.
`PushesNewer` has the push on its way newer than what the gateway reports, so the
reported revision is then not the owner's.

**NZBGetProofs** (any callers and jobs). `NotFoundHolds`, `OutcomeHolds` and
`NothingReplayed`, from `DescribeInv`: a caller that did not find its job in the queue
reads the history only once the job has left the queue for good. This is why Describe
reads the queue first.

**QBittorrentProofs** (any clients, callers and jobs). `AddedAtMostOnce` and
`NothingReplayed`, from `CallInv`: as long as an add is under way its torrent is not
there, and no other add has its tag (`TagsFresh`), so the resend after a 403 never
repeats an add that was taken; and a torrent that was reported as completed seeds until
it is deleted (`ToldTrue`).

**ODownloaderProofs** (any packages, links, page size and ETA width).
`CompletedMeansAll` and `OutcomeHolds`, from `OutcomeKept`: the page an outcome was
folded from does not move any more; `RemovedStaysGone`; `ProgressIsSane`, with lemmas
about `FillDerived` and the narrowing to `EtaBits` bits. That `2^EtaBits` doubles with
each bit is shown by counting subsets, and `TypeCorrect` uses the sums of SumTheorems.

Proving changed how three things are written. The refinement proof showed that two guards
of the CASE in `StageOf` overlapped: TLC takes the first that holds, TLA+ leaves the
choice open; it is a nested IF now. The flags of foldODL were a recursion over the
links and are the quantifiers they come to. The sums of foldODL and of AddBudget are
`SumFunction`s, so that SumTheorems speaks of them.

Only model-checked: the liveness properties `DrainingEnds`, `EndedJobLeaves`,
`Converges`, `CallsEnd`, `EveryRequestAnswered`, `TellsAtLast`, `OutcomeLearned` and
`OutcomeDelivered`, since fairness and ENABLED are out of the prover's reach. The
statements that the four violation runs refute have no theorem, of course.

## What is not modelled

Handlers that only read (list, client status, config types), ClientStatus, Probe and
handleConfigTest, which builds a client it throws away: they change no state. URL,
address and header rules (`PrepareSpec`'s field checks, `endpoint.go`,
`responses.go`, payload file names): pure functions of one input. The Kafka producer
below `SendMessage`, TLS material, token verification and the HTTP server: libraries
and configuration. The jDownloader adapter is a stub that nothing builds. Outside the
present runs, each listed as a hazard: reuse of job ids by a client (NZBGet after it
lost its history), repointing a client id at another instance while its jobs are
tracked, and several clients on one qBittorrent; the code promises nothing for the
first two beyond what the README says of job ids.

## Plan

1. *(done)* Registry, Gateway, their safety and liveness runs, the lease proof;
   ConfigPush; NZBGet; QBittorrent; AddBudget.
2. *(done)* ODownloader and Derived; Verifier and Intake; Delivery; ClientLife and the
   refinement.
3. *(done)* Proofs of every safety property of the passing runs and of the refinement.
4. Several clients on one qBittorrent (`NoReplay` is proved for them already), two
   instances per client id (`EndpointOf`) and reuse of job ids: what is still true of a
   job that is polled on the wrong instance, stated and proved. ConfigPush as a
   refinement of an abstract owner's view of the configuration.

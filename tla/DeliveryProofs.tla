----------------------------- MODULE DeliveryProofs -----------------------------
(***************************************************************************)
(* Proofs about Delivery, for every set of jobs and any number of stops.   *)
(***************************************************************************)
EXTENDS Delivery, TLAPS

-----------------------------------------------------------------------------
(* The invariant. *)

\* A job that a request is about or that its caller knows is one the client took.
RequestsHaveJobs ==
    \A j \in Jobs : http[j] # "none" \/ knows[j] # "nothing" => client[j] # "none"

\* The publisher is closed only once no request is left or Shutdown gave up on
\* those that were, and no new one is taken from then on (main).
ClosedIsQuiet ==
    /\ closed => phase \in {"closing", "down"}
    /\ phase = "closing" => InFlight = {} \/ overran
    /\ phase = "down" => InFlight = {}

Announced(j) == <<"started", j>> \in log \cup dropped \/ overran

\* A request that has emitted, and one about a job that was accepted, is about a
\* job that was announced.
EmittedIsAnnounced == \A j \in Jobs : http[j] \in {"emitted", "asked"} => Announced(j)

DeliveryInv ==
    /\ TypeOK
    /\ RequestsHaveJobs
    /\ ClosedIsQuiet
    /\ EmittedIsAnnounced
    /\ AcceptedIsAnnounced

\* Only events are added to what the brokers took or missed, and an open publisher
\* leaves the event in one of the two (emit).
LEMMA EmitAdds ==
    ASSUME TypeOK, NEW kind \in Events, NEW j \in Jobs, Emit(kind, j)
    PROVE  /\ log' \subseteq Events \X Jobs /\ dropped' \subseteq Events \X Jobs
           /\ log \subseteq log' /\ dropped \subseteq dropped'
           /\ ~closed => <<kind, j>> \in log' \cup dropped'
BY DEF TypeOK, Emit

\* What was announced stays announced.
LEMMA AnnouncedStays ==
    ASSUME log \subseteq log', dropped \subseteq dropped', overran => overran'
    PROVE  \A j : Announced(j) => Announced(j)'
BY DEF Announced

-----------------------------------------------------------------------------
(* Its preservation. *)

\* Starting, stopping and killing the process (main).
LEMMA ProcessKeeps ==
    ASSUME DeliveryInv,
           \/ \E adopted \in SUBSET Jobs : Boot(adopted)
           \/ Signal \/ Shutdown \/ Close \/ Exit \/ Kill
    PROVE  DeliveryInv'
<1> USE DEF DeliveryInv
<1>1. ASSUME NEW adopted \in SUBSET Jobs, Boot(adopted) PROVE DeliveryInv'
  <2>1. TypeOK'
    BY <1>1 DEF TypeOK, Boot
  <2> QED
    BY <1>1, <2>1 DEF TypeOK, Boot, Running, RequestsHaveJobs, ClosedIsQuiet, InFlight,
                      EmittedIsAnnounced, AcceptedIsAnnounced, Announced
<1>2. ASSUME Signal PROVE DeliveryInv'
  <2>1. TypeOK'
    BY <1>2, DeliveryAssumption DEF TypeOK, Signal
  <2> QED
    BY <1>2, <2>1 DEF TypeOK, Signal, RequestsHaveJobs, ClosedIsQuiet, InFlight,
                      EmittedIsAnnounced, AcceptedIsAnnounced, Announced
<1>3. ASSUME Shutdown PROVE DeliveryInv'
  <2>1. TypeOK'
    BY <1>3 DEF TypeOK, Shutdown
  <2>2. ClosedIsQuiet'
    BY <1>3 DEF TypeOK, Shutdown, ClosedIsQuiet, InFlight
  <2> QED
    BY <1>3, <2>1, <2>2 DEF TypeOK, Shutdown, RequestsHaveJobs, EmittedIsAnnounced,
                            AcceptedIsAnnounced, Announced
<1>4. ASSUME Close PROVE DeliveryInv'
  <2>1. TypeOK'
    BY <1>4 DEF TypeOK, Close
  <2> QED
    BY <1>4, <2>1 DEF Close, RequestsHaveJobs, ClosedIsQuiet, InFlight,
                      EmittedIsAnnounced, AcceptedIsAnnounced, Announced
<1>5. ASSUME Die, stops' \in 0 .. MaxStops PROVE DeliveryInv'
  <2>1. TypeOK'
    BY <1>5 DEF TypeOK, Die, Idle
  <2> QED
    BY <1>5, <2>1 DEF TypeOK, Die, Idle, RequestsHaveJobs, ClosedIsQuiet, InFlight,
                      EmittedIsAnnounced, AcceptedIsAnnounced, Announced
<1>6. ASSUME Exit \/ Kill PROVE stops' \in 0 .. MaxStops
  BY <1>6, DeliveryAssumption DEF TypeOK, Exit, Kill
<1> QED
  BY <1>1, <1>2, <1>3, <1>4, <1>5, <1>6 DEF Exit, Kill

\* The requests (handleAdd, handleDescribe).
LEMMA RequestKeeps ==
    ASSUME DeliveryInv, NEW j \in Jobs, AddCall(j) \/ Ask(j) \/ Request(j)
    PROVE  DeliveryInv'
<1> USE DEF DeliveryInv
<1>1. ASSUME AddCall(j) PROVE DeliveryInv'
  <2>1. TypeOK'
    BY <1>1 DEF TypeOK, AddCall, Job, Http
  <2>2. RequestsHaveJobs' /\ ClosedIsQuiet'
    BY <1>1 DEF TypeOK, AddCall, Job, Http, RequestsHaveJobs, ClosedIsQuiet, InFlight
  <2> QED
    BY <1>1, <2>1, <2>2 DEF TypeOK, AddCall, Http, EmittedIsAnnounced, AcceptedIsAnnounced,
                            Announced
<1>2. ASSUME AddTrack(j) PROVE DeliveryInv'
  <2>1. TypeOK'
    BY <1>2 DEF TypeOK, AddTrack, Http, RequestsHaveJobs
  <2>2. RequestsHaveJobs' /\ ClosedIsQuiet'
    BY <1>2 DEF TypeOK, AddTrack, Http, RequestsHaveJobs, ClosedIsQuiet, InFlight
  <2> QED
    BY <1>2, <2>1, <2>2 DEF TypeOK, AddTrack, Http, EmittedIsAnnounced, AcceptedIsAnnounced,
                            Announced
<1>3. ASSUME AddEmit(j) PROVE DeliveryInv'
  <2>1. /\ log' \subseteq Events \X Jobs /\ dropped' \subseteq Events \X Jobs
        /\ log \subseteq log' /\ dropped \subseteq dropped'
        /\ ~closed => <<"started", j>> \in log' \cup dropped'
    <3>1. "started" \in Events
      BY DEF Events
    <3> QED
      BY <1>3, <3>1, EmitAdds DEF AddEmit
  <2>2. closed => overran
    BY <1>3 DEF AddEmit, ClosedIsQuiet, InFlight
  <2>3. Announced(j)'
    BY <1>3, <2>1, <2>2 DEF Announced, AddEmit
  <2>4. \A i : Announced(i) => Announced(i)'
    BY <1>3, <2>1, AnnouncedStays DEF AddEmit
  <2>5. TypeOK'
    BY <1>3, <2>1 DEF TypeOK, AddEmit, Http
  <2>6. RequestsHaveJobs' /\ ClosedIsQuiet'
    BY <1>3 DEF TypeOK, AddEmit, Http, RequestsHaveJobs, ClosedIsQuiet, InFlight
  <2>7. EmittedIsAnnounced'
    BY <1>3, <2>3, <2>4 DEF TypeOK, AddEmit, Http, EmittedIsAnnounced
  <2>8. AcceptedIsAnnounced'
    BY <1>3, <2>4 DEF AddEmit, AcceptedIsAnnounced, Announced
  <2> QED
    BY <2>5, <2>6, <2>7, <2>8
<1>4. ASSUME AddAnswer(j) PROVE DeliveryInv'
  <2>1. TypeOK'
    BY <1>4 DEF TypeOK, AddAnswer, Http, Learn
  <2>2. RequestsHaveJobs' /\ ClosedIsQuiet'
    BY <1>4 DEF TypeOK, AddAnswer, Http, Learn, RequestsHaveJobs, ClosedIsQuiet, InFlight
  <2>3. EmittedIsAnnounced'
    BY <1>4 DEF TypeOK, AddAnswer, Http, EmittedIsAnnounced, Announced
  <2>4. AcceptedIsAnnounced'
    BY <1>4 DEF TypeOK, AddAnswer, Learn, EmittedIsAnnounced, AcceptedIsAnnounced, Announced
  <2> QED
    BY <2>1, <2>2, <2>3, <2>4
<1>5. ASSUME Ask(j) PROVE DeliveryInv'
  <2>1. TypeOK'
    BY <1>5 DEF TypeOK, Ask, Http
  <2>2. RequestsHaveJobs' /\ ClosedIsQuiet'
    BY <1>5 DEF TypeOK, Ask, Http, RequestsHaveJobs, ClosedIsQuiet, InFlight
  <2>3. EmittedIsAnnounced'
    BY <1>5 DEF TypeOK, Ask, Http, EmittedIsAnnounced, AcceptedIsAnnounced, Announced
  <2>4. AcceptedIsAnnounced'
    BY <1>5 DEF Ask, AcceptedIsAnnounced
  <2> QED
    BY <2>1, <2>2, <2>3, <2>4
<1>6. ASSUME Describe(j) \/ DescribeFail(j) PROVE DeliveryInv'
  <2>1. http[j] = "asked" /\ client[j] # "none"
    BY <1>6 DEF Describe, DescribeFail, RequestsHaveJobs
  <2>2. TypeOK'
    BY <1>6, <2>1 DEF TypeOK, Describe, DescribeFail, Http
  <2>3. RequestsHaveJobs' /\ ClosedIsQuiet'
    BY <1>6, <2>1 DEF TypeOK, Describe, DescribeFail, Http, RequestsHaveJobs, ClosedIsQuiet,
                      InFlight
  <2>4. EmittedIsAnnounced'
    BY <1>6 DEF TypeOK, Describe, DescribeFail, Http, EmittedIsAnnounced, Announced
  <2>5. AcceptedIsAnnounced'
    BY <1>6, <2>1 DEF TypeOK, Describe, DescribeFail, EmittedIsAnnounced, AcceptedIsAnnounced,
                      Announced
  <2> QED
    BY <2>2, <2>3, <2>4, <2>5
<1> QED
  BY <1>1, <1>2, <1>3, <1>4, <1>5, <1>6 DEF Request

\* The poll loop touches neither the requests nor what the caller knows.
LEMMA PollKeeps ==
    ASSUME DeliveryInv, PollAll \/ \E j \in Jobs : PollTask(j)
    PROVE  DeliveryInv'
<1> USE DEF DeliveryInv
<1>1. ASSUME UNCHANGED <<phase, closed, client, http, knows, overran>>,
             log \subseteq log', dropped \subseteq dropped'
      PROVE  RequestsHaveJobs' /\ ClosedIsQuiet' /\ EmittedIsAnnounced' /\ AcceptedIsAnnounced'
  BY <1>1 DEF RequestsHaveJobs, ClosedIsQuiet, InFlight, EmittedIsAnnounced,
              AcceptedIsAnnounced, Announced
<1>2. ASSUME PollAll PROVE DeliveryInv'
  <2>1. TypeOK'
    BY <1>2 DEF TypeOK, PollAll
  <2> QED
    BY <1>1, <1>2, <2>1 DEF PollAll
<1>3. ASSUME NEW j \in Jobs, PollEnded(j) \/ PollLater(j) \/ PollUntrack(j) PROVE DeliveryInv'
  <2>1. TypeOK'
    BY <1>3 DEF TypeOK, PollEnded, PollLater, PollUntrack, Task
  <2> QED
    BY <1>1, <1>3, <2>1 DEF PollEnded, PollLater, PollUntrack
<1>4. ASSUME NEW j \in Jobs, PollEmit(j) PROVE DeliveryInv'
  <2>1. /\ log' \subseteq Events \X Jobs /\ dropped' \subseteq Events \X Jobs
        /\ log \subseteq log' /\ dropped \subseteq dropped'
    <3>1. (IF client[j] = "completed" THEN "completed" ELSE "failed") \in Events
      BY DEF Events, Ends
    <3> QED
      BY <1>4, <3>1, EmitAdds DEF PollEmit
  <2>2. TypeOK'
    BY <1>4, <2>1 DEF TypeOK, PollEmit, Task
  <2> QED
    BY <1>1, <1>4, <2>1, <2>2 DEF PollEmit
<1> QED
  BY <1>2, <1>3, <1>4 DEF PollTask

\* What the client, the brokers and the caller do.
LEMMA WorldKeeps ==
    ASSUME DeliveryInv,
           \/ \E j \in Jobs, s \in {"gone"} \cup Ends : JobEnds(j, s)
           \/ \E j \in Jobs, kind \in Ends : Consume(j, kind)
           \/ BrokersChange
    PROVE  DeliveryInv'
<1> USE DEF DeliveryInv
<1>1. ASSUME NEW j \in Jobs, NEW s \in {"gone"} \cup Ends, JobEnds(j, s) PROVE DeliveryInv'
  <2>1. TypeOK'
    BY <1>1 DEF TypeOK, JobEnds, Job, Ends
  <2>2. RequestsHaveJobs'
    BY <1>1 DEF TypeOK, JobEnds, Job, Ends, RequestsHaveJobs
  <2> QED
    BY <1>1, <2>1, <2>2 DEF JobEnds, ClosedIsQuiet, InFlight, EmittedIsAnnounced,
                            AcceptedIsAnnounced, Announced
<1>2. ASSUME NEW j \in Jobs, NEW kind \in Ends, Consume(j, kind) PROVE DeliveryInv'
  <2>1. TypeOK'
    BY <1>2 DEF TypeOK, Consume, Learn
  <2>2. RequestsHaveJobs'
    BY <1>2 DEF TypeOK, Consume, Learn, RequestsHaveJobs
  <2>3. AcceptedIsAnnounced'
    BY <1>2 DEF TypeOK, Consume, Learn, AcceptedIsAnnounced
  <2> QED
    BY <1>2, <2>1, <2>2, <2>3 DEF Consume, ClosedIsQuiet, InFlight, EmittedIsAnnounced, Announced
<1>3. ASSUME BrokersChange PROVE DeliveryInv'
  <2>1. TypeOK'
    BY <1>3 DEF TypeOK, BrokersChange
  <2> QED
    BY <1>3, <2>1 DEF BrokersChange, RequestsHaveJobs, ClosedIsQuiet, InFlight,
                      EmittedIsAnnounced, AcceptedIsAnnounced, Announced
<1> QED
  BY <1>1, <1>2, <1>3

-----------------------------------------------------------------------------

\* The invariant holds through every start, graceful stop and crash of main.
THEOREM DeliveryInvariant == Spec => []DeliveryInv
<1>1. Init => DeliveryInv
  <2> SUFFICES ASSUME Init PROVE DeliveryInv
    OBVIOUS
  <2>1. TypeOK
    <3>1. stops \in 0 .. MaxStops
      BY DeliveryAssumption DEF Init
    <3>2. /\ phase \in {"down", "serving", "draining", "closing"}
          /\ closed \in BOOLEAN /\ overran \in BOOLEAN
          /\ kafka \in {"none", "up", "down"}
      BY DEF Init
    <3>3. /\ tracked \subseteq {j \in Jobs : client[j] # "none"}
          /\ log \subseteq Events \X Jobs /\ dropped \subseteq Events \X Jobs
      BY DEF Init
    <3> QED
      BY <3>1, <3>2, <3>3 DEF Init, Idle, TypeOK
  <2>2. RequestsHaveJobs /\ ClosedIsQuiet /\ EmittedIsAnnounced /\ AcceptedIsAnnounced
    BY DEF Init, Idle, RequestsHaveJobs, ClosedIsQuiet, InFlight, EmittedIsAnnounced,
           AcceptedIsAnnounced
  <2> QED
    BY <2>1, <2>2 DEF DeliveryInv
<1>2. DeliveryInv /\ [Next]_vars => DeliveryInv'
  <2> SUFFICES ASSUME DeliveryInv, [Next]_vars PROVE DeliveryInv'
    OBVIOUS
  <2>1. CASE UNCHANGED vars
    BY <2>1 DEF vars, DeliveryInv, TypeOK, RequestsHaveJobs, ClosedIsQuiet, InFlight,
                EmittedIsAnnounced, AcceptedIsAnnounced, Announced
  <2> QED
    BY <2>1, ProcessKeeps, RequestKeeps, PollKeeps, WorldKeeps DEF Next
<1> QED
  BY <1>1, <1>2, PTL DEF Spec

\* Every variable keeps its type: in particular, whatever the poll loop and the
\* requests do, only jobs that the client took are tracked (g.jobs).
THEOREM TypeCorrect == Spec => []TypeOK
<1>1. DeliveryInv => TypeOK
  BY DEF DeliveryInv
<1> QED
  BY <1>1, DeliveryInvariant, PTL

\* An accepted add was announced, unless no broker could take the event or
\* Shutdown gave up on requests in flight (the order of main's defers).
THEOREM AcceptedAnnounced == Spec => []AcceptedIsAnnounced
<1>1. DeliveryInv => AcceptedIsAnnounced
  BY DEF DeliveryInv
<1> QED
  BY <1>1, DeliveryInvariant, PTL

=============================================================================

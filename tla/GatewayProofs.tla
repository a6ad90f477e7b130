----------------------------- MODULE GatewayProofs -----------------------------
(***************************************************************************)
(* Proofs about Gateway, for every set of clients, jobs, goroutines and    *)
(* pushes.                                                                 *)
(***************************************************************************)
EXTENDS Gateway, FiniteSetTheorems, TLAPS

\* Assigning a new value to one function element keeps the function's type.
LEMMA UpdateType ==
    ASSUME NEW A, NEW B, NEW f \in [A -> B], NEW a \in A, NEW b \in B
    PROVE  [f EXCEPT ![a] = b] \in [A -> B]
OBVIOUS

\* The same for a function of functions, whatever the indexes.
LEMMA NestedUpdateType ==
    ASSUME NEW A, NEW B, NEW C, NEW f \in [A -> [B -> C]], NEW a, NEW b, NEW c \in C
    PROVE  [f EXCEPT ![a][b] = c] \in [A -> [B -> C]]
OBVIOUS

-----------------------------------------------------------------------------
(* The registry. *)

\* The settings of an accepted entry are prepared ones (Registry.Apply).
LEMMA AcceptedSpec ==
    ASSUME NEW push \in Pushes, NEW id \in Ids, Accepted(push, id)
    PROVE  PushedSpec(push, id) \in Specs
<1>1. PICK n \in 0 .. MaxPush : push \in [1 .. n -> PushEntry]
  BY DEF Pushes
<1> DEFINE i == CHOOSE i \in Named(push, id) : TRUE
<1>2. i \in Named(push, id)
  BY DEF Accepted
<1>3. i \in DOMAIN push /\ push[i].spec # Nil
  BY <1>2 DEF Accepted, Rejected, Named
<1>4. push[i] \in PushEntry
  BY <1>1, <1>3
<1> QED
  BY <1>3, <1>4 DEF PushedSpec, PushEntry

\* What a push writes for an id is a client or Nil (Registry.Apply).
LEMMA AfterPushType ==
    ASSUME RegistryTypeOK, NEW push \in Pushes, NEW id \in Ids, NEW busy
    PROVE  AfterPush(push, id, busy) \in Entry \cup {Nil}
<1>1. Accepted(push, id) => PushedSpec(push, id) \in Specs
  BY AcceptedSpec
<1>2. clients[id] \in Entry \cup {Nil}
  BY DEF RegistryTypeOK
<1>3. CASE Accepted(push, id) /\ Unchanged(push, id)
  BY <1>2, <1>3 DEF AfterPush, Unchanged, IsSource, Registered, Entry
<1>4. CASE Accepted(push, id) /\ ~Unchanged(push, id)
  BY <1>1, <1>4 DEF AfterPush, ApiEntry, Entry
<1>5. CASE ~Accepted(push, id)
  BY <1>2, <1>5 DEF AfterPush, Removal, IsSource, Registered, Entry
<1> QED
  BY <1>3, <1>4, <1>5

\* Apply keeps the registry's type.
LEMMA ApplyType ==
    ASSUME RegistryTypeOK, NEW rev \in Revisions, NEW push \in Pushes, NEW busy,
           Apply(rev, push, busy)
    PROVE  RegistryTypeOK'
BY AfterPushType DEF RegistryTypeOK, Apply, RevisionAfter

\* Reap keeps the registry's type.
LEMMA ReapType ==
    ASSUME RegistryTypeOK, NEW busy, Reap(busy)
    PROVE  RegistryTypeOK'
BY DEF RegistryTypeOK, Reap

\* Taking a lease keeps the registry's type.
LEMMA LeaseType ==
    ASSUME RegistryTypeOK, NEW id \in Ids, Lease(id)
    PROVE  RegistryTypeOK' /\ clients[id] \in Entry
BY DEF RegistryTypeOK, Lease, LeaseCount, Leasable, Registered

\* Releasing a lease keeps the registry's type.
LEMMA ReleaseType ==
    ASSUME RegistryTypeOK, NEW id \in Ids, Release(id)
    PROVE  RegistryTypeOK'
BY DEF RegistryTypeOK, Release, ReleaseCount

\* The registry at boot.
LEMMA BootClientsType == BootClients \in [Ids -> Entry \cup {Nil}]
BY RegistryAssumption DEF BootClients, EnvEntry, Entry

-----------------------------------------------------------------------------
(* Type correctness. *)

Op == {Idle} \cup AddOp \cup AdoptOp \cup RemoveOp

\* The record a goroutine keeps follows from where it is.
LEMMA OpByPC ==
    ASSUME NEW o \in Op
    PROVE  /\ o.pc \in {"leased", "accepted", "tracked"} => o \in AddOp
           /\ o.pc \in {"adopting", "adopted"} => o \in AdoptOp
           /\ o.pc \in {"removing", "removed"} => o \in RemoveOp
           /\ o = Idle <=> o.pc = "idle"
BY DEF Op, Idle, AddOp, AdoptOp, RemoveOp

\* A goroutine's release of the client it holds keeps the registry's type.
LEMMA HolderReleaseType ==
    ASSUME TypeOK, NEW p \in Procs, op[p].pc \in LeasePC, Release(op[p].id)
    PROVE  RegistryTypeOK'
<1>1. op[p].id \in Ids
  BY OpByPC DEF TypeOK, Op, LeasePC, AddOp, AdoptOp
<1>2. PICK id \in Ids : id = op[p].id
  BY <1>1
<1>3. Release(id)
  BY <1>2 DEF Release, ReleaseCount
<1> QED
  BY <1>3, ReleaseType DEF TypeOK

\* Ending a request or an adoption.
LEMMA FinishType ==
    ASSUME TypeOK, NEW p \in Procs, Finish(p)
    PROVE  op' \in [Procs -> Op]
BY DEF TypeOK, Finish, Op

\* The steps of handleAdd keep the types.
LEMMA AddTypes ==
    ASSUME TypeOK, NEW p \in Procs, AddStep(p)
    PROVE  TypeOK'
<1> USE DEF Op
<1>0. op[p] \in Op
  BY DEF TypeOK
<1>1. ASSUME NEW id \in Ids, NEW w \in WantedItem, AddBegin(p, id, w) PROVE TypeOK'
  <2>1. RegistryTypeOK' /\ clients[id].spec \in Specs
    BY <1>1, LeaseType DEF AddBegin, TypeOK, Entry
  <2>2. op' \in [Procs -> Op]
    BY <1>1, <2>1 DEF AddBegin, TypeOK, AddOp
  <2> QED
    BY <1>1, <2>1, <2>2 DEF AddBegin, TypeOK
<1>2. ASSUME NEW j \in JobIds, AddCall(p, j) PROVE TypeOK'
  <2>1. op[p] \in AddOp
    BY <1>0, <1>2, OpByPC DEF AddCall
  <2>2. op' \in [Procs -> Op]
    BY <1>2, <2>1 DEF AddCall, TypeOK, AddOp
  <2>3. remote' \in [Endpoints -> [JobIds -> RemoteState]]
    BY <1>2, <2>1 DEF AddCall, SetRemote, TypeOK, RemoteState
  <2> QED
    BY <1>2, <2>2, <2>3 DEF AddCall, TypeOK, RegistryTypeOK, registryVars
<1>3. ASSUME NEW j \in JobIds, AddLost(p, j) PROVE TypeOK'
  <2>1. RegistryTypeOK' /\ op' \in [Procs -> Op]
    BY <1>3, HolderReleaseType, FinishType DEF AddLost, LeasePC
  <2>2. remote' \in [Endpoints -> [JobIds -> RemoteState]]
    BY <1>3 DEF AddLost, SetRemote, TypeOK, RemoteState
  <2> QED
    BY <1>3, <2>1, <2>2 DEF AddLost, TypeOK
<1>4. CASE AddFail(p)
  BY <1>4, HolderReleaseType, FinishType DEF AddFail, LeasePC, TypeOK
<1>5. CASE AddTrack(p)
  <2>1. op[p] \in AddOp
    BY <1>0, <1>5, OpByPC DEF AddTrack
  <2>2. op' \in [Procs -> Op]
    BY <1>5, <2>1 DEF AddTrack, TypeOK, AddOp
  <2>3. jobs' \in [Keys -> Tracked \cup {Nil}]
    BY <1>5, <2>1 DEF AddTrack, Track, NewTracked, TypeOK, AddOp, Tracked
  <2> QED
    BY <1>5, <2>2, <2>3 DEF AddTrack, TypeOK, RegistryTypeOK, registryVars
<1>6. CASE AddStarted(p)
  BY <1>6, HolderReleaseType, FinishType DEF AddStarted, LeasePC, TypeOK
<1> QED
  BY <1>1, <1>2, <1>3, <1>4, <1>5, <1>6 DEF AddStep

\* The steps of handleRemove keep the types.
LEMMA RemoveTypes ==
    ASSUME TypeOK, NEW p \in Procs, RemoveStep(p)
    PROVE  TypeOK'
<1> USE DEF Op
<1>0. op[p] \in Op
  BY DEF TypeOK
<1>1. ASSUME NEW id \in Ids, NEW j \in JobIds, RemoveBegin(p, id, j) PROVE TypeOK'
  <2>1. clients[id].spec \in Specs
    BY <1>1 DEF RemoveBegin, TypeOK, RegistryTypeOK, Registered, Entry
  <2>2. op' \in [Procs -> Op]
    BY <1>1, <2>1 DEF RemoveBegin, TypeOK, RemoveOp
  <2> QED
    BY <1>1, <2>2 DEF RemoveBegin, TypeOK, RegistryTypeOK, registryVars
<1>2. CASE RemoveCall(p)
  <2>1. op[p] \in RemoveOp
    BY <1>0, <1>2, OpByPC DEF RemoveCall
  <2>2. op' \in [Procs -> Op]
    BY <1>2, <2>1 DEF RemoveCall, TypeOK, RemoveOp
  <2>3. remote' \in [Endpoints -> [JobIds -> RemoteState]]
    <3>1. CASE SetRemote(op[p].spec, op[p].job, "gone")
      BY <3>1, NestedUpdateType DEF SetRemote, TypeOK, RemoteState
    <3>2. CASE UNCHANGED remote
      BY <3>2 DEF TypeOK
    <3> QED
      BY <1>2, <3>1, <3>2 DEF RemoveCall
  <2> QED
    BY <1>2, <2>2, <2>3 DEF RemoveCall, TypeOK, RegistryTypeOK, registryVars
<1>3. CASE RemoveFail(p)
  BY <1>3, FinishType DEF RemoveFail, TypeOK, RegistryTypeOK, registryVars
<1>4. CASE RemoveUntrack(p)
  <2>1. jobs' \in [Keys -> Tracked \cup {Nil}]
    BY <1>4 DEF RemoveUntrack, Untrack, TypeOK
  <2> QED
    BY <1>4, <2>1, FinishType DEF RemoveUntrack, TypeOK, RegistryTypeOK, registryVars
<1> QED
  BY <1>1, <1>2, <1>3, <1>4 DEF RemoveStep

\* The steps of adopt keep the types.
LEMMA AdoptTypes ==
    ASSUME TypeOK, NEW p \in Procs, AdoptStep(p)
    PROVE  TypeOK'
<1> USE DEF Op
<1>0. op[p] \in Op
  BY DEF TypeOK
<1>1. ASSUME NEW id \in Ids, AdoptBegin(p, id) PROVE TypeOK'
  <2>1. RegistryTypeOK' /\ clients[id].spec \in Specs
    BY <1>1, LeaseType DEF AdoptBegin, TypeOK, Entry
  <2>2. op' \in [Procs -> Op]
    BY <1>1, <2>1 DEF AdoptBegin, TypeOK, AdoptOp
  <2>3. pending' \in [Ids -> Nat]
    BY <1>1 DEF AdoptBegin, TypeOK
  <2> QED
    BY <1>1, <2>1, <2>2, <2>3 DEF AdoptBegin, TypeOK
<1>2. CASE AdoptList(p)
  <2>1. op[p] \in AdoptOp
    BY <1>0, <1>2, OpByPC DEF AdoptList
  <2>2. op' \in [Procs -> Op]
    BY <1>2, <2>1 DEF AdoptList, Adoptable, TypeOK, AdoptOp
  <2> QED
    BY <1>2, <2>2 DEF AdoptList, TypeOK, RegistryTypeOK, registryVars
<1>3. CASE AdoptFail(p)
  BY <1>3, HolderReleaseType, FinishType DEF AdoptFail, LeasePC, TypeOK
<1>4. CASE AdoptDone(p)
  BY <1>4, HolderReleaseType, FinishType DEF AdoptDone, LeasePC, TypeOK
<1>5. ASSUME NEW j \in JobIds, AdoptTrack(p, j) PROVE TypeOK'
  <2>1. op[p] \in AdoptOp
    BY <1>0, <1>5, OpByPC DEF AdoptTrack
  <2>2. op' \in [Procs -> Op]
    BY <1>5, <2>1 DEF AdoptTrack, TypeOK, AdoptOp
  <2>3. jobs' \in [Keys -> Tracked \cup {Nil}]
    BY <1>5, <2>1 DEF AdoptTrack, TrackIfAbsent, Track, NewTracked, TypeOK, Tracked, WantedItem
  <2> QED
    BY <1>5, <2>2, <2>3 DEF AdoptTrack, TypeOK, RegistryTypeOK, registryVars
<1> QED
  BY <1>1, <1>2, <1>3, <1>4, <1>5 DEF AdoptStep

\* The steps of the poll loop keep the types.
LEMMA PollTypes ==
    ASSUME TypeOK, NEW k \in Keys, PollStep(k)
    PROVE  TypeOK'
<1>0. /\ poll[k] \in PollTask \cup {Nil}
      /\ jobs[k] \in Tracked \cup {Nil}
      /\ k[1] \in Ids /\ k[2] \in JobIds
      /\ k = <<k[1], k[2]>>
  BY DEF TypeOK, Keys
<1>1. CASE PollGet(k)
  <2>1. Registered(k[1]) => clients[k[1]].spec \in Specs
    BY <1>0 DEF TypeOK, RegistryTypeOK, Registered, Entry
  <2>2. poll' \in [Keys -> PollTask \cup {Nil}]
    BY <1>0, <1>1, <2>1 DEF PollGet, AtPoll, TypeOK, PollTask
  <2> QED
    BY <1>1, <2>2 DEF PollGet, TypeOK, RegistryTypeOK, registryVars
<1>2. CASE PollDrop(k)
  BY <1>2 DEF PollDrop, Untrack, TypeOK, RegistryTypeOK, registryVars
<1>3. CASE PollDescribe(k)
  <2>1. poll[k].spec \in Specs
    BY <1>0, <1>3 DEF PollDescribe, AtPoll, PollTask
  <2>2. Seen(poll[k].spec, k[2]) \subseteq {"unknown", "running", "completed", "failed"}
    BY <1>0, <2>1, GatewayAssumption DEF Seen, RemoteJob, TypeOK, RemoteState
  <2>3. PICK v \in Seen(poll[k].spec, k[2]) :
            poll' = [poll EXCEPT ![k].pc = "report", ![k].seen = v]
    BY <1>3 DEF PollDescribe
  <2>4. v \in {"unknown", "running", "completed", "failed"}
    BY <2>2
  <2>5. poll' \in [Keys -> PollTask \cup {Nil}]
    BY <1>0, <1>3, <2>3, <2>4 DEF PollDescribe, AtPoll, TypeOK, PollTask
  <2> QED
    BY <1>3, <2>5 DEF PollDescribe, TypeOK, RegistryTypeOK, registryVars
<1>4. CASE PollError(k)
  BY <1>4 DEF PollError, TypeOK, RegistryTypeOK, registryVars
<1>5. CASE PollEnded(k)
  <2>1. outcome' \in [Keys -> Outcome \cup {Nil}]
    BY <1>0, <1>5 DEF PollEnded, AtPoll, Emit, TypeOK, Outcome, PollTask
  <2>2. poll' \in [Keys -> PollTask \cup {Nil}]
    BY <1>0, <1>5 DEF PollEnded, AtPoll, TypeOK, PollTask
  <2> QED
    BY <1>5, <2>1, <2>2 DEF PollEnded, TypeOK, RegistryTypeOK, registryVars
<1>6. CASE PollLost(k)
  <2>1. poll' \in [Keys -> PollTask \cup {Nil}]
    BY <1>0, <1>6 DEF PollLost, AtPoll, TypeOK, PollTask
  <2> QED
    BY <1>6, <2>1 DEF PollLost, TypeOK, RegistryTypeOK, registryVars
<1>10. CASE PollGiveUp(k)
  <2>1. outcome' \in [Keys -> Outcome \cup {Nil}]
    BY <1>0, <1>10 DEF PollGiveUp, AtPoll, Emit, TypeOK, Outcome, PollTask
  <2>2. poll' \in [Keys -> PollTask \cup {Nil}]
    BY <1>0, <1>10 DEF PollGiveUp, AtPoll, TypeOK, PollTask
  <2> QED
    BY <1>10, <2>1, <2>2 DEF PollGiveUp, TypeOK, RegistryTypeOK, registryVars
<1>7. CASE PollMissing(k)
  <2>1. jobs' \in [Keys -> Tracked \cup {Nil}]
    BY <1>0, <1>7 DEF PollMissing, MarkMissing, TypeOK, Tracked
  <2> QED
    BY <1>7, <2>1 DEF PollMissing, TypeOK, RegistryTypeOK, registryVars
<1>8. CASE PollRunning(k)
  <2>1. jobs' \in [Keys -> Tracked \cup {Nil}]
    BY <1>0, <1>8 DEF PollRunning, ClearMissing, TypeOK, Tracked
  <2> QED
    BY <1>8, <2>1 DEF PollRunning, TypeOK, RegistryTypeOK, registryVars
<1>9. CASE PollUntrack(k)
  BY <1>9 DEF PollUntrack, Untrack, TypeOK, RegistryTypeOK, registryVars
<1> QED
  BY <1>1, <1>2, <1>3, <1>4, <1>5, <1>6, <1>7, <1>8, <1>9, <1>10 DEF PollStep

\* The initial states are well typed.
LEMMA InitTypes == Init => TypeOK
<1> SUFFICES ASSUME Init PROVE TypeOK
  OBVIOUS
<1>1. RegistryTypeOK
  BY BootClientsType DEF Init, RegistryInit, RegistryTypeOK
<1>2. op \in [Procs -> {Idle} \cup AddOp \cup AdoptOp \cup RemoveOp]
  BY DEF Init
<1>3. remote \in [Endpoints -> [JobIds -> RemoteState]]
  BY DEF Init, RemoteState
<1>4. pending \in [Ids -> Nat]
  BY DEF Init, BootPending
<1> QED
  BY <1>1, <1>2, <1>3, <1>4 DEF Init, TypeOK

\* Every step keeps the types.
LEMMA NextTypes == TypeOK /\ [Next]_vars => TypeOK'
<1> SUFFICES ASSUME TypeOK, [Next]_vars PROVE TypeOK'
  OBVIOUS
<1>1. ASSUME NEW p \in Procs, AddStep(p) \/ RemoveStep(p) \/ AdoptStep(p) PROVE TypeOK'
  BY <1>1, AddTypes, RemoveTypes, AdoptTypes
<1>2. ASSUME NEW rev \in Revisions, NEW push \in Pushes, ConfigApply(rev, push) PROVE TypeOK'
  <2>1. RegistryTypeOK'
    BY <1>2, ApplyType DEF ConfigApply, TypeOK
  <2>2. pending' \in [Ids -> Nat]
    BY <1>2 DEF ConfigApply, TypeOK
  <2> QED
    BY <1>2, <2>1, <2>2 DEF ConfigApply, TypeOK
<1>3. ASSUME NEW id \in Ids, AdoptSkip(id) PROVE TypeOK'
  <2>1. pending' \in [Ids -> Nat]
    BY <1>3 DEF AdoptSkip, TypeOK
  <2> QED
    BY <1>3, <2>1 DEF AdoptSkip, TypeOK, RegistryTypeOK, registryVars
<1>4. ASSUME NEW k \in Keys, PollStep(k) PROVE TypeOK'
  BY <1>4, PollTypes
<1>5. ASSUME NEW k \in Keys, Elapse(k) PROVE TypeOK'
  <2>1. jobs' \in [Keys -> Tracked \cup {Nil}]
    BY <1>5 DEF Elapse, TypeOK, Tracked
  <2> QED
    BY <1>5, <2>1 DEF Elapse, TypeOK, RegistryTypeOK, registryVars
<1>6. CASE PollSnapshot
  <2>1. poll' \in [Keys -> PollTask \cup {Nil}]
    BY <1>6 DEF PollSnapshot, NewTask, TypeOK, Tracked, PollTask
  <2> QED
    BY <1>6, <2>1 DEF PollSnapshot, TypeOK, RegistryTypeOK, registryVars
<1>7. CASE PollReap
  BY <1>7, ReapType DEF PollReap, TypeOK
<1>8. ASSUME NEW e \in Endpoints, NEW j \in JobIds, RemoteFinish(e, j) \/ RemoteVanish(e, j)
      PROVE  TypeOK'
  <2>1. remote' \in [Endpoints -> [JobIds -> RemoteState]]
    <3>1. \E c \in RemoteState : remote' = [remote EXCEPT ![e][j] = c]
      BY <1>8 DEF RemoteFinish, RemoteVanish, RemoteState
    <3> QED
      BY <3>1, NestedUpdateType DEF TypeOK
  <2> QED
    BY <1>8, <2>1
       DEF RemoteFinish, RemoteVanish, TypeOK, RegistryTypeOK, registryVars, localVars
<1>9. CASE Serve
  BY <1>9 DEF Serve, TypeOK, RegistryTypeOK, registryVars
<1>10. CASE Crash
  <2>1. RegistryTypeOK'
    BY <1>10, BootClientsType DEF Crash, RegistryTypeOK
  <2>2. op' \in [Procs -> {Idle} \cup AddOp \cup AdoptOp \cup RemoveOp]
    BY <1>10 DEF Crash
  <2>3. pending' \in [Ids -> Nat]
    BY <1>10 DEF Crash, BootPending
  <2>4. /\ jobs' \in [Keys -> Tracked \cup {Nil}]
        /\ poll' \in [Keys -> PollTask \cup {Nil}]
    BY <1>10 DEF Crash
  <2>5. crashes' \in Nat /\ outcome' \in [Keys -> Outcome \cup {Nil}]
    BY <1>10 DEF Crash, TypeOK
  <2>6. /\ phase' \in {"boot", "serving"} /\ polling' \in BOOLEAN
        /\ remote' \in [Endpoints -> [JobIds -> RemoteState]]
    BY <1>10 DEF Crash, TypeOK
  <2> QED
    BY <2>1, <2>2, <2>3, <2>4, <2>5, <2>6 DEF TypeOK
<1>11. CASE UNCHANGED vars
  BY <1>11 DEF vars, localVars, TypeOK, RegistryTypeOK
<1> QED
  BY <1>1, <1>2, <1>3, <1>4, <1>5, <1>6, <1>7, <1>8, <1>9, <1>10, <1>11 DEF Next

\* Type correctness of the gateway: whatever is pushed, added, removed, polled or
\* restarted, every variable keeps its type.
THEOREM TypeCorrect == Spec => []TypeOK
BY InitTypes, NextTypes, PTL DEF Spec

-----------------------------------------------------------------------------
(* Leases, and the clients of tracked jobs. *)

\* A goroutine that holds a lease names a client id.
LEMMA HolderId ==
    ASSUME TypeOK, NEW p \in Procs, op[p].pc \in LeasePC
    PROVE  op[p].id \in Ids
BY OpByPC DEF TypeOK, Op, LeasePC, AddOp, AdoptOp

\* The holders of a client are finitely many.
LEMMA HoldersFinite ==
    ASSUME NEW id PROVE IsFiniteSet(Holders(id)) /\ Cardinality(Holders(id)) \in Nat
<1>1. Holders(id) \subseteq Procs
  BY DEF Holders
<1> QED
  BY <1>1, GatewayAssumption, FS_Subset, FS_CardinalityType

\* Where a goroutine holds a client, the client's lease count is positive.
LEMMA HeldIsLeased ==
    ASSUME LeaseInv, NEW p \in Procs, op[p].pc \in LeasePC
    PROVE  leases[op[p].id] > 0
<1> DEFINE id == op[p].id
<1>1. id \in Ids /\ leases[id] = Cardinality(Holders(id))
  BY HolderId DEF LeaseInv, LeasesMatchHolders
<1>2. Holders(id) # {}
  BY DEF Holders
<1>3. Cardinality(Holders(id)) # 0 /\ Cardinality(Holders(id)) \in Nat
  BY <1>2, HoldersFinite, FS_EmptySet
<1> QED
  BY <1>1, <1>3

\* A goroutine takes a lease.
LEMMA TakeLease ==
    ASSUME LeaseInv, NEW p \in Procs, NEW id \in Ids, Lease(id), op[p] = Idle,
           op'[p].pc \in LeasePC, op'[p].id = id,
           \A q \in Procs \ {p} : op'[q] = op[q]
    PROVE  LeasesMatchHolders' /\ HoldersHaveClient'
<1>1. /\ Holders(id)' = Holders(id) \cup {p}
      /\ p \notin Holders(id)
      /\ \A i \in Ids \ {id} : Holders(i)' = Holders(i)
  BY DEF Holders, Idle, LeasePC
<1>2. Cardinality(Holders(id)') = Cardinality(Holders(id)) + 1
  BY <1>1, HoldersFinite, FS_AddElement
<1>3. LeasesMatchHolders'
  BY <1>1, <1>2 DEF LeaseInv, TypeOK, RegistryTypeOK, LeasesMatchHolders, Lease, LeaseCount
<1>4. HoldersHaveClient'
  BY DEF LeaseInv, HoldersHaveClient, Lease, Leasable, Registered
<1> QED
  BY <1>3, <1>4

\* A goroutine releases its lease and ends.
LEMMA DropLease ==
    ASSUME LeaseInv, NEW p \in Procs, op[p].pc \in LeasePC, Release(op[p].id), Finish(p)
    PROVE  LeasesMatchHolders' /\ HoldersHaveClient'
<1>0. PICK id \in Ids : id = op[p].id
  BY HolderId DEF LeaseInv
<1>1. op'[p] = Idle /\ \A q \in Procs \ {p} : op'[q] = op[q]
  BY DEF Finish, LeaseInv, TypeOK
<1>2. /\ Holders(id)' = Holders(id) \ {p}
      /\ p \in Holders(id)
      /\ \A i \in Ids \ {id} : Holders(i)' = Holders(i)
  BY <1>0, <1>1 DEF Holders, Idle, LeasePC
<1>3. Cardinality(Holders(id)') = Cardinality(Holders(id)) - 1
  BY <1>2, HoldersFinite, FS_RemoveElement
<1>4. leases[id] > 0 /\ leases[id] \in Nat /\ leases[id] = Cardinality(Holders(id))
  BY <1>0, HeldIsLeased DEF LeaseInv, TypeOK, RegistryTypeOK, LeasesMatchHolders
<1>5. leases'[id] = leases[id] - 1
  BY <1>0, <1>4 DEF Release, ReleaseCount, LeaseInv, TypeOK, RegistryTypeOK
<1>6. \A i \in Ids \ {id} : leases'[i] = leases[i]
  BY <1>0 DEF Release, LeaseInv, TypeOK, RegistryTypeOK
<1>7. LeasesMatchHolders'
  BY <1>2, <1>3, <1>4, <1>5, <1>6 DEF LeaseInv, LeasesMatchHolders
<1>8. HoldersHaveClient'
  BY <1>1 DEF LeaseInv, HoldersHaveClient, Release, Registered, Idle, LeasePC
<1> QED
  BY <1>7, <1>8

\* A step that moves no goroutine into, out of or between leases.
LEMMA KeepLeases ==
    ASSUME LeaseInv, UNCHANGED <<clients, leases>>,
           \A p \in Procs : \/ op'[p] = op[p]
                            \/ op[p].pc \in LeasePC /\ op'[p].pc \in LeasePC /\ op'[p].id = op[p].id
                            \/ op[p].pc \notin LeasePC /\ op'[p].pc \notin LeasePC
    PROVE  LeasesMatchHolders' /\ HoldersHaveClient'
<1>1. \A id \in Ids : Holders(id)' = Holders(id)
  BY DEF Holders
<1> QED
  BY <1>1 DEF LeaseInv, LeasesMatchHolders, HoldersHaveClient, Registered

\* A push never drops a client in use (Registry.Apply).
LEMMA PushKeepsUsed ==
    ASSUME RegistryTypeOK, NEW push \in Pushes, NEW id \in Ids, NEW busy,
           Registered(id), InUse(id, busy)
    PROVE  AfterPush(push, id, busy) # Nil
<1>1. clients[id] \in Entry
  BY DEF RegistryTypeOK, Registered
<1>2. \A b \in BOOLEAN : [clients[id] EXCEPT !.draining = b] \in Entry
  BY <1>1 DEF Entry
<1>3. Accepted(push, id) => ApiEntry(PushedSpec(push, id)) \in Entry
  BY AcceptedSpec DEF ApiEntry, Entry
<1> QED
  BY <1>1, <1>2, <1>3, RegistryAssumption DEF AfterPush, Removal

\* A push leaves an environment client exactly as it is (Registry.Apply).
LEMMA PushKeepsEnv ==
    ASSUME NEW push, NEW id \in EnvIds, NEW busy, clients[id] = EnvEntry(id)
    PROVE  AfterPush(push, id, busy) = clients[id]
<1>0. EnvEntry(id) \in Entry
  BY RegistryAssumption DEF EnvEntry, Entry
<1>1. Registered(id)
  BY <1>0, RegistryAssumption DEF Registered
<1>2. IsSource(id, "env") /\ ~IsSource(id, "api")
  BY <1>1 DEF IsSource, EnvEntry
<1> QED
  BY <1>2 DEF AfterPush, Accepted, Rejected

\* A step that tracks no new job keeps every tracked job's client, when it keeps
\* the clients.
LEMMA KeepClients ==
    ASSUME LeaseInv, UNCHANGED clients,
           \A k \in Keys : jobs'[k] # Nil => jobs[k] # Nil
    PROVE  TrackedHasClient'
BY DEF LeaseInv, TrackedHasClient, Registered, Keys

\* handleAdd keeps the invariant: it tracks under the lease it took.
LEMMA AddLeases ==
    ASSUME LeaseInv, NEW p \in Procs, AddStep(p)
    PROVE  LeaseInv'
<1> USE DEF LeaseInv
<1>0. TypeOK'
  BY AddTypes
<1>1. ASSUME NEW id \in Ids, NEW w \in WantedItem, AddBegin(p, id, w) PROVE LeaseInv'
  <2>1. /\ op'[p].pc \in LeasePC /\ op'[p].id = id
        /\ \A q \in Procs \ {p} : op'[q] = op[q]
    BY <1>1 DEF AddBegin, TypeOK, LeasePC
  <2>2. LeasesMatchHolders' /\ HoldersHaveClient'
    BY <1>1, <2>1, TakeLease DEF AddBegin
  <2>3. TrackedHasClient'
    BY <1>1, KeepClients DEF AddBegin, Lease
  <2> QED
    BY <1>0, <2>2, <2>3
<1>2. ASSUME NEW j \in JobIds, AddCall(p, j) PROVE LeaseInv'
  <2>1. \A q \in Procs : \/ op'[q] = op[q]
                         \/ op[q].pc \in LeasePC /\ op'[q].pc \in LeasePC /\ op'[q].id = op[q].id
    <3>1. op[p] \in AddOp
      BY <1>2, OpByPC DEF AddCall, TypeOK, Op
    <3> QED
      BY <1>2, <3>1 DEF AddCall, TypeOK, LeasePC, AddOp
  <2>2. LeasesMatchHolders' /\ HoldersHaveClient' /\ TrackedHasClient'
    BY <1>2, <2>1, KeepLeases, KeepClients DEF AddCall, registryVars
  <2> QED
    BY <1>0, <2>2
<1>3. ASSUME NEW j \in JobIds, AddLost(p, j) PROVE LeaseInv'
  BY <1>0, <1>3, DropLease, KeepClients DEF AddLost, LeasePC, Release
<1>4. CASE AddFail(p)
  BY <1>0, <1>4, DropLease, KeepClients DEF AddFail, LeasePC, Release
<1>5. CASE AddTrack(p)
  <2>1. op[p] \in AddOp
    BY <1>5, OpByPC DEF AddTrack, TypeOK, Op
  <2>2. \A q \in Procs : \/ op'[q] = op[q]
                         \/ op[q].pc \in LeasePC /\ op'[q].pc \in LeasePC /\ op'[q].id = op[q].id
    BY <1>5, <2>1 DEF AddTrack, TypeOK, LeasePC, AddOp
  <2>3. LeasesMatchHolders' /\ HoldersHaveClient'
    BY <1>5, <2>2, KeepLeases DEF AddTrack, registryVars
  <2>4. TrackedHasClient'
    <3> SUFFICES ASSUME NEW i \in Ids, NEW j \in JobIds, jobs'[<<i, j>>] # Nil
                 PROVE  Registered(i)'
      BY DEF TrackedHasClient
    <3>1. UNCHANGED clients
      BY <1>5 DEF AddTrack, registryVars
    <3>2. CASE i = op[p].id
      BY <1>5, <3>1, <3>2 DEF AddTrack, HoldersHaveClient, LeasePC, Registered
    <3>3. CASE i # op[p].id
      <4>1. jobs'[<<i, j>>] = jobs[<<i, j>>]
        BY <1>5, <3>3 DEF AddTrack, Track, TypeOK, Keys
      <4> QED
        BY <3>1, <4>1 DEF TrackedHasClient, Registered
    <3> QED
      BY <3>2, <3>3
  <2> QED
    BY <1>0, <2>3, <2>4
<1>6. CASE AddStarted(p)
  BY <1>0, <1>6, DropLease, KeepClients DEF AddStarted, LeasePC, Release
<1> QED
  BY <1>1, <1>2, <1>3, <1>4, <1>5, <1>6 DEF AddStep

\* handleRemove keeps the invariant: it only untracks.
LEMMA RemoveLeases ==
    ASSUME LeaseInv, NEW p \in Procs, RemoveStep(p)
    PROVE  LeaseInv'
<1> USE DEF LeaseInv
<1>0. TypeOK'
  BY RemoveTypes
<1>1. UNCHANGED <<clients, leases>>
  BY DEF RemoveStep, RemoveBegin, RemoveCall, RemoveFail, RemoveUntrack, registryVars
<1>2. \A k \in Keys : jobs'[k] # Nil => jobs[k] # Nil
  BY DEF RemoveStep, RemoveBegin, RemoveCall, RemoveFail, RemoveUntrack, Untrack, TypeOK
<1>3. /\ op[p].pc \notin LeasePC /\ op'[p].pc \notin LeasePC
      /\ \A q \in Procs \ {p} : op'[q] = op[q]
  <2>1. CASE \E id \in Ids, j \in JobIds : RemoveBegin(p, id, j)
    BY <2>1 DEF RemoveBegin, TypeOK, Idle, LeasePC
  <2>2. CASE RemoveCall(p)
    <3>1. op[p] \in RemoveOp
      BY <2>2, OpByPC DEF RemoveCall, TypeOK, Op
    <3> QED
      BY <2>2, <3>1 DEF RemoveCall, TypeOK, RemoveOp, LeasePC
  <2>3. CASE RemoveFail(p) \/ RemoveUntrack(p)
    BY <2>3 DEF RemoveFail, RemoveUntrack, Finish, TypeOK, Idle, LeasePC
  <2> QED
    BY <2>1, <2>2, <2>3 DEF RemoveStep
<1> QED
  BY <1>0, <1>1, <1>2, <1>3, KeepLeases, KeepClients

\* adopt keeps the invariant: it tracks under the lease it took.
LEMMA AdoptLeases ==
    ASSUME LeaseInv, NEW p \in Procs, AdoptStep(p)
    PROVE  LeaseInv'
<1> USE DEF LeaseInv
<1>0. TypeOK'
  BY AdoptTypes
<1>1. ASSUME NEW id \in Ids, AdoptBegin(p, id) PROVE LeaseInv'
  <2>1. /\ op'[p].pc \in LeasePC /\ op'[p].id = id
        /\ \A q \in Procs \ {p} : op'[q] = op[q]
    BY <1>1 DEF AdoptBegin, TypeOK, LeasePC
  <2>2. LeasesMatchHolders' /\ HoldersHaveClient'
    BY <1>1, <2>1, TakeLease DEF AdoptBegin
  <2>3. TrackedHasClient'
    BY <1>1, KeepClients DEF AdoptBegin, Lease
  <2> QED
    BY <1>0, <2>2, <2>3
<1>2. CASE AdoptList(p)
  <2>1. op[p] \in AdoptOp
    BY <1>2, OpByPC DEF AdoptList, TypeOK, Op
  <2>2. \A q \in Procs : \/ op'[q] = op[q]
                         \/ op[q].pc \in LeasePC /\ op'[q].pc \in LeasePC /\ op'[q].id = op[q].id
    BY <1>2, <2>1 DEF AdoptList, Adoptable, TypeOK, LeasePC, AdoptOp
  <2>3. LeasesMatchHolders' /\ HoldersHaveClient' /\ TrackedHasClient'
    BY <1>2, <2>2, KeepLeases, KeepClients DEF AdoptList, registryVars
  <2> QED
    BY <1>0, <2>3
<1>3. CASE AdoptFail(p)
  BY <1>0, <1>3, DropLease, KeepClients DEF AdoptFail, LeasePC, Release
<1>4. CASE AdoptDone(p)
  BY <1>0, <1>4, DropLease, KeepClients DEF AdoptDone, LeasePC, Release
<1>5. ASSUME NEW j \in JobIds, AdoptTrack(p, j) PROVE LeaseInv'
  <2>1. op[p] \in AdoptOp
    BY <1>5, OpByPC DEF AdoptTrack, TypeOK, Op
  <2>2. \A q \in Procs : \/ op'[q] = op[q]
                         \/ op[q].pc \in LeasePC /\ op'[q].pc \in LeasePC /\ op'[q].id = op[q].id
    BY <1>5, <2>1 DEF AdoptTrack, TypeOK, LeasePC, AdoptOp
  <2>3. LeasesMatchHolders' /\ HoldersHaveClient'
    BY <1>5, <2>2, KeepLeases DEF AdoptTrack, registryVars
  <2>4. TrackedHasClient'
    <3> SUFFICES ASSUME NEW i \in Ids, NEW l \in JobIds, jobs'[<<i, l>>] # Nil
                 PROVE  Registered(i)'
      BY DEF TrackedHasClient
    <3>1. UNCHANGED clients
      BY <1>5 DEF AdoptTrack, registryVars
    <3>2. CASE i = op[p].id
      BY <1>5, <3>1, <3>2 DEF AdoptTrack, HoldersHaveClient, LeasePC, Registered
    <3>3. CASE i # op[p].id
      <4>1. jobs'[<<i, l>>] = jobs[<<i, l>>]
        BY <1>5, <3>3 DEF AdoptTrack, TrackIfAbsent, Track, TypeOK, Keys
      <4> QED
        BY <3>1, <4>1 DEF TrackedHasClient, Registered
    <3> QED
      BY <3>2, <3>3
  <2> QED
    BY <1>0, <2>3, <2>4
<1> QED
  BY <1>1, <1>2, <1>3, <1>4, <1>5 DEF AdoptStep

\* pollOne keeps the invariant: it never tracks, and asks the registry only.
LEMMA PollLeases ==
    ASSUME LeaseInv, NEW k \in Keys, PollStep(k) \/ Elapse(k), TypeOK'
    PROVE  LeaseInv'
<1>1. UNCHANGED <<clients, leases, op>>
  BY DEF PollStep, PollGet, PollDrop, PollDescribe, PollError, PollEnded, PollLost, PollGiveUp,
         PollMissing, PollRunning, PollUntrack, Elapse, registryVars
<1>2. \A i \in Keys : jobs'[i] # Nil => jobs[i] # Nil
  BY DEF PollStep, PollGet, PollDrop, PollDescribe, PollError, PollEnded, PollLost, PollGiveUp,
         PollMissing, PollRunning, PollUntrack, Elapse, Untrack, MarkMissing,
         ClearMissing, LeaseInv, TypeOK
<1> QED
  BY <1>1, <1>2, KeepLeases, KeepClients DEF LeaseInv

\* A change of the clients that keeps every client in use keeps the invariant.
LEMMA UsedKeptSuffices ==
    ASSUME LeaseInv, TypeOK', UNCHANGED <<leases, op, jobs>>,
           \A id \in Ids : Registered(id) /\ InUse(id, Busy) => Registered(id)'
    PROVE  LeaseInv'
<1>1. LeasesMatchHolders'
  BY DEF LeaseInv, LeasesMatchHolders, Holders
<1>2. HoldersHaveClient'
  BY HeldIsLeased, HolderId DEF LeaseInv, HoldersHaveClient, InUse
<1>3. TrackedHasClient'
  BY DEF LeaseInv, TrackedHasClient, InUse, Busy
<1> QED
  BY <1>1, <1>2, <1>3 DEF LeaseInv

\* The initial states satisfy the invariant.
LEMMA InitLeases == Init => LeaseInv
<1> SUFFICES ASSUME Init PROVE LeaseInv
  OBVIOUS
<1>1. \A id \in Ids : Holders(id) = {}
  BY DEF Init, Holders, Idle, LeasePC
<1>2. LeasesMatchHolders
  BY <1>1, FS_EmptySet DEF Init, RegistryInit, LeasesMatchHolders
<1>3. HoldersHaveClient
  BY DEF Init, HoldersHaveClient, Idle, LeasePC
<1>4. TrackedHasClient
  BY DEF Init, TrackedHasClient, Keys
<1> QED
  BY <1>2, <1>3, <1>4, InitTypes DEF LeaseInv

\* Every step keeps the invariant.
LEMMA NextLeases == LeaseInv /\ [Next]_vars => LeaseInv'
<1> SUFFICES ASSUME LeaseInv, [Next]_vars PROVE LeaseInv'
  OBVIOUS
<1>0. TypeOK'
  BY NextTypes DEF LeaseInv
<1>1. ASSUME NEW p \in Procs, AddStep(p) \/ RemoveStep(p) \/ AdoptStep(p) PROVE LeaseInv'
  BY <1>1, AddLeases, RemoveLeases, AdoptLeases
<1>2. ASSUME NEW rev \in Revisions, NEW push \in Pushes, ConfigApply(rev, push) PROVE LeaseInv'
  <2>1. \A id \in Ids : Registered(id) /\ InUse(id, Busy) => Registered(id)'
    BY <1>2, PushKeepsUsed DEF ConfigApply, Apply, LeaseInv, TypeOK, Registered
  <2> QED
    BY <1>0, <1>2, <2>1, UsedKeptSuffices DEF ConfigApply, Apply
<1>3. ASSUME NEW id \in Ids, AdoptSkip(id) PROVE LeaseInv'
  BY <1>0, <1>3, KeepLeases, KeepClients DEF AdoptSkip, registryVars, LeaseInv
<1>4. ASSUME NEW k \in Keys, PollStep(k) \/ Elapse(k) PROVE LeaseInv'
  BY <1>0, <1>4, PollLeases
<1>5. CASE PollSnapshot
  BY <1>0, <1>5, KeepLeases, KeepClients DEF PollSnapshot, registryVars, LeaseInv
<1>6. CASE PollReap
  <2>1. \A id \in Ids : Registered(id) /\ InUse(id, Busy) => Registered(id)'
    BY <1>6 DEF PollReap, Reap, Reapable, Registered
  <2> QED
    BY <1>0, <1>6, <2>1, UsedKeptSuffices DEF PollReap, Reap
<1>7. ASSUME NEW e \in Endpoints, NEW j \in JobIds, RemoteFinish(e, j) \/ RemoteVanish(e, j)
      PROVE  LeaseInv'
  BY <1>0, <1>7, KeepLeases, KeepClients
     DEF RemoteFinish, RemoteVanish, registryVars, localVars, LeaseInv
<1>8. CASE Serve
  BY <1>0, <1>8, KeepLeases, KeepClients DEF Serve, registryVars, LeaseInv
<1>9. CASE Crash
  <2>1. \A id \in Ids : Holders(id)' = {}
    BY <1>9 DEF Crash, Holders, Idle, LeasePC
  <2>2. LeasesMatchHolders'
    BY <1>9, <2>1, FS_EmptySet DEF Crash, LeasesMatchHolders
  <2>3. HoldersHaveClient'
    BY <1>9 DEF Crash, HoldersHaveClient, Idle, LeasePC
  <2>4. TrackedHasClient'
    BY <1>9 DEF Crash, TrackedHasClient, Keys
  <2> QED
    BY <1>0, <2>2, <2>3, <2>4 DEF LeaseInv
<1>10. CASE UNCHANGED vars
  BY <1>0, <1>10, KeepLeases, KeepClients DEF vars, localVars, LeaseInv
<1> QED
  BY <1>1, <1>2, <1>3, <1>4, <1>5, <1>6, <1>7, <1>8, <1>9, <1>10 DEF Next

\* The invariant holds throughout.
THEOREM LeaseInvariant == Spec => []LeaseInv
BY InitLeases, NextLeases, PTL DEF Spec

\* A tracked job never loses its client: pushes and reaps leave a client that an
\* add, an adoption or a tracked job still needs (Registry.Apply, Registry.Reap).
THEOREM TrackedJobsHaveClients == Spec => []TrackedHasClient
<1>1. LeaseInv => TrackedHasClient
  BY DEF LeaseInv
<1> QED
  BY <1>1, LeaseInvariant, PTL

\* The lease counts are exact: every path of handleAdd and adopt releases what it
\* took, once (Registry.Lease).
THEOREM LeasesExact == Spec => []LeasesMatchHolders
<1>1. LeaseInv => LeasesMatchHolders
  BY DEF LeaseInv
<1> QED
  BY <1>1, LeaseInvariant, PTL

-----------------------------------------------------------------------------
(* Environment clients. *)

\* Every step leaves the environment clients as they are.
LEMMA NextEnv == EnvClientsFixed /\ [Next]_vars => EnvClientsFixed'
<1> SUFFICES ASSUME EnvClientsFixed, [Next]_vars, NEW id \in EnvIds
             PROVE  clients'[id] = EnvEntry(id)
  BY DEF EnvClientsFixed
<1> USE RegistryAssumption
<1>0. clients[id] = EnvEntry(id)
  BY DEF EnvClientsFixed
<1>1. CASE UNCHANGED clients
  BY <1>0, <1>1
<1>2. ASSUME NEW rev \in Revisions, NEW push \in Pushes, ConfigApply(rev, push)
      PROVE  clients'[id] = EnvEntry(id)
  BY <1>0, <1>2, PushKeepsEnv DEF ConfigApply, Apply
<1>3. CASE PollReap
  BY <1>0, <1>3 DEF PollReap, Reap, Reapable, EnvEntry
<1>4. CASE Crash
  BY <1>4 DEF Crash, BootClients
<1>5. ASSUME NEW p \in Procs, AddStep(p) \/ RemoveStep(p) \/ AdoptStep(p)
      PROVE  UNCHANGED clients
  BY <1>5 DEF AddStep, AddBegin, AddCall, AddLost, AddFail, AddTrack, AddStarted,
              RemoveStep, RemoveBegin, RemoveCall, RemoveFail, RemoveUntrack,
              AdoptStep, AdoptBegin, AdoptList, AdoptFail, AdoptDone, AdoptTrack,
              Lease, Release, registryVars
<1>6. ASSUME NEW k \in Keys, PollStep(k) \/ Elapse(k) PROVE UNCHANGED clients
  BY <1>6 DEF PollStep, PollGet, PollDrop, PollDescribe, PollError, PollEnded, PollLost, PollGiveUp,
              PollMissing, PollRunning, PollUntrack, Elapse, registryVars
<1>7. CASE \/ \E i \in Ids : AdoptSkip(i)
           \/ PollSnapshot \/ Serve \/ UNCHANGED vars
           \/ \E e \in Endpoints, j \in JobIds : RemoteFinish(e, j) \/ RemoteVanish(e, j)
  BY <1>1, <1>7 DEF AdoptSkip, PollSnapshot, Serve, RemoteFinish, RemoteVanish, registryVars, vars
<1> QED
  BY <1>1, <1>2, <1>3, <1>4, <1>5, <1>6, <1>7 DEF Next

\* No sequence of pushes, reaps and restarts replaces, drains or removes a client
\* configured in the environment (Registry.Apply, Registry.Reap).
THEOREM EnvClientsStay == Spec => []EnvClientsFixed
<1>1. Init => EnvClientsFixed
  BY RegistryAssumption DEF Init, RegistryInit, BootClients, EnvClientsFixed
<1> QED
  BY <1>1, NextEnv, PTL DEF Spec

-----------------------------------------------------------------------------
(* A job that is over stays so. *)

\* What a step may do to the jobs of a client: nothing, or one job begins, ends or
\* goes.
RemoteMoves ==
    \/ UNCHANGED remote
    \/ \E s \in Specs, i \in JobIds :
           \/ SetRemote(s, i, "gone")
           \/ RemoteJob(s, i) = "fresh" /\ SetRemote(s, i, "running")
    \/ \E f \in Endpoints, i \in JobIds, state \in {"completed", "failed", "gone"} :
           remote' = [remote EXCEPT ![f][i] = state]

\* Nobody brings back a job: a client that has a job never says again that it
\* runs or is yet to come.
LEMMA OverStaysOver ==
    ASSUME TypeOK, NEW e \in Endpoints, NEW j \in JobIds, remote[e][j] \notin {"fresh", "running"},
           RemoteMoves
    PROVE  remote'[e][j] \notin {"fresh", "running"}
<1>1. CASE UNCHANGED remote
  BY <1>1
<1>2. ASSUME NEW f \in Endpoints, NEW i \in JobIds, NEW state \in RemoteState,
             remote' = [remote EXCEPT ![f][i] = state],
             state \in {"completed", "failed", "gone"} \/ remote[f][i] = "fresh"
      PROVE  remote'[e][j] \notin {"fresh", "running"}
  <2>1. remote'[e][j] = IF e = f /\ j = i THEN state ELSE remote[e][j]
    BY <1>2 DEF TypeOK
  <2> QED
    BY <1>2, <2>1
<1>3. ASSUME NEW s \in Specs, NEW i \in JobIds,
             \/ SetRemote(s, i, "gone")
             \/ RemoteJob(s, i) = "fresh" /\ SetRemote(s, i, "running")
      PROVE  remote'[e][j] \notin {"fresh", "running"}
  <2>1. EndpointOf[s] \in Endpoints
    BY GatewayAssumption
  <2> QED
    BY <1>2, <1>3, <2>1 DEF SetRemote, RemoteJob, RemoteState
<1>4. ASSUME NEW f \in Endpoints, NEW i \in JobIds, NEW state \in {"completed", "failed", "gone"},
             remote' = [remote EXCEPT ![f][i] = state]
      PROVE  remote'[e][j] \notin {"fresh", "running"}
  BY <1>2, <1>4 DEF RemoteState
<1> QED
  BY <1>1, <1>3, <1>4 DEF RemoteMoves

\* Every step of the gateway and of its clients does that.
LEMMA RemoteSteps ==
    ASSUME TypeOK, [Next]_vars
    PROVE  RemoteMoves
<1>1. ASSUME NEW p \in Procs, AddStep(p) PROVE RemoteMoves
  <2>1. op[p].pc = "leased" => op[p].spec \in Specs
    BY OpByPC DEF TypeOK, Op, AddOp
  <2>2. ASSUME NEW j \in JobIds, AddCall(p, j) \/ AddLost(p, j) PROVE RemoteMoves
    BY <2>1, <2>2 DEF AddCall, AddLost, RemoteMoves
  <2>3. CASE UNCHANGED remote
    BY <2>3 DEF RemoteMoves
  <2> QED
    BY <1>1, <2>2, <2>3 DEF AddStep, AddBegin, AddFail, AddTrack, AddStarted
<1>2. ASSUME NEW p \in Procs, RemoveStep(p) PROVE RemoteMoves
  <2>1. op[p].pc = "removing" => op[p].spec \in Specs /\ op[p].job \in JobIds
    BY OpByPC DEF TypeOK, Op, RemoveOp
  <2>2. CASE RemoveCall(p)
    <3>1. /\ op[p].spec \in Specs /\ op[p].job \in JobIds
          /\ SetRemote(op[p].spec, op[p].job, "gone") \/ UNCHANGED remote
      BY <2>1, <2>2 DEF RemoveCall
    <3> QED
      BY <3>1, Zenon DEF RemoteMoves
  <2>3. CASE UNCHANGED remote
    BY <2>3 DEF RemoteMoves
  <2> QED
    BY <1>2, <2>2, <2>3 DEF RemoveStep, RemoveBegin, RemoveFail, RemoveUntrack
<1>3. ASSUME NEW e \in Endpoints, NEW j \in JobIds, RemoteFinish(e, j) \/ RemoteVanish(e, j)
      PROVE  RemoteMoves
  BY <1>3 DEF RemoteFinish, RemoteVanish, RemoteMoves
<1>4. CASE UNCHANGED remote
  BY <1>4 DEF RemoteMoves
<1>5. ASSUME NEW p \in Procs, AdoptStep(p) PROVE UNCHANGED remote
  BY <1>5 DEF AdoptStep, AdoptBegin, AdoptList, AdoptFail, AdoptDone, AdoptTrack
<1>6. ASSUME NEW k \in Keys, PollStep(k) \/ Elapse(k) PROVE UNCHANGED remote
  BY <1>6 DEF PollStep, PollGet, PollDrop, PollDescribe, PollError, PollEnded, PollLost, PollGiveUp,
              PollMissing, PollRunning, PollUntrack, Elapse
<1> QED
  BY <1>1, <1>2, <1>3, <1>4, <1>5, <1>6
  DEF Next, ConfigApply, AdoptSkip, PollSnapshot, PollReap, Serve, Crash, vars

\* A request or an adoption in flight that does not know a job does not come to
\* know it once it is over (handleAdd, adopt).
Unknown(k, p) ==
    /\ op[p].pc \in {"accepted", "tracked"} => op[p].job # k[2]
    /\ op[p].pc = "adopted" => k[2] \notin op[p].found

\* The steps of the requests and adoptions leave a settled job alone.
LEMMA ProcSettled ==
    ASSUME TypeOK, NEW k \in Keys, Settled(k), NEW p \in Procs,
           AddStep(p) \/ RemoveStep(p) \/ AdoptStep(p)
    PROVE  /\ jobs'[k] = Nil /\ poll'[k] = Nil
           /\ \A q \in Procs : Unknown(k, q)'
<1>0. /\ op \in [Procs -> Op] /\ op[p] \in Op /\ k[2] \in JobIds /\ k = <<k[1], k[2]>>
      /\ jobs \in [Keys -> Tracked \cup {Nil}]
      /\ jobs[k] = Nil /\ poll[k] = Nil
      /\ \A q \in Procs : Unknown(k, q)
      /\ \A s \in Specs : RemoteJob(s, k[2]) \notin {"fresh", "running"}
  BY GatewayAssumption DEF TypeOK, Op, Keys, Settled, Unknown, RemoteJob
<1>1. ASSUME UNCHANGED <<jobs, poll>>, Unknown(k, p)',
             \A q \in Procs \ {p} : op'[q] = op[q]
      PROVE  /\ jobs'[k] = Nil /\ poll'[k] = Nil
             /\ \A q \in Procs : Unknown(k, q)'
  BY <1>0, <1>1 DEF Unknown
<1>2. ASSUME NEW id \in Ids, NEW w \in WantedItem, AddBegin(p, id, w)
      PROVE  Unknown(k, p)' /\ \A q \in Procs \ {p} : op'[q] = op[q]
  BY <1>0, <1>2 DEF AddBegin, Unknown
<1>3. ASSUME NEW j \in JobIds, AddCall(p, j)
      PROVE  Unknown(k, p)' /\ \A q \in Procs \ {p} : op'[q] = op[q]
  <2>1. op[p] \in AddOp
    BY <1>0, <1>3, OpByPC DEF AddCall
  <2>2. j # k[2]
    BY <1>0, <1>3, <2>1 DEF AddCall, AddOp
  <2> QED
    BY <1>0, <1>3, <2>1, <2>2 DEF AddCall, AddOp, Unknown
<1>4. ASSUME Finish(p)
      PROVE  Unknown(k, p)' /\ \A q \in Procs \ {p} : op'[q] = op[q]
  BY <1>0, <1>4 DEF Finish, Idle, Unknown
<1>5. ASSUME AddTrack(p)
      PROVE  /\ jobs'[k] = Nil
             /\ Unknown(k, p)' /\ \A q \in Procs \ {p} : op'[q] = op[q]
  <2>1. op[p] \in AddOp /\ op[p].job # k[2]
    BY <1>0, <1>5, OpByPC DEF AddTrack, Unknown
  <2> QED
    BY <1>0, <1>5, <2>1 DEF AddTrack, AddOp, Track, Unknown
<1>6. ASSUME NEW id \in Ids, NEW j \in JobIds, RemoveBegin(p, id, j)
      PROVE  Unknown(k, p)' /\ \A q \in Procs \ {p} : op'[q] = op[q]
  BY <1>0, <1>6 DEF RemoveBegin, Unknown
<1>7. ASSUME RemoveCall(p)
      PROVE  Unknown(k, p)' /\ \A q \in Procs \ {p} : op'[q] = op[q]
  <2>1. op[p] \in RemoveOp
    BY <1>0, <1>7, OpByPC DEF RemoveCall
  <2> QED
    BY <1>0, <1>7, <2>1 DEF RemoveCall, RemoveOp, Unknown
<1>8. ASSUME RemoveUntrack(p) PROVE jobs'[k] = Nil
  BY <1>0, <1>8 DEF RemoveUntrack, Untrack
<1>9. ASSUME NEW id \in Ids, AdoptBegin(p, id)
      PROVE  Unknown(k, p)' /\ \A q \in Procs \ {p} : op'[q] = op[q]
  BY <1>0, <1>9 DEF AdoptBegin, Unknown
<1>10. ASSUME AdoptList(p)
       PROVE  Unknown(k, p)' /\ \A q \in Procs \ {p} : op'[q] = op[q]
  <2>1. op[p] \in AdoptOp
    BY <1>0, <1>10, OpByPC DEF AdoptList
  <2>2. k[2] \notin Adoptable(op[p].spec)
    BY <1>0, <2>1 DEF AdoptOp, Adoptable
  <2> QED
    BY <1>0, <1>10, <2>1, <2>2 DEF AdoptList, AdoptOp, Unknown
<1>11. ASSUME NEW j \in JobIds, AdoptTrack(p, j)
       PROVE  /\ jobs'[k] = Nil
              /\ Unknown(k, p)' /\ \A q \in Procs \ {p} : op'[q] = op[q]
  <2>1. op[p] \in AdoptOp /\ j # k[2]
    BY <1>0, <1>11, OpByPC DEF AdoptTrack, Unknown
  <2>2. jobs'[k] = Nil
    BY <1>0, <1>11, <2>1 DEF AdoptTrack, TrackIfAbsent, Track
  <2> QED
    BY <1>0, <1>11, <2>1, <2>2 DEF AdoptTrack, AdoptOp, Unknown
<1>12. CASE AddStep(p)
  <2>1. CASE AddTrack(p)
    BY <1>0, <1>5, <2>1 DEF AddTrack, Unknown
  <2> QED
    BY <1>1, <1>2, <1>3, <1>4, <1>12, <2>1 DEF AddStep, AddBegin, AddCall, AddLost, AddFail, AddStarted
<1>13. CASE RemoveStep(p)
  <2>1. CASE RemoveUntrack(p)
    BY <1>0, <1>4, <1>8, <2>1 DEF RemoveUntrack, Unknown
  <2> QED
    BY <1>1, <1>4, <1>6, <1>7, <1>13, <2>1 DEF RemoveStep, RemoveBegin, RemoveCall, RemoveFail
<1>14. CASE AdoptStep(p)
  <2>1. ASSUME NEW j \in JobIds, AdoptTrack(p, j)
        PROVE  /\ jobs'[k] = Nil /\ poll'[k] = Nil
               /\ \A q \in Procs : Unknown(k, q)'
    BY <1>0, <1>11, <2>1 DEF AdoptTrack, Unknown
  <2> QED
    BY <1>1, <1>4, <1>9, <1>10, <1>14, <2>1 DEF AdoptStep, AdoptBegin, AdoptList, AdoptFail, AdoptDone
<1> QED
  BY <1>12, <1>13, <1>14

\* Every step leaves a settled job settled.
LEMMA NextSettled ==
    ASSUME TypeOK, [Next]_vars, NEW k \in Keys, Settled(k)
    PROVE  Settled(k)'
<1>1. \A e \in Endpoints : remote'[e][k[2]] \notin {"fresh", "running"}
  BY RemoteSteps, OverStaysOver DEF Settled, Keys
<1>2. /\ jobs[k] = Nil /\ poll[k] = Nil /\ \A q \in Procs : Unknown(k, q)
      /\ jobs \in [Keys -> Tracked \cup {Nil}] /\ poll \in [Keys -> PollTask \cup {Nil}]
      /\ k = <<k[1], k[2]>>
  BY DEF Settled, Unknown, TypeOK, Keys
<1>3. SUFFICES /\ jobs'[k] = Nil /\ poll'[k] = Nil
               /\ \A q \in Procs : Unknown(k, q)'
  BY <1>1 DEF Settled, Unknown
<1>4. ASSUME NEW p \in Procs, AddStep(p) \/ RemoveStep(p) \/ AdoptStep(p)
      PROVE  /\ jobs'[k] = Nil /\ poll'[k] = Nil
             /\ \A q \in Procs : Unknown(k, q)'
  BY <1>4, ProcSettled
<1>5. ASSUME UNCHANGED op, jobs'[k] = Nil, poll'[k] = Nil
      PROVE  /\ jobs'[k] = Nil /\ poll'[k] = Nil
             /\ \A q \in Procs : Unknown(k, q)'
  BY <1>2, <1>5 DEF Unknown
<1>6. ASSUME NEW l \in Keys, PollStep(l) \/ Elapse(l)
      PROVE  UNCHANGED op /\ jobs'[k] = Nil /\ poll'[k] = Nil
  <2>1. l # k
    BY <1>2, <1>6 DEF PollStep, PollGet, PollDrop, PollDescribe, PollError, PollEnded, PollLost, PollGiveUp,
                      PollMissing, PollRunning, PollUntrack, Elapse, AtPoll
  <2>2. l = <<l[1], l[2]>>
    BY DEF Keys
  <2>3. UNCHANGED op
    BY <1>6 DEF PollStep, PollGet, PollDrop, PollDescribe, PollError, PollEnded, PollLost, PollGiveUp,
                PollMissing, PollRunning, PollUntrack, Elapse
  <2>4. jobs'[k] = Nil
    BY <1>2, <1>6, <2>1, <2>2
    DEF PollStep, PollGet, PollDrop, PollDescribe, PollError, PollEnded, PollLost, PollGiveUp, PollMissing,
        PollRunning, PollUntrack, Elapse, Untrack, MarkMissing, ClearMissing
  <2>5. poll'[k] = Nil
    BY <1>2, <1>6, <2>1
    DEF PollStep, PollGet, PollDrop, PollDescribe, PollError, PollEnded, PollLost, PollGiveUp, PollMissing,
        PollRunning, PollUntrack, Elapse
  <2> QED
    BY <2>3, <2>4, <2>5
<1>7. CASE PollSnapshot
  BY <1>2, <1>5, <1>7 DEF PollSnapshot
<1>8. CASE Crash
  <2>1. jobs'[k] = Nil /\ poll'[k] = Nil
    BY <1>8 DEF Crash
  <2>2. \A q \in Procs : op'[q] = Idle
    BY <1>8 DEF Crash
  <2> QED
    BY <2>1, <2>2 DEF Unknown, Idle
<1>9. CASE UNCHANGED <<op, jobs, poll>>
  BY <1>2, <1>5, <1>9
<1> QED
  BY <1>4, <1>5, <1>6, <1>7, <1>8, <1>9
  DEF Next, ConfigApply, AdoptSkip, PollReap, RemoteFinish, RemoteVanish, Serve, vars, localVars

\* A job that is over and that nothing in flight knows is never tracked or polled
\* again, so that no event of it is replayed, whatever is pushed, adopted or
\* restarted from then on (adopt).
THEOREM SettledForGood == Spec => SettledStays
<1>1. TypeOK /\ [Next]_vars =>
          [\A k \in Keys : Settled(k) => Settled(k)']_vars
  BY NextSettled
<1> QED
  BY <1>1, TypeCorrect, PTL DEF Spec, SettledStays

-----------------------------------------------------------------------------
(* A tracked job keeps its wanted item. *)

\* No two instances give out the same job id.  qBittorrent's tags are random
\* numbers; NZBGet counts its jobs, so that a client id which is pointed at another
\* NZBGet while an add is in flight may get the same id twice.
DistinctJobs ==
    \A e, f \in Endpoints, j \in JobIds :
        remote[e][j] # "fresh" /\ remote[f][j] # "fresh" => e = f

Begun(j) == \E e \in Endpoints : remote[e][j] # "fresh"

\* A tracked or listed job has begun, and the job that an add is about to track is
\* its own: nobody else has tracked it with a wanted item or is about to.
WantedInv ==
    /\ \A k \in Keys : jobs[k] # Nil => Begun(k[2])
    /\ \A p \in Procs : op[p].pc = "adopted" => \A j \in op[p].found : Begun(j)
    /\ \A p \in Procs :
        op[p].pc = "accepted" =>
            /\ op[p].job \in JobIds /\ Begun(op[p].job)
            /\ \A id \in Ids : jobs[<<id, op[p].job>>] # Nil => jobs[<<id, op[p].job>>].wanted = Nil
            /\ \A q \in Procs \ {p} : op[q].pc = "accepted" => op[q].job # op[p].job

\* A job that has begun is never yet to come again.
LEMMA BegunStays ==
    ASSUME TypeOK, [Next]_vars, NEW j \in JobIds, Begun(j)
    PROVE  Begun(j)'
<1>1. PICK e \in Endpoints : remote[e][j] # "fresh"
  BY DEF Begun
<1>2. ASSUME NEW f \in Endpoints, NEW i \in JobIds, NEW state \in RemoteState \ {"fresh"},
             remote' = [remote EXCEPT ![f][i] = state]
      PROVE  remote'[e][j] # "fresh"
  <2>1. remote'[e][j] = IF e = f /\ j = i THEN state ELSE remote[e][j]
    BY <1>2 DEF TypeOK
  <2> QED
    BY <1>1, <1>2, <2>1
<1>3. \A s \in Specs : EndpointOf[s] \in Endpoints
  BY GatewayAssumption
<1>4. remote'[e][j] # "fresh"
  BY <1>1, <1>2, <1>3, RemoteSteps DEF RemoteMoves, SetRemote, RemoteState
<1> QED
  BY <1>4 DEF Begun

\* The wanted items of the jobs that stay tracked.
SameWanted ==
    \A k \in Keys :
        jobs'[k] # Nil => jobs[k] # Nil /\ jobs'[k].wanted = jobs[k].wanted

\* A step that tracks nothing, lists nothing and accepts nothing.
LEMMA KeepWanted ==
    ASSUME WantedInv, SameWanted, TypeOK,
           \A j \in JobIds : Begun(j) => Begun(j)',
           \A p \in Procs :
               /\ op'[p].pc = "accepted" => op[p].pc = "accepted" /\ op'[p].job = op[p].job
               /\ op'[p].pc = "adopted" => op[p].pc = "adopted" /\ op'[p].found \subseteq op[p].found
    PROVE  WantedInv'
<1>1. \A k \in Keys : k[2] \in JobIds
  BY DEF Keys
<1>2. \A id \in Ids, j \in JobIds : <<id, j>> \in Keys
  BY DEF Keys
<1>3. \A p \in Procs : op[p].pc = "adopted" => op[p].found \subseteq JobIds
  BY OpByPC DEF TypeOK, Op, AdoptOp
<1>4. \A k \in Keys : jobs'[k] # Nil => Begun(k[2])'
  BY <1>1 DEF WantedInv, SameWanted
<1>5. \A p \in Procs : op'[p].pc = "adopted" => \A j \in op'[p].found : Begun(j)'
  BY <1>3 DEF WantedInv
<1>6. ASSUME NEW p \in Procs, op'[p].pc = "accepted"
      PROVE  /\ op'[p].job \in JobIds /\ Begun(op[p].job)'
             /\ \A id \in Ids :
                    jobs'[<<id, op'[p].job>>] # Nil => jobs'[<<id, op'[p].job>>].wanted = Nil
             /\ \A q \in Procs \ {p} : op'[q].pc = "accepted" => op'[q].job # op'[p].job
  <2>1. op[p].pc = "accepted" /\ op'[p].job = op[p].job
    BY <1>6
  <2>2. op[p].job \in JobIds /\ Begun(op[p].job)
    BY <2>1 DEF WantedInv
  <2>3. \A id \in Ids :
            jobs'[<<id, op[p].job>>] # Nil => jobs'[<<id, op[p].job>>].wanted = Nil
    BY <1>2, <2>1, <2>2 DEF WantedInv, SameWanted
  <2>4. \A q \in Procs \ {p} : op'[q].pc = "accepted" => op'[q].job # op[p].job
    BY <2>1 DEF WantedInv
  <2> QED
    BY <2>1, <2>2, <2>3, <2>4 DEF Begun
<1> QED
  BY <1>4, <1>5, <1>6 DEF WantedInv, Begun

\* The id of a job that a client takes for an add is new to every instance
\* (handleAdd).
LEMMA TakenIsNew ==
    ASSUME TypeOK, DistinctJobs', NEW p \in Procs, NEW j \in JobIds, AddCall(p, j)
    PROVE  ~Begun(j)
<1>1. op[p] \in AddOp
  BY OpByPC DEF AddCall, TypeOK, Op
<1> DEFINE e == EndpointOf[op[p].spec]
<1>2. e \in Endpoints
  BY <1>1, GatewayAssumption DEF AddOp
<1>3. /\ remote[e][j] = "fresh" /\ remote'[e][j] = "running"
      /\ \A f \in Endpoints \ {e} : remote'[f][j] = remote[f][j]
  BY <1>2 DEF AddCall, RemoteJob, SetRemote, TypeOK
<1> QED
  BY <1>2, <1>3 DEF DistinctJobs, Begun

\* The client takes a job for an add: as no other instance has one of its id,
\* nobody knows it yet (handleAdd).
LEMMA AddCallWanted ==
    ASSUME LeaseInv, WantedInv, DistinctJobs', [Next]_vars,
           NEW p \in Procs, NEW j \in JobIds, AddCall(p, j)
    PROVE  WantedInv'
<1>0. TypeOK /\ op \in [Procs -> Op] /\ op[p] \in Op
  BY DEF LeaseInv, TypeOK, Op
<1>1. op[p] \in AddOp
  BY <1>0, OpByPC DEF AddCall
<1> DEFINE e == EndpointOf[op[p].spec]
<1>2. e \in Endpoints
  BY <1>1, GatewayAssumption DEF AddOp
<1>3. /\ remote[e][j] = "fresh" /\ remote'[e][j] = "running"
      /\ \A f \in Endpoints \ {e} : remote'[f][j] = remote[f][j]
  BY <1>0, <1>2 DEF AddCall, RemoteJob, SetRemote, TypeOK
<1>4. ~Begun(j)
  BY <1>0, TakenIsNew
<1>5. Begun(j)' /\ \A i \in JobIds : Begun(i) => Begun(i)'
  BY <1>0, <1>2, <1>3, BegunStays DEF Begun
<1>6. /\ op'[p].pc = "accepted" /\ op'[p].job = j
      /\ \A q \in Procs \ {p} : op'[q] = op[q]
      /\ jobs' = jobs
  BY <1>0, <1>1 DEF AddCall, AddOp
<1>7. \A q \in Procs \ {p} : op[q].pc = "accepted" => op[q].job # j
  BY <1>4 DEF WantedInv
<1>8. \A id \in Ids : jobs[<<id, j>>] = Nil
  BY <1>4 DEF WantedInv, Keys
<1>9. \A k \in Keys : jobs'[k] # Nil => Begun(k[2])'
  BY <1>5, <1>6 DEF WantedInv, Keys
<1>10. \A q \in Procs : op'[q].pc = "adopted" => \A i \in op'[q].found : Begun(i)'
  <2>1. \A q \in Procs : op[q].pc = "adopted" => op[q].found \subseteq JobIds
    BY <1>0, OpByPC DEF AdoptOp
  <2> QED
    BY <1>5, <1>6, <2>1 DEF WantedInv
<1>11. ASSUME NEW q \in Procs, op'[q].pc = "accepted"
       PROVE  /\ op'[q].job \in JobIds /\ Begun(op[q].job)'
              /\ \A id \in Ids :
                     jobs'[<<id, op'[q].job>>] # Nil => jobs'[<<id, op'[q].job>>].wanted = Nil
              /\ \A r \in Procs \ {q} : op'[r].pc = "accepted" => op'[r].job # op'[q].job
  <2>1. CASE q = p
    BY <1>5, <1>6, <1>7, <1>8, <2>1 DEF Begun
  <2>2. CASE q # p
    <3>1. op'[q] = op[q] /\ op[q].pc = "accepted" /\ op[q].job \in JobIds /\ Begun(op[q].job)
      BY <1>6, <1>11, <2>2 DEF WantedInv
    <3>2. \A id \in Ids : jobs[<<id, op[q].job>>] # Nil => jobs[<<id, op[q].job>>].wanted = Nil
      BY <3>1 DEF WantedInv
    <3>3. \A r \in Procs \ {q} : op'[r].pc = "accepted" => op'[r].job # op[q].job
      BY <1>6, <1>7, <3>1, <2>2 DEF WantedInv
    <3> QED
      BY <1>5, <1>6, <3>1, <3>2, <3>3 DEF Begun
  <2> QED
    BY <2>1, <2>2
<1> QED
  BY <1>9, <1>10, <1>11 DEF WantedInv, Begun

\* An add tracks a job that nobody else has tracked with a wanted item
\* (handleAdd).
LEMMA AddTrackWanted ==
    ASSUME LeaseInv, WantedInv, NEW p \in Procs, AddTrack(p)
    PROVE  /\ WantedInv'
           /\ \A k \in Keys :
                  jobs[k] # Nil /\ jobs'[k] # Nil /\ jobs[k].wanted # Nil =>
                      jobs'[k].wanted = jobs[k].wanted
<1>0. TypeOK /\ op \in [Procs -> Op] /\ op[p] \in Op /\ jobs \in [Keys -> Tracked \cup {Nil}]
  BY DEF LeaseInv, TypeOK, Op
<1>1. op[p] \in AddOp
  BY <1>0, OpByPC DEF AddTrack
<1> DEFINE k == <<op[p].id, op[p].job>>
<1>2. /\ op[p].job \in JobIds /\ Begun(op[p].job) /\ k \in Keys
      /\ jobs[k] # Nil => jobs[k].wanted = Nil
      /\ \A q \in Procs \ {p} : op[q].pc = "accepted" => op[q].job # op[p].job
  BY <1>1 DEF WantedInv, AddTrack, AddOp, Keys
<1>3. /\ op'[p].pc = "tracked" /\ \A q \in Procs \ {p} : op'[q] = op[q]
      /\ \A l \in Keys \ {k} : jobs'[l] = jobs[l]
      /\ remote' = remote
  BY <1>0, <1>1, <1>2 DEF AddTrack, AddOp, Track
<1>4. \A l \in Keys : jobs'[l] # Nil => Begun(l[2])'
  BY <1>2, <1>3 DEF WantedInv, Begun
<1>5. \A q \in Procs : op'[q].pc = "adopted" => \A i \in op'[q].found : Begun(i)'
  BY <1>3 DEF WantedInv, Begun
<1>6. ASSUME NEW q \in Procs, op'[q].pc = "accepted"
      PROVE  /\ op'[q].job \in JobIds /\ Begun(op[q].job)'
             /\ \A id \in Ids :
                    jobs'[<<id, op'[q].job>>] # Nil => jobs'[<<id, op'[q].job>>].wanted = Nil
             /\ \A r \in Procs \ {q} : op'[r].pc = "accepted" => op'[r].job # op'[q].job
  <2>1. q # p /\ op'[q] = op[q] /\ op[q].pc = "accepted" /\ op[q].job # op[p].job
    BY <1>2, <1>3, <1>6
  <2>2. op[q].job \in JobIds /\ Begun(op[q].job)
    BY <2>1 DEF WantedInv
  <2>3. \A id \in Ids : jobs'[<<id, op[q].job>>] = jobs[<<id, op[q].job>>]
    BY <1>3, <2>1, <2>2 DEF Keys
  <2>4. \A id \in Ids : jobs[<<id, op[q].job>>] # Nil => jobs[<<id, op[q].job>>].wanted = Nil
    BY <2>1 DEF WantedInv
  <2>5. \A r \in Procs \ {q} : op'[r].pc = "accepted" => op'[r].job # op[q].job
    BY <1>3, <2>1 DEF WantedInv
  <2> QED
    BY <1>3, <2>1, <2>2, <2>3, <2>4, <2>5 DEF Begun
<1> QED
  BY <1>2, <1>3, <1>4, <1>5, <1>6 DEF WantedInv, Begun

\* An adoption tracks a job only when it is not tracked, and with no wanted item
\* (adopt, trackIfAbsent).
LEMMA AdoptTrackWanted ==
    ASSUME LeaseInv, WantedInv, NEW p \in Procs, NEW j \in JobIds, AdoptTrack(p, j)
    PROVE  /\ WantedInv'
           /\ \A k \in Keys :
                  jobs[k] # Nil /\ jobs'[k] # Nil /\ jobs[k].wanted # Nil =>
                      jobs'[k].wanted = jobs[k].wanted
<1>0. TypeOK /\ op \in [Procs -> Op] /\ op[p] \in Op /\ jobs \in [Keys -> Tracked \cup {Nil}]
  BY DEF LeaseInv, TypeOK, Op
<1>1. op[p] \in AdoptOp /\ Begun(j)
  BY <1>0, OpByPC DEF AdoptTrack, WantedInv
<1> DEFINE k == <<op[p].id, j>>
<1>2. k \in Keys /\ NewTracked(Nil).wanted = Nil
  BY <1>1 DEF AdoptOp, Keys, NewTracked
<1>3. /\ op'[p].pc = "adopted" /\ op'[p].found \subseteq op[p].found
      /\ \A q \in Procs \ {p} : op'[q] = op[q]
      /\ remote' = remote
  BY <1>0, <1>1 DEF AdoptTrack, AdoptOp
<1>4. /\ \A l \in Keys \ {k} : jobs'[l] = jobs[l]
      /\ jobs'[k] = IF jobs[k] = Nil THEN NewTracked(Nil) ELSE jobs[k]
  BY <1>0, <1>2 DEF AdoptTrack, TrackIfAbsent, Track
<1>5. \A l \in Keys : jobs'[l] # Nil => Begun(l[2])'
  BY <1>1, <1>3, <1>4 DEF WantedInv, Begun
<1>6. \A q \in Procs : op'[q].pc = "adopted" => \A i \in op'[q].found : Begun(i)'
  <2>1. op[p].pc = "adopted"
    BY DEF AdoptTrack
  <2> QED
    BY <1>3, <2>1 DEF WantedInv, Begun
<1>7. \A l \in Keys : jobs'[l] # Nil /\ jobs'[l].wanted # Nil => jobs'[l] = jobs[l]
  BY <1>2, <1>4
<1>8. ASSUME NEW q \in Procs, op'[q].pc = "accepted"
      PROVE  /\ op'[q].job \in JobIds /\ Begun(op[q].job)'
             /\ \A id \in Ids :
                    jobs'[<<id, op'[q].job>>] # Nil => jobs'[<<id, op'[q].job>>].wanted = Nil
             /\ \A r \in Procs \ {q} : op'[r].pc = "accepted" => op'[r].job # op'[q].job
  <2>1. op'[q] = op[q] /\ op[q].pc = "accepted"
    BY <1>3, <1>8
  <2>2. op[q].job \in JobIds /\ Begun(op[q].job)
    BY <2>1 DEF WantedInv
  <2>3. \A id \in Ids : <<id, op[q].job>> \in Keys
    BY <2>2 DEF Keys
  <2>4. \A id \in Ids : jobs[<<id, op[q].job>>] # Nil => jobs[<<id, op[q].job>>].wanted = Nil
    BY <2>1 DEF WantedInv
  <2>5. \A r \in Procs \ {q} : op'[r].pc = "accepted" => op'[r].job # op[q].job
    BY <1>3, <2>1 DEF WantedInv
  <2> QED
    BY <1>3, <1>7, <2>1, <2>2, <2>3, <2>4, <2>5 DEF Begun
<1> QED
  BY <1>4, <1>5, <1>6, <1>8 DEF WantedInv, Begun

\* A step that leaves the tracked jobs alone, or forgets some, keeps the wanted
\* items of the others.
LEMMA SameWantedKept ==
    ASSUME SameWanted
    PROVE  \A k \in Keys :
               jobs[k] # Nil /\ jobs'[k] # Nil /\ jobs[k].wanted # Nil =>
                   jobs'[k].wanted = jobs[k].wanted
BY DEF SameWanted

\* Every step keeps the invariant and the wanted items.
LEMMA NextWanted ==
    ASSUME LeaseInv, WantedInv, DistinctJobs', [Next]_vars
    PROVE  /\ WantedInv'
           /\ \A k \in Keys :
                  jobs[k] # Nil /\ jobs'[k] # Nil /\ jobs[k].wanted # Nil =>
                      jobs'[k].wanted = jobs[k].wanted
<1> DEFINE Kept == \A k \in Keys :
                       jobs[k] # Nil /\ jobs'[k] # Nil /\ jobs[k].wanted # Nil =>
                           jobs'[k].wanted = jobs[k].wanted
           Quiet == \A p \in Procs :
               /\ op'[p].pc = "accepted" => op[p].pc = "accepted" /\ op'[p].job = op[p].job
               /\ op'[p].pc = "adopted" => op[p].pc = "adopted" /\ op'[p].found \subseteq op[p].found
<1>0. /\ TypeOK /\ op \in [Procs -> Op] /\ jobs \in [Keys -> Tracked \cup {Nil}]
      /\ \A j \in JobIds : Begun(j) => Begun(j)'
  BY BegunStays DEF LeaseInv, TypeOK, Op
<1>1. ASSUME SameWanted, Quiet PROVE WantedInv' /\ Kept
  BY <1>0, <1>1, KeepWanted, SameWantedKept
<1>2. ASSUME NEW p \in Procs, AddStep(p) PROVE WantedInv' /\ Kept
  <2>1. ASSUME NEW j \in JobIds, AddCall(p, j) PROVE WantedInv' /\ Kept
    BY <2>1, AddCallWanted DEF AddCall
  <2>2. CASE AddTrack(p)
    BY <2>2, AddTrackWanted
  <2>3. ASSUME NEW id \in Ids, NEW w \in WantedItem, AddBegin(p, id, w) PROVE SameWanted /\ Quiet
    BY <1>0, <2>3 DEF AddBegin, SameWanted
  <2>4. ASSUME UNCHANGED jobs, Finish(p) PROVE SameWanted /\ Quiet
    BY <1>0, <2>4 DEF Finish, Idle, SameWanted
  <2> QED
    BY <1>1, <1>2, <2>1, <2>2, <2>3, <2>4 DEF AddStep, AddLost, AddFail, AddStarted
<1>3. ASSUME NEW p \in Procs, RemoveStep(p) PROVE SameWanted /\ Quiet
  <2>1. SameWanted
    BY <1>0, <1>3 DEF RemoveStep, RemoveBegin, RemoveCall, RemoveFail, RemoveUntrack, Untrack,
                      SameWanted
  <2>2. ASSUME NEW id \in Ids, NEW j \in JobIds, RemoveBegin(p, id, j) PROVE Quiet
    BY <1>0, <2>2 DEF RemoveBegin
  <2>3. CASE RemoveCall(p)
    <3>1. op[p] \in RemoveOp
      BY <1>0, <2>3, OpByPC DEF RemoveCall
    <3> QED
      BY <1>0, <2>1, <2>3, <3>1 DEF RemoveCall, RemoveOp
  <2>4. CASE Finish(p)
    BY <1>0, <2>1, <2>4 DEF Finish, Idle
  <2> QED
    BY <1>3, <2>1, <2>2, <2>3, <2>4 DEF RemoveStep, RemoveFail, RemoveUntrack
<1>4. ASSUME NEW p \in Procs, AdoptStep(p) PROVE WantedInv' /\ Kept
  <2>1. ASSUME NEW j \in JobIds, AdoptTrack(p, j) PROVE WantedInv' /\ Kept
    BY <2>1, AdoptTrackWanted
  <2>2. CASE AdoptList(p)
    <3>1. op[p] \in AdoptOp
      BY <1>0, <2>2, OpByPC DEF AdoptList
    <3>2. /\ op'[p].pc = "adopted" /\ op'[p].found = Adoptable(op[p].spec)
          /\ \A q \in Procs \ {p} : op'[q] = op[q]
          /\ UNCHANGED <<jobs, remote>>
      BY <1>0, <2>2, <3>1 DEF AdoptList, AdoptOp
    <3>3. EndpointOf[op[p].spec] \in Endpoints
      BY <3>1, GatewayAssumption DEF AdoptOp
    <3>4. \A j \in Adoptable(op[p].spec) : Begun(j)
      BY <3>3 DEF Adoptable, RemoteJob, Begun
    <3>5. \A j \in JobIds : Begun(j)' <=> Begun(j)
      BY <3>2 DEF Begun
    <3>6. Adoptable(op[p].spec) \subseteq JobIds
      BY DEF Adoptable
    <3>7. SameWanted
      BY <3>2 DEF SameWanted
    <3>8. \A k \in Keys : jobs'[k] # Nil => Begun(k[2])'
      BY <3>2, <3>5 DEF WantedInv, Keys
    <3>9. \A q \in Procs : op'[q].pc = "adopted" => \A j \in op'[q].found : Begun(j)'
      BY <3>2, <3>4, <1>0 DEF WantedInv, Begun
    <3>10. \A q \in Procs : op'[q].pc = "accepted" => op'[q] = op[q] /\ q # p
      BY <3>2
    <3>11. \A q \in Procs :
              op'[q].pc = "accepted" =>
                  /\ op'[q].job \in JobIds /\ Begun(op[q].job)'
                  /\ \A id \in Ids : jobs'[<<id, op'[q].job>>] # Nil =>
                                        jobs'[<<id, op'[q].job>>].wanted = Nil
                  /\ \A r \in Procs \ {q} : op'[r].pc = "accepted" => op'[r].job # op'[q].job
      BY <3>2, <3>5, <3>10 DEF WantedInv
    <3>12. WantedInv'
      BY <3>8, <3>9, <3>10, <3>11 DEF WantedInv, Begun
    <3> QED
      BY <3>7, <3>12, SameWantedKept
  <2>3. ASSUME NEW id \in Ids, AdoptBegin(p, id) PROVE SameWanted /\ Quiet
    <3>1. UNCHANGED jobs /\ op'[p].pc = "adopting" /\ \A q \in Procs \ {p} : op'[q] = op[q]
      BY <1>0, <2>3 DEF AdoptBegin
    <3> QED
      BY <3>1 DEF SameWanted
  <2>4. ASSUME UNCHANGED jobs, Finish(p) PROVE SameWanted /\ Quiet
    BY <1>0, <2>4 DEF Finish, Idle, SameWanted
  <2> QED
    BY <1>1, <1>4, <2>1, <2>2, <2>3, <2>4 DEF AdoptStep, AdoptFail, AdoptDone
<1>5. ASSUME NEW k \in Keys, PollStep(k) \/ Elapse(k) PROVE SameWanted /\ Quiet
  <2>1. UNCHANGED op
    BY <1>5 DEF PollStep, PollGet, PollDrop, PollDescribe, PollError, PollEnded, PollLost, PollGiveUp,
                PollMissing, PollRunning, PollUntrack, Elapse
  <2>2. CASE UNCHANGED jobs
    <3>1. SameWanted
      BY <2>2 DEF SameWanted
    <3> QED
      BY <2>1, <3>1
  <2>3. CASE PollDrop(k) \/ PollUntrack(k)
    BY <1>0, <2>3 DEF PollDrop, PollUntrack, Untrack, SameWanted
  <2>4. CASE PollMissing(k) \/ PollRunning(k) \/ Elapse(k)
    BY <1>0, <2>4 DEF PollMissing, PollRunning, Elapse, MarkMissing, ClearMissing, Tracked,
                      SameWanted
  <2>5. SameWanted
    BY <1>5, <2>2, <2>3, <2>4 DEF PollStep, PollGet, PollDescribe, PollError, PollEnded, PollLost, PollGiveUp
  <2> QED
    BY <2>1, <2>5
<1>6. CASE Crash
  <2>1. \A k \in Keys : jobs'[k] = Nil
    BY <1>6 DEF Crash
  <2>2. \A p \in Procs : op'[p] = Idle
    BY <1>6 DEF Crash
  <2>3. SameWanted
    BY <2>1 DEF SameWanted
  <2>4. Quiet
    BY <2>2 DEF Idle
  <2> QED
    BY <1>1, <2>3, <2>4
<1>7. CASE UNCHANGED <<op, jobs>>
  BY <1>1, <1>7 DEF SameWanted
<1> HIDE DEF Kept, Quiet
<1>8. CASE \/ \E rev \in Revisions, push \in Pushes : ConfigApply(rev, push)
           \/ \E id \in Ids : AdoptSkip(id)
           \/ PollSnapshot \/ PollReap
           \/ \E e \in Endpoints, j \in JobIds : RemoteFinish(e, j) \/ RemoteVanish(e, j)
           \/ Serve \/ UNCHANGED vars
  <2>1. UNCHANGED <<op, jobs>>
    BY <1>8 DEF ConfigApply, AdoptSkip, PollSnapshot, PollReap, RemoteFinish, RemoteVanish, Serve,
                vars, localVars
  <2> QED
    BY <1>7, <2>1 DEF Kept
<1>9. WantedInv' /\ Kept
  BY <1>1, <1>2, <1>3, <1>4, <1>5, <1>6, <1>8 DEF Next, Kept
<1> QED
  BY <1>9 DEF Kept

\* As long as no two instances give out the same job id, a tracked job's wanted
\* item is neither lost nor exchanged: not by an adoption that finds the job of an
\* add in flight, nor by any number of re-adoptions (track, trackIfAbsent).
THEOREM WantedItemsKept == Spec /\ []DistinctJobs => WantedKept
<1>1. Init => WantedInv
  BY DEF Init, WantedInv, Idle
<1>2. LeaseInv /\ WantedInv /\ DistinctJobs' /\ [Next]_vars => WantedInv'
  BY NextWanted
<1>3. Spec /\ []DistinctJobs => []WantedInv
  BY <1>1, <1>2, LeaseInvariant, PTL DEF Spec
<1>4. LeaseInv /\ WantedInv /\ DistinctJobs' /\ [Next]_vars =>
          [\A k \in Keys :
              jobs[k] # Nil /\ jobs'[k] # Nil /\ jobs[k].wanted # Nil
                  => jobs'[k].wanted = jobs[k].wanted]_vars
  BY NextWanted
<1> QED
  BY <1>3, <1>4, LeaseInvariant, PTL DEF Spec, WantedKept

-----------------------------------------------------------------------------
(* No job vanishes silently. *)

\* No add that is about to track a job is about to track this one.
NoneAccepted(k) ==
    \A p \in Procs : op[p].pc = "accepted" => ~(op[p].id = k[1] /\ op[p].job = k[2])

\* What holds of a poll task, however old its snapshot.  Its job has begun; what a
\* client told it of the end of the job is still so; what it has yet to untrack it
\* has told of.  And when it found no client, no add has tracked the job since.
TaskInv(k) ==
    /\ Begun(k[2])
    /\ poll[k].pc = "drop" => NoneAccepted(k) /\ (jobs[k] # Nil => jobs[k].wanted = Nil)
    /\ poll[k].pc = "lost" => poll[k].seen = "unknown"
    /\ poll[k].pc = "untrack" => poll[k].seen # "running" /\ outcome[k] = TaskOutcome(k)
    /\ poll[k].seen \in {"completed", "failed"} =>
           poll[k].spec \in Specs /\ RemoteJob(poll[k].spec, k[2]) \notin {"fresh", "running"}

PollInv == \A k \in Keys : poll[k] # Nil => TaskInv(k)

\* A step that leaves the task of k and its event alone, and tracks k for no add
\* when the task is about to drop it.
LEMMA KeepTask ==
    ASSUME TypeOK, [Next]_vars, NEW k \in Keys, TaskInv(k),
           poll'[k] = poll[k], outcome'[k] = outcome[k],
           poll[k].pc = "drop" =>
               /\ NoneAccepted(k)'
               /\ jobs'[k] # Nil => jobs'[k].wanted = Nil
    PROVE  TaskInv(k)'
<1>1. Begun(k[2])'
  BY BegunStays DEF TaskInv, Keys
<1>2. poll[k].seen \in {"completed", "failed"} =>
          RemoteJob(poll[k].spec, k[2])' \notin {"fresh", "running"}
  <2> SUFFICES ASSUME poll[k].seen \in {"completed", "failed"}
               PROVE  remote'[EndpointOf[poll[k].spec]][k[2]] \notin {"fresh", "running"}
    BY DEF RemoteJob
  <2>1. /\ EndpointOf[poll[k].spec] \in Endpoints /\ k[2] \in JobIds
        /\ remote[EndpointOf[poll[k].spec]][k[2]] \notin {"fresh", "running"}
    BY GatewayAssumption DEF TaskInv, RemoteJob, Keys
  <2> QED
    BY <2>1, RemoteSteps, OverStaysOver
<1> QED
  BY <1>1, <1>2 DEF TaskInv, TaskOutcome, RemoteJob

\* A step that leaves the poll tasks and what is tracked alone, but for jobs it
\* forgets, and accepts nothing new.
LEMMA KeepTasks ==
    ASSUME TypeOK, [Next]_vars, PollInv, UNCHANGED <<poll, outcome>>, SameWanted,
           \A p \in Procs : op'[p].pc = "accepted" =>
               op[p].pc = "accepted" /\ op'[p].id = op[p].id /\ op'[p].job = op[p].job
    PROVE  PollInv'
<1> SUFFICES ASSUME NEW k \in Keys, poll'[k] # Nil PROVE TaskInv(k)'
  BY DEF PollInv
<1>1. TaskInv(k)
  BY DEF PollInv
<1>2. poll[k].pc = "drop" => NoneAccepted(k)' /\ (jobs'[k] # Nil => jobs'[k].wanted = Nil)
  BY <1>1 DEF TaskInv, NoneAccepted, SameWanted
<1> QED
  BY <1>1, <1>2, KeepTask

\* A task that is left untouched by the step of another.
LEMMA OtherTask ==
    ASSUME TypeOK, [Next]_vars, NEW k \in Keys, TaskInv(k), UNCHANGED op, SameWanted,
           poll'[k] = poll[k], outcome'[k] = outcome[k]
    PROVE  TaskInv(k)'
<1>1. poll[k].pc = "drop" => NoneAccepted(k)' /\ (jobs'[k] # Nil => jobs'[k].wanted = Nil)
  BY DEF TaskInv, NoneAccepted, SameWanted
<1> QED
  BY <1>1, KeepTask

\* The steps of pollOne track nothing and change no wanted item.
LEMMA PollSameWanted ==
    ASSUME TypeOK, NEW k \in Keys, PollStep(k) \/ Elapse(k)
    PROVE  UNCHANGED <<op, remote>> /\ SameWanted
<1>0. jobs \in [Keys -> Tracked \cup {Nil}]
  BY DEF TypeOK
<1>1. UNCHANGED <<op, remote>>
  BY DEF PollStep, PollGet, PollDrop, PollDescribe, PollError, PollEnded, PollLost, PollGiveUp,
         PollMissing, PollRunning, PollUntrack, Elapse
<1>2. CASE UNCHANGED jobs
  BY <1>1, <1>2 DEF SameWanted
<1>3. CASE PollDrop(k) \/ PollUntrack(k)
  BY <1>0, <1>3 DEF PollDrop, PollUntrack, Untrack, SameWanted
<1>4. CASE PollMissing(k) \/ PollRunning(k) \/ Elapse(k)
  BY <1>0, <1>4 DEF PollMissing, PollRunning, Elapse, MarkMissing, ClearMissing, Tracked, SameWanted
<1>5. SameWanted
  BY <1>2, <1>3, <1>4 DEF PollStep, PollGet, PollDescribe, PollError, PollEnded, PollLost, PollGiveUp
<1> QED
  BY <1>1, <1>5

\* What pollOne does with its own task (main.go:569-640).
LEMMA PollOwnTask ==
    ASSUME LeaseInv, [Next]_vars, NEW k \in Keys, PollStep(k), poll[k] # Nil, TaskInv(k), poll'[k] # Nil
    PROVE  TaskInv(k)'
<1>0. /\ TypeOK /\ poll[k] \in PollTask /\ poll \in [Keys -> PollTask \cup {Nil}]
      /\ outcome \in [Keys -> Outcome \cup {Nil}]
      /\ k[1] \in Ids /\ k[2] \in JobIds /\ k = <<k[1], k[2]>>
      /\ UNCHANGED <<op, remote>> /\ SameWanted
  BY PollSameWanted DEF LeaseInv, TypeOK, Keys
<1>1. Begun(k[2])'
  BY <1>0, BegunStays DEF TaskInv
<1>2. CASE PollGet(k)
  <2>1. poll[k].seen = "unknown" /\ poll'[k].seen = "unknown" /\ poll'[k].pc \in {"describe", "drop"}
    BY <1>0, <1>2 DEF PollGet, AtPoll, PollTask
  <2>2. ASSUME poll'[k].pc = "drop"
        PROVE  NoneAccepted(k)' /\ (jobs'[k] # Nil => jobs'[k].wanted = Nil)
    <3>1. ~Registered(k[1])
      BY <1>0, <1>2, <2>2 DEF PollGet, AtPoll
    <3>2. jobs[k] = Nil /\ jobs'[k] = Nil
      BY <1>0, <1>2, <3>1 DEF PollGet, LeaseInv, TrackedHasClient
    <3>3. NoneAccepted(k)'
      BY <1>0, <3>1 DEF NoneAccepted, LeaseInv, HoldersHaveClient, LeasePC
    <3> QED
      BY <3>2, <3>3
  <2> QED
    BY <1>1, <2>1, <2>2 DEF TaskInv
<1>3. CASE PollDescribe(k)
  <2>1. PICK v \in Seen(poll[k].spec, k[2]) :
            poll' = [poll EXCEPT ![k].pc = "report", ![k].seen = v]
    BY <1>3 DEF PollDescribe
  <2>2. poll[k].spec \in Specs
    BY <1>0, <1>3 DEF PollDescribe, AtPoll, PollTask
  <2>3. v \in {"completed", "failed"} => RemoteJob(poll[k].spec, k[2]) \notin {"fresh", "running"}
    BY <1>0, <2>1, <2>2, GatewayAssumption DEF Seen, RemoteJob, TypeOK, RemoteState
  <2>4. poll'[k].pc = "report" /\ poll'[k].seen = v /\ poll'[k].spec = poll[k].spec
    BY <1>0, <1>3, <2>1 DEF PollDescribe, AtPoll, PollTask
  <2> QED
    BY <1>0, <1>1, <2>2, <2>3, <2>4 DEF TaskInv, RemoteJob
<1>4. CASE PollLost(k)
  <2>1. poll'[k].pc = "lost" /\ poll'[k].seen = "unknown"
    BY <1>0, <1>4 DEF PollLost, AtPoll, PollTask
  <2> QED
    BY <1>1, <2>1 DEF TaskInv
<1>5. CASE PollEnded(k) \/ PollGiveUp(k)
  <2>1. /\ poll'[k].pc = "untrack" /\ poll'[k].seen = poll[k].seen
        /\ poll'[k].spec = poll[k].spec /\ poll'[k].wanted = poll[k].wanted
    BY <1>0, <1>5 DEF PollEnded, PollGiveUp, AtPoll, PollTask
  <2>2. poll[k].pc = "lost" => poll[k].seen = "unknown"
    BY DEF TaskInv
  <2>3. outcome'[k] = TaskOutcome(k)
    BY <1>0, <1>5, <2>2 DEF PollEnded, PollGiveUp, AtPoll, Emit, TaskOutcome
  <2>4. TaskOutcome(k)' = TaskOutcome(k)
    BY <2>1 DEF TaskOutcome
  <2>5. poll[k].seen # "running"
    BY <1>5, <2>2 DEF PollEnded, PollGiveUp, AtPoll
  <2> QED
    BY <1>0, <1>1, <2>1, <2>3, <2>4, <2>5 DEF TaskInv, RemoteJob
<1> QED
  BY <1>0, <1>2, <1>3, <1>4, <1>5
  DEF PollStep, PollDrop, PollError, PollMissing, PollRunning, PollUntrack

\* pollOne keeps the invariant.
LEMMA PollKeepsTasks ==
    ASSUME LeaseInv, PollInv, [Next]_vars, NEW l \in Keys, PollStep(l) \/ Elapse(l)
    PROVE  PollInv'
<1> SUFFICES ASSUME NEW k \in Keys, poll'[k] # Nil PROVE TaskInv(k)'
  BY DEF PollInv
<1>0. /\ TypeOK /\ poll \in [Keys -> PollTask \cup {Nil}]
      /\ outcome \in [Keys -> Outcome \cup {Nil}]
      /\ UNCHANGED <<op, remote>> /\ SameWanted
  BY PollSameWanted DEF LeaseInv, TypeOK
<1>1. CASE k = l /\ PollStep(l)
  <2>1. poll[k] # Nil
    BY <1>1 DEF PollStep, PollGet, PollDrop, PollDescribe, PollError, PollEnded, PollLost,
                PollGiveUp, PollMissing, PollRunning, PollUntrack, AtPoll
  <2> QED
    BY <1>1, <2>1, PollOwnTask DEF PollInv
<1>2. CASE k # l \/ Elapse(l)
  <2>1. poll'[k] = poll[k]
    BY <1>0, <1>2
    DEF PollStep, PollGet, PollDrop, PollDescribe, PollError, PollEnded, PollLost, PollGiveUp,
        PollMissing, PollRunning, PollUntrack, Elapse
  <2>2. outcome'[k] = outcome[k]
    BY <1>0, <1>2
    DEF PollStep, PollGet, PollDrop, PollDescribe, PollError, PollEnded, PollLost, PollGiveUp,
        PollMissing, PollRunning, PollUntrack, Elapse, Emit
  <2> QED
    BY <1>0, <2>1, <2>2, OtherTask DEF PollInv
<1> QED
  BY <1>1, <1>2

\* The requests and the adoptions keep it: a job that a client takes for an add is
\* new, so that no task knows it, and an adopted job has no wanted item.
LEMMA ProcKeepsTasks ==
    ASSUME LeaseInv, WantedInv, PollInv, DistinctJobs', [Next]_vars,
           NEW p \in Procs, AddStep(p) \/ RemoveStep(p) \/ AdoptStep(p)
    PROVE  PollInv'
<1>0. TypeOK /\ op \in [Procs -> Op] /\ op[p] \in Op /\ jobs \in [Keys -> Tracked \cup {Nil}]
  BY DEF LeaseInv, TypeOK, Op
<1>1. UNCHANGED <<poll, outcome>>
  BY DEF AddStep, AddBegin, AddCall, AddLost, AddFail, AddTrack, AddStarted,
         RemoveStep, RemoveBegin, RemoveCall, RemoveFail, RemoveUntrack,
         AdoptStep, AdoptBegin, AdoptList, AdoptFail, AdoptDone, AdoptTrack
<1> DEFINE Quiet == \A q \in Procs : op'[q].pc = "accepted" =>
               op[q].pc = "accepted" /\ op'[q].id = op[q].id /\ op'[q].job = op[q].job
<1>2. ASSUME SameWanted, Quiet PROVE PollInv'
  BY <1>0, <1>1, <1>2, KeepTasks
<1>3. ASSUME NEW j \in JobIds, AddCall(p, j) PROVE PollInv'
  <2> SUFFICES ASSUME NEW k \in Keys, poll'[k] # Nil PROVE TaskInv(k)'
    BY DEF PollInv
  <2>1. TaskInv(k)
    BY <1>1 DEF PollInv
  <2>2. j # k[2]
    BY <1>0, <1>3, <2>1, TakenIsNew DEF TaskInv
  <2>3. op[p] \in AddOp
    BY <1>0, <1>3, OpByPC DEF AddCall
  <2>4. op'[p].job = j /\ \A q \in Procs \ {p} : op'[q] = op[q]
    BY <1>0, <1>3, <2>3 DEF AddCall, AddOp
  <2>5. poll[k].pc = "drop" => NoneAccepted(k)' /\ (jobs'[k] # Nil => jobs'[k].wanted = Nil)
    BY <1>3, <2>1, <2>2, <2>4 DEF AddCall, TaskInv, NoneAccepted
  <2> QED
    BY <1>0, <1>1, <2>1, <2>5, KeepTask
<1>4. CASE AddTrack(p)
  <2> SUFFICES ASSUME NEW k \in Keys, poll'[k] # Nil PROVE TaskInv(k)'
    BY DEF PollInv
  <2>1. TaskInv(k)
    BY <1>1 DEF PollInv
  <2>2. op[p] \in AddOp
    BY <1>0, <1>4, OpByPC DEF AddTrack
  <2>3. op'[p].pc = "tracked" /\ \A q \in Procs \ {p} : op'[q] = op[q]
    BY <1>0, <1>4, <2>2 DEF AddTrack, AddOp
  <2>4. k = <<k[1], k[2]>>
    BY DEF Keys
  <2>5. ASSUME poll[k].pc = "drop"
        PROVE  NoneAccepted(k)' /\ (jobs'[k] # Nil => jobs'[k].wanted = Nil)
    <3>1. NoneAccepted(k) /\ (jobs[k] # Nil => jobs[k].wanted = Nil)
      BY <2>1, <2>5 DEF TaskInv
    <3>2. <<op[p].id, op[p].job>> # k
      BY <1>4, <2>4, <3>1 DEF AddTrack, NoneAccepted
    <3>3. jobs'[k] = jobs[k]
      BY <1>0, <1>4, <3>2 DEF AddTrack, Track
    <3> QED
      BY <2>3, <3>1, <3>3 DEF NoneAccepted
  <2> QED
    BY <1>0, <1>1, <2>1, <2>5, KeepTask
<1>5. ASSUME NEW j \in JobIds, AdoptTrack(p, j) PROVE PollInv'
  <2> SUFFICES ASSUME NEW k \in Keys, poll'[k] # Nil PROVE TaskInv(k)'
    BY DEF PollInv
  <2>1. TaskInv(k)
    BY <1>1 DEF PollInv
  <2>2. op[p] \in AdoptOp
    BY <1>0, <1>5, OpByPC DEF AdoptTrack
  <2>3. op'[p].pc = "adopted" /\ \A q \in Procs \ {p} : op'[q] = op[q]
    BY <1>0, <1>5, <2>2 DEF AdoptTrack, AdoptOp
  <2>4. jobs'[k] = jobs[k] \/ jobs'[k].wanted = Nil
    BY <1>0, <1>5 DEF AdoptTrack, TrackIfAbsent, Track, NewTracked
  <2>5. poll[k].pc = "drop" => NoneAccepted(k)' /\ (jobs'[k] # Nil => jobs'[k].wanted = Nil)
    BY <2>1, <2>3, <2>4 DEF TaskInv, NoneAccepted
  <2> QED
    BY <1>0, <1>1, <2>1, <2>5, KeepTask
<1>6. ASSUME UNCHANGED jobs, Finish(p) PROVE SameWanted /\ Quiet
  BY <1>0, <1>6 DEF Finish, Idle, SameWanted
<1>7. ASSUME NEW id \in Ids, NEW w \in WantedItem, AddBegin(p, id, w) PROVE SameWanted /\ Quiet
  BY <1>0, <1>7 DEF AddBegin, SameWanted
<1>8. ASSUME NEW id \in Ids, NEW j \in JobIds, RemoveBegin(p, id, j) PROVE SameWanted /\ Quiet
  BY <1>0, <1>8 DEF RemoveBegin, SameWanted
<1>9. CASE RemoveCall(p)
  <2>1. op[p] \in RemoveOp
    BY <1>0, <1>9, OpByPC DEF RemoveCall
  <2>2. SameWanted
    BY <1>9 DEF RemoveCall, SameWanted
  <2>3. op'[p].pc = "removed" /\ \A q \in Procs \ {p} : op'[q] = op[q]
    BY <1>0, <1>9, <2>1 DEF RemoveCall, RemoveOp
  <2> QED
    BY <1>2, <2>2, <2>3
<1>10. CASE RemoveUntrack(p)
  <2>1. SameWanted
    BY <1>0, <1>10 DEF RemoveUntrack, Untrack, SameWanted
  <2>2. op'[p] = Idle /\ \A q \in Procs \ {p} : op'[q] = op[q]
    BY <1>0, <1>10 DEF RemoveUntrack, Finish
  <2> QED
    BY <1>2, <2>1, <2>2 DEF Idle
<1>11. ASSUME NEW id \in Ids, AdoptBegin(p, id) PROVE SameWanted /\ Quiet
  <2>1. UNCHANGED jobs /\ op'[p].pc = "adopting" /\ \A q \in Procs \ {p} : op'[q] = op[q]
    BY <1>0, <1>11 DEF AdoptBegin
  <2> QED
    BY <2>1 DEF SameWanted
<1>12. CASE AdoptList(p)
  <2>1. op[p] \in AdoptOp
    BY <1>0, <1>12, OpByPC DEF AdoptList
  <2>2. UNCHANGED jobs /\ op'[p].pc = "adopted" /\ \A q \in Procs \ {p} : op'[q] = op[q]
    BY <1>0, <1>12, <2>1 DEF AdoptList, AdoptOp
  <2> QED
    BY <1>2, <2>2 DEF SameWanted
<1> HIDE DEF Quiet
<1>13. CASE AddStep(p)
  BY <1>2, <1>3, <1>4, <1>6, <1>7, <1>13 DEF AddStep, AddLost, AddFail, AddStarted
<1>14. CASE RemoveStep(p)
  BY <1>2, <1>6, <1>8, <1>9, <1>10, <1>14 DEF RemoveStep, RemoveFail
<1>15. CASE AdoptStep(p)
  BY <1>2, <1>5, <1>6, <1>11, <1>12, <1>15 DEF AdoptStep, AdoptFail, AdoptDone
<1> QED
  BY <1>13, <1>14, <1>15

\* Every step keeps the invariant of the poll tasks.
LEMMA NextTasks ==
    ASSUME LeaseInv, WantedInv, PollInv, DistinctJobs', [Next]_vars
    PROVE  PollInv'
<1>0. TypeOK
  BY DEF LeaseInv
<1>1. ASSUME NEW p \in Procs, AddStep(p) \/ RemoveStep(p) \/ AdoptStep(p) PROVE PollInv'
  BY <1>1, ProcKeepsTasks
<1>2. ASSUME NEW k \in Keys, PollStep(k) \/ Elapse(k) PROVE PollInv'
  BY <1>2, PollKeepsTasks
<1>3. CASE PollSnapshot
  <2> SUFFICES ASSUME NEW k \in Keys, poll'[k] # Nil PROVE TaskInv(k)'
    BY DEF PollInv
  <2>1. jobs[k] # Nil /\ poll'[k] = NewTask(k)
    BY <1>3 DEF PollSnapshot
  <2>2. Begun(k[2])'
    BY <1>3, <2>1 DEF PollSnapshot, WantedInv, Begun
  <2> QED
    BY <2>1, <2>2 DEF TaskInv, NewTask
<1>4. CASE Crash
  BY <1>4 DEF Crash, PollInv
<1>5. CASE UNCHANGED <<op, jobs, poll, outcome>>
  <2>1. SameWanted
    BY <1>5 DEF SameWanted
  <2> QED
    BY <1>0, <1>5, <2>1, KeepTasks
<1> QED
  BY <1>1, <1>2, <1>3, <1>4, <1>5
  DEF Next, ConfigApply, AdoptSkip, PollReap, RemoteFinish, RemoteVanish, Serve, vars, localVars

\* Tracking never untracks (track, trackIfAbsent).
LEMMA TrackKeeps ==
    ASSUME TypeOK, NEW id, NEW j, NEW w \in WantedItem,
           jobs' = Track(id, j, w) \/ jobs' = TrackIfAbsent(id, j, w)
    PROVE  \A k \in Keys : jobs[k] # Nil => jobs'[k] # Nil
<1>1. NewTracked(w) \in Tracked
  BY DEF NewTracked, Tracked
<1> QED
  BY <1>1, GatewayAssumption DEF Track, TrackIfAbsent, TypeOK

\* What a step that forgets a job may be: the end of its DELETE, the end of its
\* poll task, or the end of the process.
LEMMA WhoForgets ==
    ASSUME TypeOK, [Next]_vars, NEW k \in Keys, jobs[k] # Nil, jobs'[k] = Nil
    PROVE  Deleted(k) \/ AtPoll(k, "drop") \/ AtPoll(k, "untrack") \/ crashes' # crashes
<1>0. /\ op \in [Procs -> Op] /\ jobs \in [Keys -> Tracked \cup {Nil}] /\ jobs[k] \in Tracked
      /\ Nil \notin Tracked
  BY GatewayAssumption DEF TypeOK, Op
<1>1. ASSUME NEW p \in Procs, AddStep(p) PROVE FALSE
  <2>1. ASSUME AddTrack(p) PROVE FALSE
    <3>1. op[p].wanted \in WantedItem
      BY <1>0, <2>1, OpByPC DEF AddTrack, AddOp
    <3> QED
      BY <2>1, <3>1, TrackKeeps DEF AddTrack
  <2> QED
    BY <1>1, <2>1 DEF AddStep, AddBegin, AddCall, AddLost, AddFail, AddStarted
<1>2. ASSUME NEW p \in Procs, RemoveStep(p) PROVE Deleted(k)
  <2>1. RemoveUntrack(p)
    BY <1>2 DEF RemoveStep, RemoveBegin, RemoveCall, RemoveFail
  <2>2. <<op[p].id, op[p].job>> = k
    BY <1>0, <2>1 DEF RemoveUntrack, Untrack
  <2> QED
    BY <1>0, <2>1, <2>2 DEF RemoveUntrack, Finish, Deleted
<1>3. ASSUME NEW p \in Procs, AdoptStep(p) PROVE FALSE
  <2>1. ASSUME NEW j \in JobIds, AdoptTrack(p, j) PROVE FALSE
    BY <2>1, TrackKeeps DEF AdoptTrack, WantedItem
  <2> QED
    BY <1>3, <2>1 DEF AdoptStep, AdoptBegin, AdoptList, AdoptFail, AdoptDone
<1>4. ASSUME NEW l \in Keys, PollStep(l) \/ Elapse(l)
      PROVE  AtPoll(k, "drop") \/ AtPoll(k, "untrack")
  <2>1. l = <<l[1], l[2]>>
    BY DEF Keys
  <2>2. ASSUME PollMissing(l) \/ PollRunning(l) \/ Elapse(l) PROVE FALSE
    BY <1>0, <2>2 DEF PollMissing, PollRunning, Elapse, MarkMissing, ClearMissing, Tracked
  <2>3. CASE PollDrop(l) \/ PollUntrack(l)
    <3>1. jobs' = [jobs EXCEPT ![l] = Nil]
      BY <2>1, <2>3 DEF PollDrop, PollUntrack, Untrack
    <3>2. k = l
      BY <1>0, <3>1
    <3> QED
      BY <2>3, <3>2 DEF PollDrop, PollUntrack
  <2> QED
    BY <1>4, <2>2, <2>3
    DEF PollStep, PollGet, PollDescribe, PollError, PollEnded, PollLost, PollGiveUp
<1>5. CASE Crash
  BY <1>5 DEF Crash, TypeOK
<1>6. ASSUME UNCHANGED jobs PROVE FALSE
  BY <1>6
<1> QED
  BY <1>1, <1>2, <1>3, <1>4, <1>5, <1>6
  DEF Next, ConfigApply, AdoptSkip, PollSnapshot, PollReap, RemoteFinish, RemoteVanish, Serve, vars,
      localVars

\* As long as no two instances give out the same job id, a job stops being tracked
\* only with the answer to its DELETE, with the process, or by a poll task: one that
\* has handed its outcome to the publisher, and a job whose client said it ended
\* does not run; or one that found no client, and then the job is an adopted one
\* (pollOne, handleRemove, untrack).
THEOREM NothingLostSilently == Spec /\ []DistinctJobs => NoSilentLoss
<1>1. Init => WantedInv /\ PollInv
  BY DEF Init, WantedInv, PollInv, Idle
<1>2. LeaseInv /\ WantedInv /\ PollInv /\ DistinctJobs' /\ [Next]_vars => WantedInv' /\ PollInv'
  BY NextWanted, NextTasks
<1>3. Spec /\ []DistinctJobs => [](WantedInv /\ PollInv)
  BY <1>1, <1>2, LeaseInvariant, PTL DEF Spec
<1>4. ASSUME LeaseInv, PollInv, [Next]_vars, NEW k \in Keys, jobs[k] # Nil, jobs'[k] = Nil
      PROVE  \/ Deleted(k)
             \/ /\ AtPoll(k, "untrack")
                /\ outcome[k] = TaskOutcome(k)
                /\ poll[k].seen # "unknown" => RemoteJob(poll[k].spec, k[2]) # "running"
             \/ AtPoll(k, "drop") /\ jobs[k].wanted = Nil
             \/ crashes' # crashes
  <2>1. Deleted(k) \/ AtPoll(k, "drop") \/ AtPoll(k, "untrack") \/ crashes' # crashes
    BY <1>4, WhoForgets DEF LeaseInv
  <2>2. CASE AtPoll(k, "drop")
    BY <1>4, <2>2 DEF AtPoll, PollInv, TaskInv
  <2>3. CASE AtPoll(k, "untrack")
    <3>1. TaskInv(k) /\ poll[k].seen # "running" /\ outcome[k] = TaskOutcome(k)
      BY <1>4, <2>3 DEF AtPoll, PollInv, TaskInv
    <3>2. poll[k] \in PollTask
      BY <1>4, <2>3 DEF AtPoll, LeaseInv, TypeOK
    <3>3. poll[k].seen # "unknown" => poll[k].seen \in {"completed", "failed"}
      BY <2>3, <3>1, <3>2 DEF AtPoll, PollTask
    <3> QED
      BY <2>3, <3>1, <3>3 DEF TaskInv
  <2> QED
    BY <2>1, <2>2, <2>3
<1>5. LeaseInv /\ PollInv /\ [Next]_vars =>
          [\A k \in Keys :
              jobs[k] # Nil /\ jobs'[k] = Nil =>
                  \/ Deleted(k)
                  \/ /\ AtPoll(k, "untrack")
                     /\ outcome[k] = TaskOutcome(k)
                     /\ poll[k].seen # "unknown" => RemoteJob(poll[k].spec, k[2]) # "running"
                  \/ AtPoll(k, "drop") /\ jobs[k].wanted = Nil
                  \/ crashes' # crashes]_vars
  BY <1>4
<1> QED
  BY <1>3, <1>5, LeaseInvariant, PTL DEF Spec, NoSilentLoss

-----------------------------------------------------------------------------
(* A restart adopts what runs. *)

\* While the process boots nothing is served or polled, and an adoption that has
\* listed its client has each download that still runs there yet to track, or has
\* tracked it.
BootInv ==
    phase = "boot" =>
        /\ \A k \in Keys : poll[k] = Nil
        /\ \A p \in Procs : op[p].pc \in {"idle", "adopting", "adopted"}
        /\ \A p \in Procs, j \in JobIds :
               op[p].pc = "adopted" /\ RemoteJob(op[p].spec, j) = "running" =>
                   j \in op[p].found \/ jobs[<<op[p].id, j>>] # Nil

\* Nobody but an add makes a job run.
LEMMA RunningRan ==
    ASSUME TypeOK, [Next]_vars, phase = "boot", BootInv, NEW s \in Specs, NEW j \in JobIds,
           remote'[EndpointOf[s]][j] = "running"
    PROVE  RemoteJob(s, j) = "running"
<1>0. EndpointOf[s] \in Endpoints /\ remote \in [Endpoints -> [JobIds -> RemoteState]]
  BY GatewayAssumption DEF TypeOK
<1>1. ASSUME NEW f, NEW i, NEW state \in RemoteState \ {"running"},
             remote' = [remote EXCEPT ![f][i] = state]
      PROVE  RemoteJob(s, j) = "running"
  BY <1>0, <1>1 DEF RemoteJob
<1>2. CASE UNCHANGED remote
  BY <1>2 DEF RemoteJob
<1>3. ASSUME NEW p \in Procs, AddStep(p) \/ RemoveStep(p) \/ AdoptStep(p)
      PROVE  UNCHANGED remote
  BY <1>3
  DEF BootInv, AddStep, AddBegin, AddCall, AddLost, AddFail, AddTrack, AddStarted,
      RemoveStep, RemoveBegin, RemoveCall, RemoveFail, RemoveUntrack,
      AdoptStep, AdoptBegin, AdoptList, AdoptFail, AdoptDone, AdoptTrack
<1>4. ASSUME NEW k \in Keys, PollStep(k) \/ Elapse(k) PROVE UNCHANGED remote
  BY <1>4, PollSameWanted
<1>5. ASSUME NEW e \in Endpoints, NEW i \in JobIds, RemoteFinish(e, i) \/ RemoteVanish(e, i)
      PROVE  RemoteJob(s, j) = "running"
  BY <1>1, <1>5 DEF RemoteFinish, RemoteVanish, RemoteState
<1> QED
  BY <1>2, <1>3, <1>4, <1>5
  DEF Next, ConfigApply, AdoptSkip, PollSnapshot, PollReap, Serve, Crash, vars

\* Every step keeps it.
LEMMA NextBoot == TypeOK /\ BootInv /\ [Next]_vars => BootInv'
<1> SUFFICES ASSUME TypeOK, BootInv, [Next]_vars, phase' = "boot"
             PROVE  /\ \A k \in Keys : poll'[k] = Nil
                    /\ \A p \in Procs : op'[p].pc \in {"idle", "adopting", "adopted"}
                    /\ \A p \in Procs, j \in JobIds :
                           op'[p].pc = "adopted" /\ remote'[EndpointOf[op'[p].spec]][j] = "running" =>
                               j \in op'[p].found \/ jobs'[<<op'[p].id, j>>] # Nil
  BY DEF BootInv, RemoteJob
<1> DEFINE Goal == /\ \A k \in Keys : poll'[k] = Nil
                   /\ \A p \in Procs : op'[p].pc \in {"idle", "adopting", "adopted"}
                   /\ \A p \in Procs, j \in JobIds :
                          op'[p].pc = "adopted" /\ remote'[EndpointOf[op'[p].spec]][j] = "running" =>
                              j \in op'[p].found \/ jobs'[<<op'[p].id, j>>] # Nil
<1>1. CASE Crash
  <2>1. \A p \in Procs : op'[p] = Idle
    BY <1>1 DEF Crash
  <2>2. \A k \in Keys : poll'[k] = Nil
    BY <1>1 DEF Crash
  <2> QED
    BY <2>1, <2>2 DEF Idle
<1>2. SUFFICES ASSUME ~Crash PROVE Goal
  BY <1>1
<1>3. phase = "boot"
  <2>1. ASSUME NEW p \in Procs, AddStep(p) \/ RemoveStep(p) \/ AdoptStep(p) PROVE phase' = phase
    BY <2>1
    DEF AddStep, AddBegin, AddCall, AddLost, AddFail, AddTrack, AddStarted,
        RemoveStep, RemoveBegin, RemoveCall, RemoveFail, RemoveUntrack,
        AdoptStep, AdoptBegin, AdoptList, AdoptFail, AdoptDone, AdoptTrack
  <2>2. ASSUME NEW k \in Keys, PollStep(k) \/ Elapse(k) PROVE phase' = phase
    BY <2>2
    DEF PollStep, PollGet, PollDrop, PollDescribe, PollError, PollEnded, PollLost, PollGiveUp,
        PollMissing, PollRunning, PollUntrack, Elapse
  <2> QED
    BY <1>2, <2>1, <2>2
    DEF Next, ConfigApply, AdoptSkip, PollSnapshot, PollReap, RemoteFinish, RemoteVanish, Serve,
        vars, localVars
<1>4. /\ \A k \in Keys : poll[k] = Nil
      /\ \A p \in Procs : op[p].pc \in {"idle", "adopting", "adopted"}
      /\ \A p \in Procs, j \in JobIds :
             op[p].pc = "adopted" /\ RemoteJob(op[p].spec, j) = "running" =>
                 j \in op[p].found \/ jobs[<<op[p].id, j>>] # Nil
      /\ op \in [Procs -> Op] /\ jobs \in [Keys -> Tracked \cup {Nil}]
  BY <1>3 DEF BootInv, TypeOK, Op
<1>5. \A p \in Procs : op[p].pc = "adopted" => op[p] \in AdoptOp
  BY <1>4, OpByPC
<1>6. \A p \in Procs, j \in JobIds :
          op[p].pc = "adopted" /\ remote'[EndpointOf[op[p].spec]][j] = "running" =>
              j \in op[p].found \/ jobs[<<op[p].id, j>>] # Nil
  BY <1>3, <1>4, <1>5, RunningRan DEF AdoptOp, RemoteJob
<1>7. ASSUME UNCHANGED <<op, poll>>, \A k \in Keys : jobs[k] # Nil => jobs'[k] # Nil
      PROVE  Goal
  <2>1. \A p \in Procs, j \in JobIds :
            op[p].pc = "adopted" /\ jobs[<<op[p].id, j>>] # Nil => jobs'[<<op[p].id, j>>] # Nil
    BY <1>5, <1>7 DEF AdoptOp, Keys
  <2> QED
    BY <1>4, <1>6, <1>7, <2>1
<1>8. ASSUME NEW p \in Procs, UNCHANGED <<jobs, poll>>, op'[p].pc \in {"idle", "adopting"},
             \A q \in Procs \ {p} : op'[q] = op[q]
      PROVE  Goal
  BY <1>4, <1>6, <1>8
<1> HIDE DEF Goal
<1>9. ASSUME NEW p \in Procs, AddStep(p) \/ RemoveStep(p) PROVE FALSE
  BY <1>3, <1>4, <1>9
  DEF AddStep, AddBegin, AddCall, AddLost, AddFail, AddTrack, AddStarted,
      RemoveStep, RemoveBegin, RemoveCall, RemoveFail, RemoveUntrack
<1>10. ASSUME NEW p \in Procs, AdoptStep(p) PROVE Goal
  <2>1. ASSUME NEW id \in Ids, AdoptBegin(p, id) PROVE Goal
    BY <1>4, <1>8, <2>1 DEF AdoptBegin
  <2>2. ASSUME AdoptFail(p) \/ AdoptDone(p) PROVE Goal
    <3>1. op'[p] = Idle /\ \A q \in Procs \ {p} : op'[q] = op[q]
      BY <1>4, <2>2 DEF AdoptFail, AdoptDone, Finish
    <3> QED
      BY <1>8, <2>2, <3>1 DEF AdoptFail, AdoptDone, Idle
  <2>3. CASE AdoptList(p)
    <3>1. op[p] \in AdoptOp
      BY <1>4, <2>3, OpByPC DEF AdoptList
    <3>2. /\ op'[p].pc = "adopted" /\ op'[p].found = Adoptable(op[p].spec)
          /\ op'[p].spec = op[p].spec
          /\ \A q \in Procs \ {p} : op'[q] = op[q]
          /\ UNCHANGED <<jobs, poll, remote>>
      BY <1>4, <2>3, <3>1 DEF AdoptList, AdoptOp
    <3>3. \A j \in JobIds : remote'[EndpointOf[op'[p].spec]][j] = "running" => j \in op'[p].found
      BY <3>2 DEF Adoptable, RemoteJob
    <3> QED
      BY <1>4, <1>6, <3>2, <3>3 DEF Goal
  <2>4. ASSUME NEW i \in JobIds, AdoptTrack(p, i) PROVE Goal
    <3>1. op[p] \in AdoptOp /\ op[p].pc = "adopted"
      BY <1>5, <2>4 DEF AdoptTrack
    <3>2. /\ op'[p].pc = "adopted" /\ op'[p].found = op[p].found \ {i}
          /\ op'[p].spec = op[p].spec /\ op'[p].id = op[p].id
          /\ \A q \in Procs \ {p} : op'[q] = op[q]
          /\ UNCHANGED <<poll, remote>>
      BY <1>4, <2>4, <3>1 DEF AdoptTrack, AdoptOp
    <3>3. \A k \in Keys : jobs[k] # Nil => jobs'[k] # Nil
      BY <2>4, TrackKeeps DEF AdoptTrack, WantedItem
    <3>4. jobs'[<<op[p].id, i>>] # Nil
      <4>1. <<op[p].id, i>> \in Keys
        BY <3>1 DEF AdoptOp, Keys
      <4>2. NewTracked(Nil) \in Tracked
        BY DEF NewTracked, Tracked, WantedItem
      <4> QED
        BY <1>4, <2>4, <4>1, <4>2, GatewayAssumption DEF AdoptTrack, TrackIfAbsent, Track
    <3>5. \A q \in Procs, j \in JobIds : op[q].pc = "adopted" => <<op[q].id, j>> \in Keys
      BY <1>5 DEF AdoptOp, Keys
    <3>6. ASSUME NEW q \in Procs, NEW j \in JobIds, op'[q].pc = "adopted",
                 remote'[EndpointOf[op'[q].spec]][j] = "running"
          PROVE  j \in op'[q].found \/ jobs'[<<op'[q].id, j>>] # Nil
      <4>1. op[q].pc = "adopted" /\ op'[q].spec = op[q].spec /\ op'[q].id = op[q].id
        BY <3>1, <3>2, <3>6
      <4>2. j \in op[q].found \/ jobs[<<op[q].id, j>>] # Nil
        BY <1>6, <3>6, <4>1
      <4> QED
        BY <3>2, <3>3, <3>4, <3>5, <4>1, <4>2
    <3> QED
      BY <1>4, <3>2, <3>6 DEF Goal
  <2> QED
    BY <1>10, <2>1, <2>2, <2>3, <2>4 DEF AdoptStep
<1>11. ASSUME NEW k \in Keys, PollStep(k) PROVE FALSE
  BY <1>4, <1>11
  DEF PollStep, PollGet, PollDrop, PollDescribe, PollError, PollEnded, PollLost, PollGiveUp,
      PollMissing, PollRunning, PollUntrack, AtPoll
<1>12. ASSUME NEW k \in Keys, Elapse(k) PROVE Goal
  <2>1. \A l \in Keys : jobs[l] # Nil => jobs'[l] # Nil
    BY <1>4, <1>12, GatewayAssumption DEF Elapse, Tracked
  <2> QED
    BY <1>7, <1>12, <2>1 DEF Elapse
<1>13. CASE PollSnapshot \/ \E rev \in Revisions, push \in Pushes : ConfigApply(rev, push)
  BY <1>3, <1>13 DEF PollSnapshot, ConfigApply
<1>14. CASE UNCHANGED <<op, jobs, poll>>
  BY <1>7, <1>14
<1> QED
  BY <1>2, <1>9, <1>10, <1>11, <1>12, <1>13, <1>14
  DEF Next, AdoptSkip, PollReap, RemoteFinish, RemoteVanish, Serve, vars, localVars

\* When the boot-time adoption of a client ends without an error, every download
\* that runs in the client is tracked, whatever the clients did meanwhile and
\* wherever the process had died (adoptExisting, adopt).
THEOREM RunningJobsReadopted == Spec => RestartAdopts
<1>1. Init => BootInv
  BY DEF Init, BootInv, Idle
<1>2. Spec => []BootInv
  BY <1>1, NextBoot, TypeCorrect, PTL DEF Spec
<1>3. ASSUME TypeOK, BootInv, [Next]_vars, NEW p \in Procs, NEW j \in JobIds,
             phase = "boot", op[p].pc = "adopted", op'[p] = Idle, crashes' = crashes,
             RemoteJob(op[p].spec, j) = "running"
      PROVE  jobs[<<op[p].id, j>>] # Nil
  <2>0. op \in [Procs -> Op] /\ op[p] # Idle /\ op'[p].pc = "idle"
    BY <1>3, OpByPC DEF TypeOK, Op, Idle
  <2>1. op[p].found = {}
    <3>1. ASSUME NEW q \in Procs, AddStep(q) \/ RemoveStep(q) PROVE FALSE
      BY <1>3, <3>1
      DEF BootInv, AddStep, AddBegin, AddCall, AddLost, AddFail, AddTrack, AddStarted,
          RemoveStep, RemoveBegin, RemoveCall, RemoveFail, RemoveUntrack
    <3>2. ASSUME NEW q \in Procs, AdoptStep(q) PROVE op[p].found = {}
      <4>1. CASE AdoptDone(q)
        BY <1>3, <2>0, <4>1 DEF AdoptDone, Finish
      <4>2. ASSUME NEW i \in JobIds, AdoptTrack(q, i) PROVE op'[p].pc = op[p].pc
        <5>1. op[q] \in AdoptOp
          BY <2>0, <4>2, OpByPC DEF AdoptTrack
        <5> QED
          BY <2>0, <4>2, <5>1 DEF AdoptTrack, AdoptOp
      <4>3. ASSUME op[q].pc \in {"idle", "adopting"}, \A r \in Procs \ {q} : op'[r] = op[r]
            PROVE  op'[p] = op[p]
        BY <1>3, <4>3
      <4>4. ASSUME \/ \E id \in Ids : AdoptBegin(q, id)
                   \/ AdoptList(q) \/ AdoptFail(q)
            PROVE  op'[p] = op[p]
        BY <2>0, <4>3, <4>4 DEF AdoptBegin, AdoptList, AdoptFail, Finish, Idle
      <4> QED
        BY <1>3, <2>0, <3>2, <4>1, <4>2, <4>4 DEF AdoptStep
    <3>3. ASSUME NEW k \in Keys, PollStep(k) \/ Elapse(k) PROVE UNCHANGED op
      BY <1>3, <3>3, PollSameWanted
    <3>4. ASSUME Crash PROVE FALSE
      BY <1>3, <3>4 DEF Crash, TypeOK
    <3>5. ASSUME UNCHANGED op PROVE FALSE
      BY <1>3, <2>0, <3>5
    <3> QED
      BY <1>3, <3>1, <3>2, <3>3, <3>4, <3>5
      DEF Next, ConfigApply, AdoptSkip, PollSnapshot, PollReap, RemoteFinish, RemoteVanish, Serve,
          vars, localVars
  <2> QED
    BY <1>3, <2>1 DEF BootInv
<1>4. TypeOK /\ BootInv /\ [Next]_vars =>
          [\A p \in Procs, j \in JobIds :
              /\ phase = "boot" /\ op[p].pc = "adopted"
              /\ op'[p] = Idle /\ crashes' = crashes
              /\ RemoteJob(op[p].spec, j) = "running"
              => jobs[<<op[p].id, j>>] # Nil]_vars
  BY <1>3
<1> QED
  BY <1>2, <1>4, TypeCorrect, PTL DEF Spec, RestartAdopts

-----------------------------------------------------------------------------
(* The gateway implements ClientLife. *)

LifeCalls == {<<"proc", p>> : p \in Procs}
LifeJobs == {<<"job", j>> : j \in JobIds}

\* The stage of every client stays.
SameStages == \A id \in Ids : StageOf(id)' = StageOf(id)

\* The users of every client but one stay.
OtherUsersSame(id) == \A i \in Ids \ {id} : UsersOf(i)' = UsersOf(i)

\* Nothing that ClientLife sees changes.
LEMMA LifeStutters ==
    ASSUME SameStages, \A id \in Ids : UsersOf(id)' = UsersOf(id)
    PROVE  UNCHANGED Life!lifeVars
BY DEF SameStages, Life!lifeVars

\* An add or an adoption is let in (Registry.Lease).
LEMMA LifeJoins ==
    ASSUME NEW id \in Ids, NEW u \in LifeCalls, SameStages, StageOf(id) = "open",
           UsersOf(id)' = UsersOf(id) \cup {u}, OtherUsersSame(id)
    PROVE  Life!Next
<1>1. Life!Join(id, u)
  BY DEF SameStages, OtherUsersSame, Life!Join
<1> QED
  BY <1>1 DEF Life!Next, LifeCalls

\* An add or an adoption that was let in brings its job (track, trackIfAbsent).
LEMMA LifeBrings ==
    ASSUME NEW id \in Ids, NEW u \in LifeJobs, SameStages, UsersOf(id) \cap LifeCalls # {},
           UsersOf(id)' = UsersOf(id) \cup {u}, OtherUsersSame(id)
    PROVE  Life!Next
<1>1. Life!Bring(id, u)
  BY DEF SameStages, OtherUsersSame, Life!Bring, LifeCalls
<1> QED
  BY <1>1 DEF Life!Next, LifeJobs

\* A user goes (release, untrack).
LEMMA LifeLeaves ==
    ASSUME NEW id \in Ids, NEW u \in LifeCalls \cup LifeJobs, SameStages,
           UsersOf(id)' = UsersOf(id) \ {u}, OtherUsersSame(id)
    PROVE  Life!Next
<1>1. Life!Leave(id, u)
  BY DEF SameStages, OtherUsersSame, Life!Leave
<1> QED
  BY <1>1 DEF Life!Next, LifeCalls, LifeJobs

\* The stages follow from the registered clients.
LEMMA ClientsGiveStages ==
    ASSUME UNCHANGED clients PROVE SameStages
BY DEF SameStages, StageOf, Registered

\* The lease counts and the job table answer whether a client has a user: that is
\* what Apply and Reap go by.
LEMMA UsedIffUsers ==
    ASSUME LeaseInv, NEW id \in Ids
    PROVE  InUse(id, Busy) <=> UsersOf(id) # {}
<1>1. leases[id] > 0 <=> Holders(id) # {}
  <2>1. leases[id] = Cardinality(Holders(id))
    BY DEF LeaseInv, LeasesMatchHolders
  <2>2. Cardinality(Holders(id)) \in Nat /\ (Cardinality(Holders(id)) = 0 <=> Holders(id) = {})
    BY HoldersFinite, FS_EmptySet
  <2> QED
    BY <2>1, <2>2
<1>2. id \in Busy <=> \E j \in JobIds : jobs[<<id, j>>] # Nil
  BY DEF Busy
<1> QED
  BY <1>1, <1>2 DEF InUse, UsersOf

\* A goroutine that holds a client is one of its users.
LEMMA HolderIsUser ==
    ASSUME NEW p \in Procs, op[p].pc \in LeasePC
    PROVE  UsersOf(op[p].id) \cap LifeCalls # {}
BY DEF UsersOf, Holders, LifeCalls

\* A goroutine takes a lease.
LEMMA LeaseJoins ==
    ASSUME LeaseInv, NEW p \in Procs, NEW id \in Ids, Lease(id), op[p] = Idle,
           op'[p].pc \in LeasePC, op'[p].id = id,
           \A q \in Procs \ {p} : op'[q] = op[q], UNCHANGED jobs
    PROVE  Life!Next
<1>1. /\ Holders(id)' = Holders(id) \cup {p}
      /\ \A i \in Ids \ {id} : Holders(i)' = Holders(i)
  BY DEF Holders, Idle, LeasePC
<1>2. UsersOf(id)' = UsersOf(id) \cup {<<"proc", p>>}
  BY <1>1 DEF UsersOf
<1>3. OtherUsersSame(id)
  BY <1>1 DEF UsersOf, OtherUsersSame
<1>4. SameStages /\ StageOf(id) = "open"
  <2>1. UNCHANGED clients /\ Leasable(id)
    BY DEF Lease
  <2>2. StageOf(id) = "open"
    BY <2>1 DEF StageOf, Leasable
  <2> QED
    BY <2>1, <2>2, ClientsGiveStages
<1>5. <<"proc", p>> \in LifeCalls
  BY DEF LifeCalls
<1> QED
  BY <1>2, <1>3, <1>4, <1>5, LifeJoins

\* A goroutine releases its lease and ends.
LEMMA ReleaseLeaves ==
    ASSUME LeaseInv, NEW p \in Procs, op[p].pc \in LeasePC, Release(op[p].id), Finish(p),
           UNCHANGED jobs
    PROVE  Life!Next
<1>0. PICK id \in Ids : id = op[p].id
  BY HolderId DEF LeaseInv
<1>1. op'[p] = Idle /\ \A q \in Procs \ {p} : op'[q] = op[q]
  BY DEF Finish, LeaseInv, TypeOK
<1>2. /\ Holders(id)' = Holders(id) \ {p}
      /\ \A i \in Ids \ {id} : Holders(i)' = Holders(i)
  BY <1>0, <1>1 DEF Holders, Idle, LeasePC
<1>3. UsersOf(id)' = UsersOf(id) \ {<<"proc", p>>}
  <2> DEFINE T == {l \in JobIds : jobs[<<id, l>>] # Nil}
  <2>1. \A u : u \in UsersOf(id) <=> (\E q \in Holders(id) : u = <<"proc", q>>)
                                     \/ (\E l \in T : u = <<"job", l>>)
    BY DEF UsersOf
  <2>2. \A u : u \in UsersOf(id)' <=> (\E q \in Holders(id) \ {p} : u = <<"proc", q>>)
                                      \/ (\E l \in T : u = <<"job", l>>)
    BY <1>2 DEF UsersOf
  <2> HIDE DEF T
  <2> QED
    BY <2>1, <2>2
<1>4. OtherUsersSame(id)
  BY <1>2 DEF UsersOf, OtherUsersSame
<1>5. SameStages
  BY ClientsGiveStages DEF Release
<1>6. <<"proc", p>> \in LifeCalls
  BY DEF LifeCalls
<1> QED
  BY <1>3, <1>4, <1>5, <1>6, LifeLeaves

\* A step that keeps the holders and starts to track a job, if it was not tracked
\* already, on a client that an add or an adoption holds.
LEMMA TrackBrings ==
    ASSUME NEW id \in Ids, NEW j \in JobIds, UNCHANGED clients, UsersOf(id) \cap LifeCalls # {},
           \A i \in Ids : Holders(i)' = Holders(i),
           jobs'[<<id, j>>] # Nil,
           \A k \in Keys \ {<<id, j>>} : jobs'[k] = jobs[k]
    PROVE  Life!Next
<1>0. \A i \in Ids, l \in JobIds : <<i, l>> \in Keys /\ (<<i, l>> = <<id, j>> <=> i = id /\ l = j)
  BY DEF Keys
<1>1. UsersOf(id)' = UsersOf(id) \cup {<<"job", j>>}
  <2>1. {l \in JobIds : jobs'[<<id, l>>] # Nil} = {l \in JobIds : jobs[<<id, l>>] # Nil} \cup {j}
    BY <1>0
  <2> QED
    BY <2>1 DEF UsersOf
<1>2. OtherUsersSame(id)
  BY <1>0 DEF UsersOf, OtherUsersSame
<1>3. <<"job", j>> \in LifeJobs
  BY DEF LifeJobs
<1> QED
  BY <1>1, <1>2, <1>3, ClientsGiveStages, LifeBrings

\* A step that keeps the holders and forgets a job.
LEMMA UntrackLeaves ==
    ASSUME NEW id \in Ids, NEW j \in JobIds, UNCHANGED clients,
           \A i \in Ids : Holders(i)' = Holders(i),
           jobs'[<<id, j>>] = Nil,
           \A k \in Keys \ {<<id, j>>} : jobs'[k] = jobs[k]
    PROVE  Life!Next
<1>0. \A i \in Ids, l \in JobIds : <<i, l>> \in Keys /\ (<<i, l>> = <<id, j>> <=> i = id /\ l = j)
  BY DEF Keys
<1>1. UsersOf(id)' = UsersOf(id) \ {<<"job", j>>}
  <2> DEFINE T == {l \in JobIds : jobs[<<id, l>>] # Nil}
  <2>1. {l \in JobIds : jobs'[<<id, l>>] # Nil} = T \ {j}
    BY <1>0
  <2>2. \A u : u \in UsersOf(id) <=> (\E q \in Holders(id) : u = <<"proc", q>>)
                                     \/ (\E l \in T : u = <<"job", l>>)
    BY DEF UsersOf
  <2>3. \A u : u \in UsersOf(id)' <=> (\E q \in Holders(id) : u = <<"proc", q>>)
                                      \/ (\E l \in T \ {j} : u = <<"job", l>>)
    BY <2>1 DEF UsersOf
  <2> HIDE DEF T
  <2> QED
    BY <2>2, <2>3
<1>2. OtherUsersSame(id)
  BY <1>0 DEF UsersOf, OtherUsersSame
<1>3. <<"job", j>> \in LifeJobs
  BY DEF LifeJobs
<1> QED
  BY <1>1, <1>2, <1>3, ClientsGiveStages, LifeLeaves

\* A step that keeps the clients, who holds them and what is tracked.
LEMMA QuietStutters ==
    ASSUME UNCHANGED clients, \A i \in Ids : Holders(i)' = Holders(i),
           \A k \in Keys : jobs'[k] # Nil <=> jobs[k] # Nil
    PROVE  UNCHANGED Life!lifeVars
<1>1. \A id \in Ids : UsersOf(id)' = UsersOf(id)
  BY DEF UsersOf, Keys
<1> QED
  BY <1>1, ClientsGiveStages, LifeStutters

\* Who holds a client depends on the goroutines alone.
LEMMA SameHolders ==
    ASSUME \A p \in Procs : \/ op'[p] = op[p]
                            \/ op[p].pc \in LeasePC /\ op'[p].pc \in LeasePC /\ op'[p].id = op[p].id
                            \/ op[p].pc \notin LeasePC /\ op'[p].pc \notin LeasePC
    PROVE  \A i \in Ids : Holders(i)' = Holders(i)
BY DEF Holders

\* What a push makes of a client's stage (Registry.Apply).
LEMMA PushedStage ==
    ASSUME LeaseInv, NEW push \in Pushes, NEW id \in Ids,
           clients'[id] = AfterPush(push, id, Busy)
    PROVE  StageOf(id)' =
               CASE ~(Accepted(push, id) \/ (IsSource(id, "api") /\ Named(push, id) = {})) -> StageOf(id)
                 [] Accepted(push, id) -> "open"
                 [] OTHER -> IF UsersOf(id) = {} \/ StageOf(id) = "absent" THEN "absent"
                                                                           ELSE "draining"
<1>0. RegistryTypeOK /\ clients[id] \in Entry \cup {Nil} /\ Nil \notin Entry
  BY RegistryAssumption DEF LeaseInv, TypeOK, RegistryTypeOK
<1>1. CASE Accepted(push, id)
  <2>1. AfterPush(push, id, Busy) \in Entry /\ ~AfterPush(push, id, Busy).draining
    <3>1. CASE Unchanged(push, id)
      BY <1>0, <1>1, <3>1 DEF AfterPush, Unchanged, IsSource, Registered, Entry
    <3>2. CASE ~Unchanged(push, id)
      BY <1>1, <3>2, AcceptedSpec DEF AfterPush, ApiEntry, Entry
    <3> QED
      BY <3>1, <3>2
  <2>2. StageOf(id)' = "open"
    BY <1>0, <2>1 DEF StageOf, Registered
  <2> QED
    BY <1>1, <2>2
<1>2. CASE ~Accepted(push, id) /\ IsSource(id, "api") /\ Named(push, id) = {}
  <2>1. clients[id] \in Entry /\ StageOf(id) # "absent"
    BY <1>0, <1>2 DEF IsSource, Registered, StageOf
  <2>2. AfterPush(push, id, Busy) = Removal(id, Busy)
    BY <1>2 DEF AfterPush
  <2>3. CASE UsersOf(id) # {}
    <3>1. InUse(id, Busy)
      BY <2>3, UsedIffUsers
    <3>2. clients'[id] = [clients[id] EXCEPT !.draining = TRUE]
      BY <2>2, <3>1 DEF Removal
    <3>3. clients'[id] \in Entry /\ clients'[id].draining
      BY <2>1, <3>2 DEF Entry
    <3>4. StageOf(id)' = "draining"
      BY <1>0, <3>3 DEF StageOf, Registered
    <3> QED
      BY <1>2, <2>1, <2>3, <3>4
  <2>4. CASE UsersOf(id) = {}
    <3>1. clients'[id] = Nil
      BY <2>2, <2>4, UsedIffUsers DEF Removal
    <3>2. StageOf(id)' = "absent"
      BY <3>1 DEF StageOf, Registered
    <3> QED
      BY <1>2, <2>4, <3>2
  <2> QED
    BY <2>3, <2>4
<1>3. CASE ~(Accepted(push, id) \/ (IsSource(id, "api") /\ Named(push, id) = {}))
  <2>1. clients'[id] = clients[id]
    BY <1>3 DEF AfterPush
  <2>2. StageOf(id)' = StageOf(id)
    BY <2>1 DEF StageOf, Registered
  <2> QED
    BY <1>3, <2>2
<1> QED
  BY <1>1, <1>2, <1>3

\* A push opens the clients it names, closes those it does not, and leaves the
\* environment's and the refused ones.
LEMMA ApplyPushes ==
    ASSUME LeaseInv, NEW rev \in Revisions, NEW push \in Pushes, ConfigApply(rev, push)
    PROVE  Life!Next
<1>1. \A id \in Ids : UsersOf(id)' = UsersOf(id)
  BY DEF ConfigApply, UsersOf, Holders
<1>2. ASSUME NEW id \in Ids
      PROVE  StageOf(id)' \in {StageOf(id), "open",
                 IF UsersOf(id) = {} \/ StageOf(id) = "absent" THEN "absent" ELSE "draining"}
  <2>1. clients'[id] = AfterPush(push, id, Busy)
    BY DEF ConfigApply, Apply
  <2> QED
    BY <2>1, PushedStage
<1>3. \A id \in Ids : StageOf(id)' \in {"absent", "open", "draining"}
  BY DEF StageOf
<1>4. Life!Push
  BY <1>1, <1>2, <1>3 DEF Life!Push, Life!Closed, Life!Stage
<1> QED
  BY <1>4 DEF Life!Next

\* Reap drops the draining clients that have no user.
LEMMA ReapSweeps ==
    ASSUME LeaseInv, PollReap
    PROVE  Life!Next
<1>1. \A id \in Ids : UsersOf(id)' = UsersOf(id)
  BY DEF PollReap, UsersOf, Holders
<1>2. ASSUME NEW id \in Ids
      PROVE  StageOf(id)' =
                 IF StageOf(id) = "draining"
                 THEN IF UsersOf(id) = {} \/ StageOf(id) = "absent" THEN "absent" ELSE "draining"
                 ELSE StageOf(id)
  <2>1. clients'[id] = IF Reapable(id, Busy) THEN Nil ELSE clients[id]
    BY DEF PollReap, Reap
  <2>2. Reapable(id, Busy) <=> StageOf(id) = "draining" /\ UsersOf(id) = {}
    BY UsedIffUsers DEF Reapable, StageOf
  <2>3. CASE Reapable(id, Busy)
    <3>1. StageOf(id)' = "absent"
      BY <2>1, <2>3 DEF StageOf, Registered
    <3> QED
      BY <2>2, <2>3, <3>1
  <2>4. CASE ~Reapable(id, Busy)
    <3>1. StageOf(id)' = StageOf(id)
      BY <2>1, <2>4 DEF StageOf, Registered
    <3> QED
      BY <2>2, <2>4, <3>1
  <2> QED
    BY <2>3, <2>4
<1>3. Life!Sweep
  BY <1>1, <1>2 DEF Life!Sweep, Life!Closed
<1> QED
  BY <1>3 DEF Life!Next

\* A registry of environment clients alone, and nobody who uses them.
LEMMA BootStages ==
    ASSUME NEW id \in Ids
    PROVE  /\ clients = BootClients => StageOf(id) \in {"absent", "open"}
           /\ clients' = BootClients => StageOf(id)' \in {"absent", "open"}
<1>1. id \in EnvIds => BootClients[id] = EnvEntry(id) /\ ~EnvEntry(id).draining
  BY DEF BootClients, EnvEntry
<1>2. id \notin EnvIds => BootClients[id] = Nil
  BY DEF BootClients
<1> QED
  BY <1>1, <1>2 DEF StageOf, Registered

\* At boot nobody uses a client.
LEMMA BootUsers ==
    ASSUME NEW id \in Ids
    PROVE  /\ op = [p \in Procs |-> Idle] /\ jobs = [k \in Keys |-> Nil] => UsersOf(id) = {}
           /\ op' = [p \in Procs |-> Idle] /\ jobs' = [k \in Keys |-> Nil] => UsersOf(id)' = {}
<1>1. \A j \in JobIds : <<id, j>> \in Keys
  BY DEF Keys
<1>2. ASSUME op = [p \in Procs |-> Idle], jobs = [k \in Keys |-> Nil] PROVE UsersOf(id) = {}
  <2>1. Holders(id) = {}
    BY <1>2 DEF Holders, Idle, LeasePC
  <2>2. {j \in JobIds : jobs[<<id, j>>] # Nil} = {}
    BY <1>1, <1>2
  <2> QED
    BY <2>1, <2>2 DEF UsersOf
<1>3. ASSUME op' = [p \in Procs |-> Idle], jobs' = [k \in Keys |-> Nil] PROVE UsersOf(id)' = {}
  <2>1. Holders(id)' = {}
    BY <1>3 DEF Holders, Idle, LeasePC
  <2>2. {j \in JobIds : jobs'[<<id, j>>] # Nil} = {}
    BY <1>1, <1>3
  <2> QED
    BY <2>1, <2>2 DEF UsersOf
<1> QED
  BY <1>2, <1>3

\* The boot of the process is a possible start of ClientLife.
LEMMA LifeInit ==
    ASSUME Init PROVE Life!Init
<1>1. \A id \in Ids : StageOf(id) \in {"absent", "open"} /\ UsersOf(id) = {}
  BY BootStages, BootUsers DEF Init, RegistryInit
<1> QED
  BY <1>1 DEF Life!Init, Life!Unused

\* A restart forgets every user and every pushed client.
LEMMA CrashRestarts ==
    ASSUME Crash PROVE Life!Next
<1>1. \A id \in Ids : StageOf(id)' \in {"absent", "open"} /\ UsersOf(id)' = {}
  BY BootStages, BootUsers DEF Crash
<1>2. Life!Restart
  BY <1>1 DEF Life!Restart, Life!Unused
<1> QED
  BY <1>2 DEF Life!Next

\* The steps of handleAdd.
LEMMA AddLife ==
    ASSUME LeaseInv, NEW p \in Procs, AddStep(p)
    PROVE  Life!Next \/ UNCHANGED Life!lifeVars
<1>0. op \in [Procs -> Op] /\ jobs \in [Keys -> Tracked \cup {Nil}]
  BY DEF LeaseInv, TypeOK, Op
<1>1. ASSUME NEW id \in Ids, NEW w \in WantedItem, AddBegin(p, id, w) PROVE Life!Next
  <2>1. /\ op'[p].pc \in LeasePC /\ op'[p].id = id
        /\ \A q \in Procs \ {p} : op'[q] = op[q]
    BY <1>0, <1>1 DEF AddBegin, LeasePC
  <2> QED
    BY <1>1, <2>1, LeaseJoins DEF AddBegin
<1>2. ASSUME NEW j \in JobIds, AddCall(p, j) PROVE UNCHANGED Life!lifeVars
  <2>1. op[p] \in AddOp
    BY <1>0, <1>2, OpByPC DEF AddCall
  <2>2. \A q \in Procs : \/ op'[q] = op[q]
                         \/ op[q].pc \in LeasePC /\ op'[q].pc \in LeasePC /\ op'[q].id = op[q].id
    BY <1>0, <1>2, <2>1 DEF AddCall, LeasePC, AddOp
  <2>3. \A i \in Ids : Holders(i)' = Holders(i)
    BY <2>2, SameHolders
  <2> QED
    BY <1>2, <2>3, QuietStutters DEF AddCall, registryVars
<1>3. ASSUME NEW j \in JobIds, AddLost(p, j) PROVE Life!Next
  BY <1>3, ReleaseLeaves DEF AddLost, LeasePC
<1>4. CASE AddFail(p)
  BY <1>4, ReleaseLeaves DEF AddFail, LeasePC
<1>5. CASE AddStarted(p)
  BY <1>5, ReleaseLeaves DEF AddStarted, LeasePC
<1>6. CASE AddTrack(p)
  <2>1. op[p] \in AddOp
    BY <1>0, <1>6, OpByPC DEF AddTrack
  <2>2. \A q \in Procs : \/ op'[q] = op[q]
                         \/ op[q].pc \in LeasePC /\ op'[q].pc \in LeasePC /\ op'[q].id = op[q].id
    BY <1>0, <1>6, <2>1 DEF AddTrack, LeasePC, AddOp
  <2>3. \A i \in Ids : Holders(i)' = Holders(i)
    BY <2>2, SameHolders
  <2>4. UsersOf(op[p].id) \cap LifeCalls # {} /\ op[p].id \in Ids
    BY <1>6, <2>1, HolderIsUser DEF AddTrack, LeasePC, AddOp
  <2>5. NewTracked(op[p].wanted) \in Tracked /\ Nil \notin Tracked
    BY <2>1, GatewayAssumption DEF NewTracked, Tracked, AddOp
  <2>6. UNCHANGED clients /\ jobs' = [jobs EXCEPT ![<<op[p].id, op[p].job>>] = NewTracked(op[p].wanted)]
    BY <1>6 DEF AddTrack, Track, registryVars
  <2>7. CASE op[p].job \in JobIds
    <3>1. <<op[p].id, op[p].job>> \in Keys
      BY <2>4, <2>7 DEF Keys
    <3>2. /\ jobs'[<<op[p].id, op[p].job>>] # Nil
          /\ \A k \in Keys \ {<<op[p].id, op[p].job>>} : jobs'[k] = jobs[k]
      BY <1>0, <2>5, <2>6, <3>1
    <3> QED
      BY <2>3, <2>4, <2>6, <2>7, <3>2, TrackBrings
  <2>8. CASE op[p].job \notin JobIds
    <3>1. \A k \in Keys : jobs'[k] = jobs[k]
      BY <1>0, <2>6, <2>8 DEF Keys
    <3> QED
      BY <2>3, <2>6, <3>1, QuietStutters
  <2> QED
    BY <2>7, <2>8
<1> QED
  BY <1>1, <1>2, <1>3, <1>4, <1>5, <1>6 DEF AddStep

\* The steps of handleRemove: it uses no lease, and takes a job away.
LEMMA RemoveLife ==
    ASSUME LeaseInv, NEW p \in Procs, RemoveStep(p)
    PROVE  Life!Next \/ UNCHANGED Life!lifeVars
<1>0. op \in [Procs -> Op] /\ jobs \in [Keys -> Tracked \cup {Nil}]
  BY DEF LeaseInv, TypeOK, Op
<1>1. UNCHANGED clients
  BY DEF RemoveStep, RemoveBegin, RemoveCall, RemoveFail, RemoveUntrack, registryVars
<1>2. /\ op[p].pc \notin LeasePC /\ op'[p].pc \notin LeasePC
      /\ \A q \in Procs \ {p} : op'[q] = op[q]
  <2>1. CASE \E id \in Ids, j \in JobIds : RemoveBegin(p, id, j)
    BY <1>0, <2>1 DEF RemoveBegin, Idle, LeasePC
  <2>2. CASE RemoveCall(p)
    <3>1. op[p] \in RemoveOp
      BY <1>0, <2>2, OpByPC DEF RemoveCall
    <3> QED
      BY <1>0, <2>2, <3>1 DEF RemoveCall, RemoveOp, LeasePC
  <2>3. CASE RemoveFail(p) \/ RemoveUntrack(p)
    BY <1>0, <2>3 DEF RemoveFail, RemoveUntrack, Finish, Idle, LeasePC
  <2> QED
    BY <2>1, <2>2, <2>3 DEF RemoveStep
<1>3. \A i \in Ids : Holders(i)' = Holders(i)
  BY <1>2, SameHolders
<1>4. CASE UNCHANGED jobs
  BY <1>1, <1>3, <1>4, QuietStutters
<1>5. CASE RemoveUntrack(p)
  <2>1. op[p] \in RemoveOp
    BY <1>0, <1>5, OpByPC DEF RemoveUntrack
  <2>2. op[p].id \in Ids /\ op[p].job \in JobIds /\ <<op[p].id, op[p].job>> \in Keys
    BY <2>1 DEF RemoveOp, Keys
  <2>3. /\ jobs'[<<op[p].id, op[p].job>>] = Nil
        /\ \A k \in Keys \ {<<op[p].id, op[p].job>>} : jobs'[k] = jobs[k]
    BY <1>0, <1>5, <2>2 DEF RemoveUntrack, Untrack
  <2> QED
    BY <1>1, <1>3, <2>2, <2>3, UntrackLeaves
<1> QED
  BY <1>4, <1>5 DEF RemoveStep, RemoveBegin, RemoveCall, RemoveFail

\* The steps of adopt.
LEMMA AdoptLife ==
    ASSUME LeaseInv, NEW p \in Procs, AdoptStep(p)
    PROVE  Life!Next \/ UNCHANGED Life!lifeVars
<1>0. op \in [Procs -> Op] /\ jobs \in [Keys -> Tracked \cup {Nil}]
  BY DEF LeaseInv, TypeOK, Op
<1>1. ASSUME NEW id \in Ids, AdoptBegin(p, id) PROVE Life!Next
  <2>1. /\ op'[p].pc \in LeasePC /\ op'[p].id = id
        /\ \A q \in Procs \ {p} : op'[q] = op[q]
    BY <1>0, <1>1 DEF AdoptBegin, LeasePC
  <2> QED
    BY <1>1, <2>1, LeaseJoins DEF AdoptBegin
<1>2. CASE AdoptList(p)
  <2>1. op[p] \in AdoptOp
    BY <1>0, <1>2, OpByPC DEF AdoptList
  <2>2. \A q \in Procs : \/ op'[q] = op[q]
                         \/ op[q].pc \in LeasePC /\ op'[q].pc \in LeasePC /\ op'[q].id = op[q].id
    BY <1>0, <1>2, <2>1 DEF AdoptList, LeasePC, AdoptOp
  <2>3. \A i \in Ids : Holders(i)' = Holders(i)
    BY <2>2, SameHolders
  <2> QED
    BY <1>2, <2>3, QuietStutters DEF AdoptList, registryVars
<1>3. CASE AdoptFail(p)
  BY <1>3, ReleaseLeaves DEF AdoptFail, LeasePC
<1>4. CASE AdoptDone(p)
  BY <1>4, ReleaseLeaves DEF AdoptDone, LeasePC
<1>5. ASSUME NEW j \in JobIds, AdoptTrack(p, j) PROVE Life!Next
  <2>1. op[p] \in AdoptOp
    BY <1>0, <1>5, OpByPC DEF AdoptTrack
  <2>2. \A q \in Procs : \/ op'[q] = op[q]
                         \/ op[q].pc \in LeasePC /\ op'[q].pc \in LeasePC /\ op'[q].id = op[q].id
    BY <1>0, <1>5, <2>1 DEF AdoptTrack, LeasePC, AdoptOp
  <2>3. \A i \in Ids : Holders(i)' = Holders(i)
    BY <2>2, SameHolders
  <2>4. UsersOf(op[p].id) \cap LifeCalls # {} /\ op[p].id \in Ids
    BY <1>5, <2>1, HolderIsUser DEF AdoptTrack, LeasePC, AdoptOp
  <2>5. NewTracked(Nil) \in Tracked /\ Nil \notin Tracked
    BY GatewayAssumption DEF NewTracked, Tracked, WantedItem
  <2>6. <<op[p].id, j>> \in Keys
    BY <2>4 DEF Keys
  <2>7. /\ jobs'[<<op[p].id, j>>] # Nil
        /\ \A k \in Keys \ {<<op[p].id, j>>} : jobs'[k] = jobs[k]
    BY <1>0, <1>5, <2>5, <2>6 DEF AdoptTrack, TrackIfAbsent, Track
  <2>8. UNCHANGED clients
    BY <1>5 DEF AdoptTrack, registryVars
  <2> QED
    BY <2>3, <2>4, <2>7, <2>8, TrackBrings
<1> QED
  BY <1>1, <1>2, <1>3, <1>4, <1>5 DEF AdoptStep

\* The steps of pollOne.
LEMMA PollLife ==
    ASSUME LeaseInv, NEW k \in Keys, PollStep(k) \/ Elapse(k)
    PROVE  Life!Next \/ UNCHANGED Life!lifeVars
<1>0. jobs \in [Keys -> Tracked \cup {Nil}] /\ k[1] \in Ids /\ k[2] \in JobIds /\ k = <<k[1], k[2]>>
  BY DEF LeaseInv, TypeOK, Keys
<1>1. UNCHANGED <<clients, op>>
  BY DEF PollStep, PollGet, PollDrop, PollDescribe, PollError, PollEnded, PollLost, PollGiveUp,
         PollMissing, PollRunning, PollUntrack, Elapse, registryVars
<1>2. \A i \in Ids : Holders(i)' = Holders(i)
  BY <1>1, SameHolders
<1>3. CASE PollDrop(k) \/ PollUntrack(k)
  <2>1. jobs'[k] = Nil /\ \A i \in Keys \ {k} : jobs'[i] = jobs[i]
    BY <1>0, <1>3 DEF PollDrop, PollUntrack, Untrack
  <2> QED
    BY <1>0, <1>1, <1>2, <2>1, UntrackLeaves
<1>4. CASE UNCHANGED jobs
  BY <1>1, <1>2, <1>4, QuietStutters
<1>5. CASE PollMissing(k) \/ PollRunning(k) \/ Elapse(k)
  <2>0. Nil \notin Tracked
    BY GatewayAssumption
  <2>1. \A i \in Keys : jobs'[i] # Nil <=> jobs[i] # Nil
    BY <1>0, <1>5, <2>0 DEF PollMissing, PollRunning, Elapse, MarkMissing, ClearMissing, Tracked
  <2> QED
    BY <1>1, <1>2, <2>1, QuietStutters
<1> QED
  BY <1>3, <1>4, <1>5 DEF PollStep, PollGet, PollDescribe, PollError, PollEnded, PollLost, PollGiveUp

\* Every step of the gateway is a step of ClientLife or changes nothing it sees.
LEMMA NextLife == LeaseInv /\ [Next]_vars => [Life!Next]_(Life!lifeVars)
<1> SUFFICES ASSUME LeaseInv, [Next]_vars PROVE Life!Next \/ UNCHANGED Life!lifeVars
  OBVIOUS
<1>1. ASSUME NEW p \in Procs, AddStep(p) \/ RemoveStep(p) \/ AdoptStep(p)
      PROVE  Life!Next \/ UNCHANGED Life!lifeVars
  BY <1>1, AddLife, RemoveLife, AdoptLife
<1>2. CASE UNCHANGED <<clients, op, jobs>>
  <2>1. \A i \in Ids : Holders(i)' = Holders(i)
    BY <1>2, SameHolders
  <2> QED
    BY <1>2, <2>1, QuietStutters
<1>3. CASE \/ \E id \in Ids : AdoptSkip(id)
           \/ PollSnapshot \/ Serve \/ UNCHANGED vars
           \/ \E e \in Endpoints, j \in JobIds : RemoteFinish(e, j) \/ RemoteVanish(e, j)
  <2>1. UNCHANGED <<clients, op, jobs>>
    BY <1>3 DEF AdoptSkip, PollSnapshot, Serve, RemoteFinish, RemoteVanish, registryVars, vars,
                localVars
  <2> QED
    BY <1>2, <2>1
<1> QED
  BY <1>1, <1>3, ApplyPushes, PollLife, ReapSweeps, CrashRestarts DEF Next

\* The gateway implements the life of a client as its users see it: leases, job
\* table, pushes and reaps never let an add or an adoption into a client that is
\* not open, nor a job into one that no add or adoption holds, nor drop one under
\* its users (Registry.Lease, Apply, Reap; handleAdd, adopt).
THEOREM ClientLifeImplemented == Spec => ImplementsClientLife
<1>1. Init => Life!Init
  BY LifeInit
<1> QED
  BY <1>1, NextLife, LeaseInvariant, PTL DEF Spec, ImplementsClientLife, Life!Spec

=============================================================================

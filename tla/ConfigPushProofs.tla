--------------------------- MODULE ConfigPushProofs ---------------------------
(***************************************************************************)
(* Proofs about ConfigPush, for every set of clients and settings and any  *)
(* number of edits and restarts.                                           *)
(***************************************************************************)
EXTENDS ConfigPush, TLAPS

-----------------------------------------------------------------------------
(* The registry. *)

\* The settings of an accepted entry are prepared ones (Registry.Apply).
LEMMA AcceptedSpec ==
    ASSUME NEW push \in Pushes, NEW id \in Ids, Accepted(push, id)
    PROVE  PushedSpec(push, id) \in Specs
<1>1. PICK n \in 0 .. MaxPush : push \in [1 .. n -> PushEntry]
  BY DEF Pushes
<1> DEFINE i == CHOOSE i \in Named(push, id) : TRUE
<1>2. i \in DOMAIN push /\ push[i].spec # Nil
  BY DEF Accepted, Rejected, Named
<1>3. push[i] \in PushEntry
  BY <1>1, <1>2
<1> QED
  BY <1>2, <1>3 DEF PushedSpec, PushEntry

\* What a push writes for an id, by what it says of it (Registry.Apply).
LEMMA PushWrites ==
    ASSUME RegistryTypeOK, NEW push \in Pushes, NEW id \in Ids, NEW busy
    PROVE  LET after == AfterPush(push, id, busy) IN
           /\ after \in Entry \cup {Nil}
           /\ Accepted(push, id) =>
                  /\ after # Nil /\ after.source = "api" /\ ~after.draining
                  /\ after.spec = PushedSpec(push, id)
           /\ ~Accepted(push, id) /\ clients[id] # Nil /\ after # Nil =>
                  after.source = clients[id].source
           /\ clients[id] = Nil /\ ~Accepted(push, id) => after = Nil
           /\ IsSource(id, "api") /\ Named(push, id) = {} => after = Nil \/ after.draining
           /\ IsSource(id, "env") => after = clients[id]
<1> USE RegistryAssumption
<1>1. clients[id] \in Entry \cup {Nil}
  BY DEF RegistryTypeOK
<1>2. ASSUME clients[id] # Nil, NEW b \in BOOLEAN
      PROVE  LET e == [clients[id] EXCEPT !.draining = b] IN
             /\ e \in Entry /\ e # Nil /\ e.draining = b
             /\ e.source = clients[id].source /\ e.spec = clients[id].spec
  BY <1>1, <1>2 DEF Entry
<1>3. CASE Accepted(push, id) /\ Unchanged(push, id)
  <2>1. AfterPush(push, id, busy) = [clients[id] EXCEPT !.draining = FALSE]
    BY <1>3 DEF AfterPush
  <2>2. clients[id] # Nil /\ clients[id].source = "api" /\ clients[id].spec = PushedSpec(push, id)
    BY <1>3 DEF Unchanged, IsSource, Registered
  <2> QED
    BY <1>2, <1>3, <2>1, <2>2 DEF Accepted, IsSource
<1>4. CASE Accepted(push, id) /\ ~Unchanged(push, id)
  <2>1. AfterPush(push, id, busy) = ApiEntry(PushedSpec(push, id))
    BY <1>4 DEF AfterPush
  <2>2. ApiEntry(PushedSpec(push, id)) \in Entry
    BY <1>4, AcceptedSpec DEF ApiEntry, Entry
  <2>3. ~IsSource(id, "env") /\ Named(push, id) # {}
    BY <1>4 DEF Accepted, Rejected
  <2>4. ApiEntry(PushedSpec(push, id)) # Nil
    BY <2>2
  <2>5. LET e == ApiEntry(PushedSpec(push, id))
        IN  e.source = "api" /\ ~e.draining /\ e.spec = PushedSpec(push, id)
    BY DEF ApiEntry
  <2> QED
    BY <1>4, <2>1, <2>2, <2>3, <2>4, <2>5
<1>5. CASE ~Accepted(push, id) /\ IsSource(id, "api") /\ Named(push, id) = {}
  <2>1. AfterPush(push, id, busy) \in {Nil, [clients[id] EXCEPT !.draining = TRUE]}
    BY <1>5 DEF AfterPush, Removal
  <2>2. clients[id] # Nil /\ ~IsSource(id, "env")
    BY <1>5 DEF IsSource, Registered
  <2> QED
    BY <1>2, <1>5, <2>1, <2>2
<1>6. CASE ~Accepted(push, id) /\ ~(IsSource(id, "api") /\ Named(push, id) = {})
  <2>1. AfterPush(push, id, busy) = clients[id]
    BY <1>6 DEF AfterPush
  <2> QED
    BY <1>1, <1>6, <2>1
<1> QED
  BY <1>3, <1>4, <1>5, <1>6

\* An environment client is registered as one (Registry.AddEnv).
LEMMA EnvIsEnv ==
    ASSUME NEW id \in EnvIds, clients[id] = EnvEntry(id)
    PROVE  IsSource(id, "env") /\ ~clients[id].draining
<1>1. EnvEntry(id) \in Entry
  BY RegistryAssumption DEF EnvEntry, Entry
<1>2. EnvEntry(id) # Nil
  BY <1>1, RegistryAssumption
<1>3. EnvEntry(id).source = "env" /\ ~EnvEntry(id).draining
  BY DEF EnvEntry
<1> QED
  BY <1>2, <1>3 DEF IsSource, Registered

\* The registry at boot.
LEMMA BootClientsType == BootClients \in [Ids -> Entry \cup {Nil}]
BY RegistryAssumption DEF BootClients, EnvEntry, Entry

-----------------------------------------------------------------------------
(* Type correctness. *)

\* The owner starts with no revision.
LEMMA NoContent == <<>> \in [1 .. 0 -> Pushes]
<1>1. 1 .. 0 = {}
  OBVIOUS
<1>2. <<>> = [x \in {} |-> {}]
  OBVIOUS
<1> QED
  BY <1>1, <1>2

\* The initial state is well typed.
LEMMA InitTypes == Init => TypeOK
BY NoContent, BootClientsType, ConfigPushAssumption DEF Init, RegistryInit, TypeOK, RegistryTypeOK

\* Every step keeps the types.
LEMMA NextTypes == TypeOK /\ [Next]_vars => TypeOK'
<1> SUFFICES ASSUME TypeOK, [Next]_vars PROVE TypeOK'
  OBVIOUS
<1> USE ConfigPushAssumption
<1>1. ASSUME NEW push \in Pushes, Edit(push) PROVE TypeOK'
  <2>1. current' \in 0 .. MaxEdits /\ current' = current + 1
    BY <1>1 DEF Edit, TypeOK
  <2>2. content' \in [1 .. current' -> Pushes]
    BY <1>1, <2>1 DEF Edit, TypeOK
  <2>3. RegistryTypeOK' /\ inflight' \subseteq 1 .. current' /\ restarts' \in 0 .. MaxRestarts
    BY <1>1, <2>1 DEF Edit, TypeOK, RegistryTypeOK, registryVars
  <2> QED
    BY <2>1, <2>2, <2>3 DEF TypeOK
<1>2. CASE Sync
  BY <1>2 DEF Sync, TypeOK, RegistryTypeOK, registryVars, ownerVars
<1>3. ASSUME NEW rev \in Revisions, Deliver(rev) PROVE TypeOK'
  <2>1. PICK busy \in SUBSET Ids : Apply(rev, content[rev], busy)
    BY <1>3 DEF Deliver
  <2>2. content[rev] \in Pushes
    BY <1>3 DEF Deliver, TypeOK
  <2>3. RegistryTypeOK'
    BY <2>1, <2>2, PushWrites DEF Apply, RevisionAfter, TypeOK, RegistryTypeOK
  <2> QED
    BY <1>3, <2>3 DEF Deliver, TypeOK, ownerVars
<1>4. ASSUME NEW rev \in Revisions, Lose(rev) PROVE TypeOK'
  BY <1>4 DEF Lose, TypeOK, RegistryTypeOK, registryVars, ownerVars
<1>5. CASE Drained
  BY <1>5 DEF Drained, Reap, TypeOK, RegistryTypeOK, ownerVars
<1>6. CASE Restart
  BY <1>6, BootClientsType DEF Restart, TypeOK, RegistryTypeOK, ownerVars
<1>7. CASE UNCHANGED vars
  BY <1>7 DEF vars, TypeOK, RegistryTypeOK
<1> QED
  BY <1>1, <1>2, <1>3, <1>4, <1>5, <1>6, <1>7 DEF Next

\* The registry and the owner keep their types through edits, pushes with errors,
\* losses and restarts.
THEOREM TypeCorrect == Spec => []TypeOK
BY InitTypes, NextTypes, PTL DEF Spec

-----------------------------------------------------------------------------
(* What the revision tells. *)

\* Environment ids hold their environment clients, and no other id holds one.
SourcesFit ==
    \A id \in Ids :
        /\ id \in EnvIds => clients[id] = EnvEntry(id)
        /\ id \notin EnvIds => ~IsSource(id, "env")

\* The push on its way is newer than what the gateway reports, so that a push
\* with an error, which changes clients and not the revision, leaves the gateway
\* with a revision that is not the owner's.
PushesNewer ==
    /\ revision <= current
    /\ \A rev \in inflight : revision < rev
    /\ \A rev, other \in inflight : rev = other

\* The inductive invariant.
PushInv == TypeOK /\ SourcesFit /\ PushesNewer /\ RevisionTells

\* A push without an error is in effect (Registry.Apply).
LEMMA CleanPushInEffect ==
    ASSUME RegistryTypeOK, SourcesFit, NEW rev, NEW push \in Pushes, NEW busy,
           Apply(rev, push, busy), \A id \in Ids : ~Rejected(push, id)
    PROVE  InEffect(push)'
<1> USE RegistryAssumption
<1> SUFFICES ASSUME NEW id \in Ids \ EnvIds
             PROVE  IF Named(push, id) = {}
                    THEN ~(clients'[id] # Nil /\ ~clients'[id].draining)
                    ELSE /\ clients'[id] # Nil /\ ~clients'[id].draining
                         /\ clients'[id].spec = PushedSpec(push, id)
  BY DEF InEffect, Leasable, Registered, Named, PushedSpec
<1>1. clients'[id] = AfterPush(push, id, busy)
  BY DEF Apply
<1>2. CASE Named(push, id) = {}
  <2>1. ~Accepted(push, id) /\ ~IsSource(id, "env")
    BY <1>2 DEF Accepted, SourcesFit
  <2>2. clients[id] = Nil \/ IsSource(id, "api")
    BY <2>1 DEF RegistryTypeOK, IsSource, Registered, Entry
  <2> QED
    BY <1>1, <1>2, <2>1, <2>2, PushWrites
<1>3. CASE Named(push, id) # {}
  <2>1. Accepted(push, id)
    BY <1>3 DEF Accepted
  <2> QED
    BY <1>1, <1>3, <2>1, PushWrites
<1> QED
  BY <1>2, <1>3

\* Dropping drained clients changes nothing of what is in effect (Registry.Reap).
LEMMA ReapKeepsEffect ==
    ASSUME NEW push, NEW busy, Reap(busy), InEffect(push)
    PROVE  InEffect(push)'
<1> SUFFICES ASSUME NEW id \in Ids \ EnvIds
             PROVE  IF Named(push, id) = {}
                    THEN ~(clients'[id] # Nil /\ ~clients'[id].draining)
                    ELSE /\ clients'[id] # Nil /\ ~clients'[id].draining
                         /\ clients'[id].spec = PushedSpec(push, id)
  BY DEF InEffect, Leasable, Registered, Named, PushedSpec
<1>1. clients'[id] = clients[id] \/ (clients'[id] = Nil /\ ~Leasable(id))
  BY DEF Reap, Reapable, Leasable
<1> QED
  BY <1>1 DEF InEffect, Leasable, Registered

\* The invariant holds initially.
LEMMA InitPush == Init => PushInv
<1> SUFFICES ASSUME Init PROVE PushInv
  OBVIOUS
<1>1. SourcesFit
  BY RegistryAssumption DEF Init, RegistryInit, BootClients, SourcesFit, IsSource, Registered
<1> QED
  BY <1>1, InitTypes DEF Init, RegistryInit, PushInv, PushesNewer, RevisionTells

\* Every step keeps it, when the owner settles one push before the next.
LEMMA NextPush ==
    ASSUME Overtaking = FALSE
    PROVE  PushInv /\ [Next]_vars => PushInv'
<1> SUFFICES ASSUME PushInv, [Next]_vars PROVE PushInv'
  OBVIOUS
<1> USE ConfigPushAssumption, RegistryAssumption
<1>0. /\ TypeOK /\ RegistryTypeOK /\ SourcesFit /\ PushesNewer /\ RevisionTells /\ TypeOK'
      /\ current \in Nat /\ revision \in Nat /\ inflight \subseteq 1 .. current
      /\ content \in [1 .. current -> Pushes]
  BY NextTypes DEF PushInv, TypeOK, RegistryTypeOK
<1> SUFFICES SourcesFit' /\ PushesNewer' /\ RevisionTells'
  BY <1>0 DEF PushInv
<1>1. ASSUME NEW push \in Pushes, Edit(push)
      PROVE  SourcesFit' /\ PushesNewer' /\ RevisionTells'
  <2>1. current' = current + 1 /\ revision' = revision /\ clients' = clients /\ inflight' = inflight
    BY <1>1 DEF Edit, registryVars
  <2> QED
    BY <1>0, <2>1 DEF SourcesFit, IsSource, Registered, PushesNewer, RevisionTells
<1>2. ASSUME UNCHANGED <<registryVars, ownerVars>>
      PROVE  SourcesFit' /\ RevisionTells'
  BY <1>0, <1>2 DEF SourcesFit, IsSource, Registered, RevisionTells, InEffect, Leasable, Named,
                    PushedSpec, registryVars, ownerVars
<1>3. CASE Sync
  <2>1. inflight = {} /\ inflight' = {current} /\ revision # current
    BY <1>3 DEF Sync
  <2>2. PushesNewer'
    BY <1>0, <1>3, <2>1 DEF Sync, PushesNewer, registryVars, ownerVars
  <2> QED
    BY <1>2, <1>3, <2>2 DEF Sync
<1>4. ASSUME NEW rev \in Revisions, Deliver(rev)
      PROVE  SourcesFit' /\ PushesNewer' /\ RevisionTells'
  <2>1. PICK busy \in SUBSET Ids : Apply(rev, content[rev], busy)
    BY <1>4 DEF Deliver
  <2>2. /\ content[rev] \in Pushes /\ rev \in 1 .. current /\ revision < rev
        /\ current' = current /\ content' = content /\ inflight' = {}
    BY <1>0, <1>4 DEF Deliver, PushesNewer, ownerVars
  <2>3. SourcesFit'
    <3> SUFFICES ASSUME NEW id \in Ids
                 PROVE  /\ id \in EnvIds => clients'[id] = EnvEntry(id)
                        /\ id \notin EnvIds => ~(clients'[id] # Nil /\ clients'[id].source = "env")
      BY DEF SourcesFit, IsSource, Registered
    <3>1. clients'[id] = AfterPush(content[rev], id, busy)
      BY <2>1 DEF Apply
    <3>2. CASE id \in EnvIds
      <4>1. IsSource(id, "env")
        BY <1>0, <3>2, EnvIsEnv DEF SourcesFit
      <4> QED
        BY <1>0, <2>2, <3>1, <3>2, <4>1, PushWrites DEF SourcesFit
    <3>3. CASE id \notin EnvIds
      BY <1>0, <2>2, <3>1, <3>3, PushWrites DEF SourcesFit, IsSource, Registered
    <3> QED
      BY <3>2, <3>3
  <2>4. CASE \E id \in Ids \cup {Nil} : Rejected(content[rev], id)
    <3>1. revision' = revision
      BY <2>1, <2>4 DEF Apply, RevisionAfter
    <3>2. revision' # current'
      BY <1>0, <2>2, <3>1
    <3> QED
      BY <1>0, <2>2, <2>3, <3>1, <3>2 DEF PushesNewer, RevisionTells
  <2>5. CASE \A id \in Ids \cup {Nil} : ~Rejected(content[rev], id)
    <3>1. revision' = rev
      BY <2>1, <2>5 DEF Apply, RevisionAfter
    <3>2. PICK push \in Pushes : push = content[rev]
      BY <2>2
    <3>3. InEffect(push)'
      BY <1>0, <2>1, <2>5, <3>2, CleanPushInEffect
    <3>4. InEffect(content[rev])'
      BY <2>2, <3>2, <3>3 DEF InEffect, Leasable, Registered, Named, PushedSpec
    <3> QED
      BY <1>0, <2>2, <2>3, <3>1, <3>4 DEF PushesNewer, RevisionTells
  <2> QED
    BY <2>4, <2>5
<1>5. ASSUME NEW rev \in Revisions, Lose(rev)
      PROVE  SourcesFit' /\ PushesNewer' /\ RevisionTells'
  <2>1. PushesNewer'
    BY <1>0, <1>5 DEF Lose, PushesNewer, registryVars, ownerVars
  <2> QED
    BY <1>2, <1>5, <2>1 DEF Lose
<1>6. CASE Drained
  <2>1. PICK busy \in SUBSET Ids : Reap(busy)
    BY <1>6 DEF Drained
  <2>2. UNCHANGED <<ownerVars, inflight, revision>>
    BY <1>6, <2>1 DEF Drained, Reap
  <2>3. SourcesFit'
    <3>1. \A id \in Ids :
              \/ clients'[id] = clients[id]
              \/ clients'[id] = Nil /\ clients[id].draining
      BY <2>1 DEF Reap, Reapable
    <3>2. \A id \in EnvIds : clients[id] = EnvEntry(id) /\ ~clients[id].draining
      BY <1>0, EnvIsEnv DEF SourcesFit
    <3> QED
      BY <1>0, <3>1, <3>2 DEF SourcesFit, IsSource, Registered
  <2>4. PushesNewer'
    BY <1>0, <2>2 DEF PushesNewer, ownerVars
  <2>5. RevisionTells'
    <3> SUFFICES ASSUME current > 0, revision = current PROVE InEffect(content[current])'
      BY <2>2 DEF RevisionTells, ownerVars
    <3>1. PICK push \in Pushes : push = content[current]
      BY <1>0
    <3>2. InEffect(push)
      BY <1>0, <3>1 DEF RevisionTells
    <3>3. InEffect(push)'
      BY <2>1, <3>2, ReapKeepsEffect
    <3> QED
      BY <2>2, <3>1, <3>3 DEF InEffect, Leasable, Registered, Named, PushedSpec, ownerVars
  <2> QED
    BY <2>3, <2>4, <2>5
<1>7. CASE Restart
  <2>1. revision' = 0 /\ clients' = BootClients /\ UNCHANGED <<current, content, inflight>>
    BY <1>7 DEF Restart, ownerVars
  <2>2. SourcesFit'
    BY <2>1 DEF BootClients, SourcesFit, IsSource, Registered
  <2> QED
    BY <1>0, <2>1, <2>2 DEF PushesNewer, RevisionTells
<1>8. CASE UNCHANGED vars
  <2>1. PushesNewer' /\ UNCHANGED <<registryVars, ownerVars>>
    BY <1>0, <1>8 DEF PushesNewer, vars, registryVars, ownerVars
  <2> QED
    BY <1>2, <2>1
<1> QED
  BY <1>1, <1>3, <1>4, <1>5, <1>6, <1>7, <1>8 DEF Next

\* When the owner settles one push before it sends the next, GET tells it whether
\* its configuration is in effect, through rejected entries, lost pushes, restarts
\* and draining clients (Registry.Apply, handleConfigClients).  Without that
\* hypothesis an old push may arrive last, and the statement is false.
THEOREM RevisionTellsTheTruth ==
    ASSUME Overtaking = FALSE
    PROVE  Spec => []RevisionTells
<1>1. PushInv => RevisionTells
  BY DEF PushInv
<1>2. PushInv /\ [Next]_vars => PushInv'
  BY NextPush
<1> QED
  BY <1>1, <1>2, InitPush, PTL DEF Spec

===============================================================================

-------------------------- MODULE ODownloaderProofs ---------------------------
(***************************************************************************)
(* Proofs about ODownloader, for any number of packages and links, any     *)
(* page size and any width of the event's ETA.                             *)
(***************************************************************************)
EXTENDS ODownloader, SumTheorems, SequenceTheorems

-----------------------------------------------------------------------------
(* The event's integer. *)

\* A power of two counts the subsets of an interval.
LEMMA PowerNat ==
    ASSUME NEW n \in Nat
    PROVE  2^n \in Nat \ {0}
<1>1. IsFiniteSet(1 .. n) /\ Cardinality(1 .. n) = n
  BY FS_Interval
<1>2. IsFiniteSet(SUBSET (1 .. n)) /\ Cardinality(SUBSET (1 .. n)) = 2^n
  BY <1>1, FS_SUBSET
<1>3. SUBSET (1 .. n) # {}
  OBVIOUS
<1>4. Cardinality(SUBSET (1 .. n)) \in Nat /\ Cardinality(SUBSET (1 .. n)) # 0
  BY <1>2, <1>3, FS_CardinalityType, FS_EmptySet
<1> QED
  BY <1>2, <1>4

\* One more bit doubles the range: the new number is in a subset or it is not.
LEMMA PowerDoubles ==
    ASSUME NEW n \in Nat
    PROVE  2^(n + 1) = 2 * 2^n
<1> DEFINE S == 1 .. n
           A == SUBSET S
           B == {s \in SUBSET (1 .. n + 1) : n + 1 \in s}
           f == [s \in A |-> s \cup {n + 1}]
<1>1. /\ IsFiniteSet(S) /\ Cardinality(S) = n
      /\ IsFiniteSet(1 .. n + 1) /\ Cardinality(1 .. n + 1) = n + 1
  BY FS_Interval
<1>2. /\ IsFiniteSet(A) /\ Cardinality(A) = 2^n
      /\ Cardinality(SUBSET (1 .. n + 1)) = 2^(n + 1)
  BY <1>1, FS_SUBSET
<1>3. f \in Bijection(A, B)
  <2>1. f \in [A -> B]
    OBVIOUS
  <2>2. ASSUME NEW s \in A, NEW t \in A, f[s] = f[t] PROVE s = t
    <3>1. n + 1 \notin s /\ n + 1 \notin t /\ s \cup {n + 1} = t \cup {n + 1}
      BY <2>2
    <3> QED
      BY <3>1
  <2>3. ASSUME NEW u \in B PROVE \E s \in A : f[s] = u
    <3>1. u \ {n + 1} \in A /\ f[u \ {n + 1}] = u
      OBVIOUS
    <3> QED
      BY <3>1
  <2> HIDE DEF A, B, f
  <2> QED
    BY <2>1, <2>2, <2>3 DEF Bijection, Injection, Surjection, IsInjective
<1>4. IsFiniteSet(B) /\ Cardinality(B) = Cardinality(A)
  <2> HIDE DEF A, B, f
  <2> QED
    BY <1>2, <1>3, FS_Bijection DEF ExistsBijection
<1>5. SUBSET (1 .. n + 1) = A \cup B /\ A \cap B = {}
  OBVIOUS
<1>6. Cardinality(A \cup B) = Cardinality(A) + Cardinality(B) - Cardinality(A \cap B)
  <2> HIDE DEF A, B
  <2> QED
    BY <1>2, <1>4, FS_Union
<1> HIDE DEF A, B
<1>7. Cardinality(A \cup B) = 2 * Cardinality(A)
  <2>1. Cardinality(A) \in Nat
    BY <1>2, FS_CardinalityType
  <2>2. Cardinality(A \cap B) = 0
    BY <1>5, FS_EmptySet, Zenon
  <2> QED
    BY <1>4, <1>6, <2>1, <2>2
<1> QED
  BY <1>2, <1>5, <1>7, Zenon

\* An ETA that fits the event's integer is kept by the conversion (optInt32).
LEMMA NarrowKeeps ==
    ASSUME NEW n \in Nat, n < 2^(EtaBits - 1)
    PROVE  Narrow(n) = n
<1>1. PICK half \in Nat \ {0} : half = 2^(EtaBits - 1)
  BY DerivedAssumption, PowerNat
<1>2. 2^EtaBits = 2 * half
  <2>1. EtaBits - 1 \in Nat /\ EtaBits = (EtaBits - 1) + 1
    BY DerivedAssumption
  <2> QED
    BY <1>1, <2>1, PowerDoubles
<1>3. ((n + half) % (2 * half)) - half = n
  BY <1>1
<1> QED
  BY <1>1, <1>2, <1>3 DEF Narrow

\* A quotient of natural numbers is one.
LEMMA QuotientNat ==
    ASSUME NEW a \in Nat, NEW b \in Nat \ {0}
    PROVE  a \div b \in Nat
OBVIOUS

Figure == [done : Nat, total : Nat, speed : Nat, eta : Int]

\* fillDerived keeps the byte counts and never makes a rate negative.
LEMMA FillDerivedSane ==
    ASSUME NEW w \in Figure, NEW prev \in Nat \cup {Nil}, NEW elapsed \in Nat
    PROVE  FillDerived(w, prev, elapsed) \in Figure
<1> DEFINE rated == [w EXCEPT !.speed = Rate(w, prev, elapsed)]
<1>1. Rate(w, prev, elapsed) \in Nat
  <2>1. CASE w.speed <= 0 /\ prev # Nil /\ w.done > prev /\ elapsed >= 1
    <3>1. w.done - prev \in Nat /\ elapsed \in Nat \ {0}
      BY <2>1 DEF Figure
    <3> QED
      BY <2>1, <3>1, QuotientNat DEF Rate
  <2>2. CASE ~(w.speed <= 0 /\ prev # Nil /\ w.done > prev /\ elapsed >= 1)
    BY <2>2 DEF Rate, Figure
  <2> QED
    BY <2>1, <2>2
<1>2. rated \in Figure
  BY <1>1 DEF Figure
<1> HIDE DEF rated
<1>3. Eta(rated) \in Int
  <2>1. CASE rated.eta < 0 /\ rated.speed > 0 /\ rated.total > rated.done
    <3>1. rated.total - rated.done \in Nat /\ rated.speed \in Nat \ {0}
      BY <1>2, <2>1 DEF Figure
    <3> QED
      BY <2>1, <3>1, QuotientNat DEF Eta
  <2>2. CASE ~(rated.eta < 0 /\ rated.speed > 0 /\ rated.total > rated.done)
    BY <1>2, <2>2 DEF Eta, Figure
  <2> QED
    BY <2>1, <2>2
<1>4. [rated EXCEPT !.eta = Eta(rated)] \in Figure
  BY <1>2, <1>3 DEF Figure
<1> QED
  BY <1>4 DEF FillDerived, rated

-----------------------------------------------------------------------------
(* Pages of links. *)

\* The first page of a package.
Cut(links) ==
    IF links = Nil THEN <<>>
    ELSE SubSeq(links, 1, IF Len(links) < PageSize THEN Len(links) ELSE PageSize)

\* What Describe is given of a package.
LEMMA PageIsCut == \A k : Page(k) = Cut(pkg[k])
BY DEF Page, Cut

\* A page holds the first links of its package.
LEMMA CutLinks ==
    ASSUME NEW links \in Seq(Link), links # Nil
    PROVE  /\ Cut(links) \in Seq(Link)
           /\ DOMAIN Cut(links) = {i \in DOMAIN links : i <= PageSize}
           /\ \A i \in DOMAIN Cut(links) : Cut(links)[i] = links[i]
<1>1. PICK m \in Nat : m = Len(links) /\ DOMAIN links = 1 .. m
  OBVIOUS
<1>2. PICK n \in Nat : n = (IF m < PageSize THEN m ELSE PageSize)
  BY ODownloaderAssumption
<1>3. n <= m /\ \A i : i \in 1 .. n <=> i \in 1 .. m /\ i <= PageSize
  BY <1>2, ODownloaderAssumption
<1>4. \A i \in 1 .. n : links[i] \in Link
  BY <1>1, <1>3, ElementOfSeq
<1>5. /\ SubSeq(links, 1, n) \in Seq(Link)
      /\ Len(SubSeq(links, 1, n)) = n
      /\ \A i \in 1 .. n : SubSeq(links, 1, n)[i] = links[i]
  BY <1>4, SubSeqProperties
<1>6. Cut(links) = SubSeq(links, 1, n)
  BY <1>1, <1>2, Zenon DEF Cut
<1>7. DOMAIN Cut(links) = 1 .. n
  BY <1>5, <1>6
<1> QED
  BY <1>1, <1>3, <1>5, <1>6, <1>7

\* A package that is gone has an empty page.
LEMMA CutNil == Cut(Nil) = <<>> /\ DOMAIN Cut(Nil) = {} /\ Cut(Nil) \in Seq(Link)
BY DEF Cut

\* A page is a finite sequence of links.
LEMMA CutType ==
    ASSUME NEW links \in Seq(Link) \cup {Nil}
    PROVE  /\ Cut(links) \in Seq(Link) /\ IsFiniteSet(DOMAIN Cut(links))
           /\ \A i \in DOMAIN Cut(links) : Cut(links)[i] \in Link
<1>1. Cut(links) \in Seq(Link)
  BY CutLinks, CutNil
<1>2. DOMAIN Cut(links) = 1 .. Len(Cut(links)) /\ Len(Cut(links)) \in Nat
  BY <1>1
<1>3. IsFiniteSet(1 .. Len(Cut(links)))
  BY <1>2, FS_Interval
<1> QED
  BY <1>1, <1>2, <1>3

\* The states foldODL tells.
LEMMA FoldType ==
    ASSUME NEW links
    PROVE  /\ FoldODL(links) \in {"not-found", "queued", "downloading", "completed", "failed"}
           /\ FoldODL(links) = "completed" => AllFinished(links)
           /\ FoldODL(links) = "failed" => AnyFailed(links) /\ ~AnyRunning(links)
BY DEF FoldODL

\* The figures of a page are sums of natural numbers.
LEMMA ViewsSane ==
    ASSUME NEW links \in Seq(Link) \cup {Nil}, NEW w \in Views(Cut(links))
    PROVE  w \in Figure
<1> DEFINE page == Cut(links)
           done == [i \in DOMAIN page |-> page[i].done]
           total == [i \in DOMAIN page |-> Total(page[i])]
<1>1. PICK speed \in 0 .. MaxSpeed : w = View(page, speed)
  BY ODownloaderAssumption DEF Views
<1>2. IsFiniteSet(DOMAIN page) /\ \A i \in DOMAIN page : page[i] \in Link
  BY CutType
<1>3. \A i \in DOMAIN page : done[i] \in Nat /\ total[i] \in Nat
  BY <1>2, ODownloaderAssumption DEF Link, Total
<1>4. DOMAIN done = DOMAIN page /\ DOMAIN total = DOMAIN page
  OBVIOUS
<1>5. w = [done |-> SumFunction(done), total |-> SumFunction(total), speed |-> speed, eta |-> -1]
  BY <1>1 DEF View
<1>6. /\ SumFunction(done) = SumFunctionOnSet(done, DOMAIN page)
      /\ SumFunction(total) = SumFunctionOnSet(total, DOMAIN page)
  BY <1>4 DEF SumFunction
<1> HIDE DEF done, total, page
<1>7. SumFunction(done) \in Nat /\ SumFunction(total) \in Nat
  BY <1>2, <1>3, <1>6, SumNat
<1>8. speed \in Nat
  BY <1>1, ODownloaderAssumption
<1> QED
  BY <1>5, <1>7, <1>8 DEF Figure

-----------------------------------------------------------------------------
(* Steps. *)

\* A link that is over stays as it is (external).
LEMMA LinkMoves ==
    ASSUME TypeOK, NEW k \in Packages, NEW i, LinkStep(k, i)
    PROVE  /\ pkg[k] # Nil /\ pkg[k] \in Seq(Link) /\ i \in DOMAIN pkg[k]
           /\ pkg[k][i].state \notin Over
           /\ \E l \in Link : pkg' = [pkg EXCEPT ![k] = [pkg[k] EXCEPT ![i] = l]]
           /\ UNCHANGED <<tracked, sample, missing, told, event, removed>>
<1>1. pkg[k] # Nil /\ pkg[k] \in Seq(Link) /\ i \in DOMAIN pkg[k]
  BY DEF TypeOK, LinkStep
<1>2. pkg[k][i] \in Link
  BY <1>1
<1> DEFINE l == pkg[k][i]
<1>3. PICK m \in Link : l.state \notin Over /\ Become(k, i, m)
  <2>1. l.state \in {"QUEUED"} \cup Active \cup Over /\ l.done \in 0 .. LinkSize
    BY <1>2 DEF Link
  <2>2. \A state \in {"QUEUED"} \cup Active \cup Over : [l EXCEPT !.state = state] \in Link
    BY <1>2 DEF Link
  <2>3. \A done \in 0 .. LinkSize : [l EXCEPT !.done = done] \in Link
    BY <1>2 DEF Link
  <2>4. [state |-> "FINISHED", done |-> LinkSize] \in Link
    BY ODownloaderAssumption DEF Link, Over
  <2>5. l.done + 1 < LinkSize => l.done + 1 \in 0 .. LinkSize
    BY <2>1, ODownloaderAssumption
  <2>6. 0 \in 0 .. LinkSize
    BY ODownloaderAssumption
  <2>7. /\ {"QUEUED", "PAUSED", "WAITING_FOR_CHALLENGE", "RUNNING"} \cap Over = {}
        /\ {"RUNNING", "WAITING_FOR_CHALLENGE", "PAUSED", "FAILED", "CANCELLED"}
               \subseteq {"QUEUED"} \cup Active \cup Over
    BY DEF Over, Broken, Active
  <2>8. \/ /\ l.state \notin Over
           /\ \E state \in {"QUEUED"} \cup Active \cup Over : Become(k, i, [l EXCEPT !.state = state])
        \/ /\ l.state \notin Over
           /\ \E done \in 0 .. LinkSize : Become(k, i, [l EXCEPT !.done = done])
        \/ l.state \notin Over /\ Become(k, i, [state |-> "FINISHED", done |-> LinkSize])
    BY <2>5, <2>6, <2>7 DEF LinkStep
  <2> HIDE DEF l
  <2> QED
    BY <2>2, <2>3, <2>4, <2>8
<1>4. pkg' = [pkg EXCEPT ![k] = [pkg[k] EXCEPT ![i] = m]]
  BY <1>1, <1>3 DEF Become, TypeOK
<1> QED
  BY <1>1, <1>3, <1>4 DEF Become

\* What a step may do to a package: nothing; give a fresh id its links; remove it; or
\* move one link that is not over.
PackageMoves(k) ==
    \/ pkg'[k] = pkg[k]
    \/ Fresh(k) /\ told'[k] = Nil /\ pkg'[k] \in Seq(Link)
    \/ pkg'[k] = Nil
    \/ /\ pkg[k] # Nil /\ pkg[k] \in Seq(Link) /\ told'[k] = told[k]
       /\ \E i \in DOMAIN pkg[k], l \in Link :
              pkg[k][i].state \notin Over /\ pkg'[k] = [pkg[k] EXCEPT ![i] = l]

\* What a step may do to the last answer: nothing, or fold the page that is there.
AnswerMoves(k) ==
    \/ told'[k] = told[k]
    \/ /\ pkg'[k] = pkg[k]
       /\ told'[k] = [state |-> FoldODL(Page(k)), waiting |-> Waiting(Page(k))]

\* Every step, package by package.
Moves ==
    /\ pkg' \in [Packages -> Seq(Link) \cup {Nil}]
    /\ told' \in [Packages -> Answer \cup {Nil}]
    /\ \A k \in Packages : PackageMoves(k) /\ AnswerMoves(k)

\* Steps that leave the daemon and the answers alone.
LEMMA QuietMoves ==
    ASSUME TypeOK, UNCHANGED <<pkg, told>>
    PROVE  Moves
BY DEF TypeOK, Moves, PackageMoves, AnswerMoves

\* Steps of the daemon on one package.
LEMMA PackageMovesOne ==
    ASSUME TypeOK, UNCHANGED told, NEW k \in Packages, NEW links \in Seq(Link) \cup {Nil},
           pkg' = [pkg EXCEPT ![k] = links],
           PackageMoves(k)
    PROVE  Moves
<1>1. pkg' \in [Packages -> Seq(Link) \cup {Nil}] /\ \A j \in Packages \ {k} : pkg'[j] = pkg[j]
  BY DEF TypeOK
<1>2. ASSUME NEW j \in Packages PROVE PackageMoves(j)
  <2>1. CASE j # k
    BY <1>1, <2>1 DEF PackageMoves
  <2> QED
    BY <2>1
<1>3. \A j \in Packages : AnswerMoves(j)
  BY DEF AnswerMoves
<1> QED
  BY <1>1, <1>2, <1>3 DEF TypeOK, Moves

\* Describe.
LEMMA TellMoves ==
    ASSUME TypeOK, UNCHANGED pkg, NEW k \in Packages, Tell(k)
    PROVE  Moves
<1> DEFINE a == [state |-> FoldODL(Page(k)), waiting |-> Waiting(Page(k))]
<1>1. a \in Answer
  BY FoldType DEF Answer, Waiting
<1>2. told' = [told EXCEPT ![k] = a]
  BY DEF Tell
<1>3. told'[k] = a /\ told' \in [Packages -> Answer \cup {Nil}] /\ \A j \in Packages \ {k} : told'[j] = told[j]
  <2> HIDE DEF a
  <2> QED
    BY <1>1, <1>2 DEF TypeOK
<1> QED
  BY <1>3 DEF TypeOK, Moves, PackageMoves, AnswerMoves

\* The links of a new package are queued.
LEMMA NewLinksType ==
    ASSUME NEW n \in Nat
    PROVE  NewLinks(n) \in Seq(Link)
<1>1. [state |-> "QUEUED", done |-> 0] \in Link
  BY ODownloaderAssumption DEF Link
<1>2. NewLinks(n) \in [1 .. n -> Link]
  BY <1>1 DEF NewLinks
<1> QED
  BY <1>2

\* Every step moves the packages and the answers in one of these ways.
LEMMA NextMoves ==
    ASSUME TypeOK, [Next]_vars
    PROVE  Moves
<1>1. ASSUME NEW k \in Packages, NEW n \in 0 .. MaxLinks, Add(k, n) \/ AddLost(k, n)
      PROVE  Moves
  <2>1. /\ Fresh(k) /\ UNCHANGED told /\ NewLinks(n) \in Seq(Link)
        /\ pkg' = [pkg EXCEPT ![k] = NewLinks(n)]
    BY <1>1, NewLinksType, ODownloaderAssumption DEF Add, AddLost
  <2>2. pkg'[k] = NewLinks(n)
    BY <2>1 DEF TypeOK
  <2>3. PackageMoves(k)
    BY <2>1, <2>2 DEF PackageMoves, Fresh
  <2> QED
    BY <2>1, <2>3, PackageMovesOne
<1>2. ASSUME NEW k \in Packages, NEW i, LinkStep(k, i) PROVE Moves
  <2>1. /\ pkg[k] # Nil /\ pkg[k] \in Seq(Link) /\ i \in DOMAIN pkg[k]
        /\ pkg[k][i].state \notin Over /\ UNCHANGED told
    BY <1>2, LinkMoves
  <2>2. PICK l \in Link : pkg' = [pkg EXCEPT ![k] = [pkg[k] EXCEPT ![i] = l]]
    BY <1>2, LinkMoves
  <2>3. [pkg[k] EXCEPT ![i] = l] \in Seq(Link)
    BY <2>1, ExceptSeq
  <2>4. pkg'[k] = [pkg[k] EXCEPT ![i] = l]
    BY <2>2 DEF TypeOK
  <2>5. PackageMoves(k)
    BY <2>1, <2>4 DEF PackageMoves
  <2> QED
    BY <2>1, <2>2, <2>3, <2>5, PackageMovesOne
<1>3. ASSUME NEW k \in Packages, UNCHANGED told, pkg' = [pkg EXCEPT ![k] = Nil] PROVE Moves
  <2>1. PackageMoves(k)
    BY <1>3 DEF TypeOK, PackageMoves
  <2> QED
    BY <1>3, <2>1, PackageMovesOne
<1>4. ASSUME NEW k \in Packages, Describe(k) \/ Poll(k) PROVE Moves
  BY <1>4, TellMoves DEF Describe, Poll, PollEnded, PollLost, PollProgress
<1>5. ASSUME NEW k \in Packages, RemoveRefused(k) PROVE Moves
  BY <1>5, QuietMoves DEF RemoveRefused, vars
<1>6. ASSUME NEW k \in Packages, PackageVanish(k) \/ Remove(k) \/ RemoveLost(k) PROVE Moves
  BY <1>3, <1>6 DEF PackageVanish, Remove, RemoveLost
<1>7. CASE UNCHANGED vars
  BY <1>7, QuietMoves DEF vars
<1> QED
  BY <1>1, <1>2, <1>4, <1>5, <1>6, <1>7 DEF Next

\* The gateway's own figures keep their types.
LEMMA NextFigures ==
    ASSUME TypeOK, [Next]_vars
    PROVE  /\ tracked' \subseteq Packages /\ missing' \subseteq tracked' /\ removed' \subseteq Packages
           /\ sample' \in [Packages -> Nat \cup {Nil}]
           /\ \/ UNCHANGED event
              \/ \E v \in Figure : event' = [view |-> v, eta |-> OptInt32(v.eta)]
<1> DEFINE Good == /\ tracked' \subseteq Packages /\ missing' \subseteq tracked' /\ removed' \subseteq Packages
                   /\ sample' \in [Packages -> Nat \cup {Nil}]
                   /\ \/ UNCHANGED event
                      \/ \E v \in Figure : event' = [view |-> v, eta |-> OptInt32(v.eta)]
<1>1. ASSUME NEW k \in Packages, NEW n, Add(k, n) \/ AddLost(k, n) PROVE Good
  BY <1>1 DEF Add, AddLost, TypeOK
<1>2. ASSUME NEW k \in Packages, NEW i, LinkStep(k, i) PROVE Good
  BY <1>2, LinkMoves DEF TypeOK
<1>3. ASSUME NEW k \in Packages,
             \/ PackageVanish(k) \/ Describe(k) \/ PollEnded(k) \/ PollLost(k)
             \/ Remove(k) \/ RemoveRefused(k) \/ RemoveLost(k)
      PROVE  Good
  BY <1>3 DEF PackageVanish, Describe, PollEnded, PollLost, Remove, Forget, Untrack, RemoveRefused, RemoveLost,
              TypeOK, vars
<1>4. ASSUME NEW k \in Packages, PollProgress(k) PROVE Good
  <2>1. PICK v \in Figures(k) : /\ event' = [view |-> v, eta |-> OptInt32(v.eta)]
                                /\ sample' = [sample EXCEPT ![k] = v.done]
    BY <1>4 DEF PollProgress
  <2>2. PICK w \in Views(Page(k)), elapsed \in 0 .. MaxElapsed : v = FillDerived(w, sample[k], elapsed)
    BY DEF Figures
  <2>3. w \in Figure /\ elapsed \in Nat /\ sample[k] \in Nat \cup {Nil}
    BY PageIsCut, ViewsSane, ODownloaderAssumption DEF TypeOK
  <2>4. v \in Figure
    BY <2>2, <2>3, FillDerivedSane
  <2>5. v.done \in Nat
    BY <2>4 DEF Figure
  <2>6. sample' \in [Packages -> Nat \cup {Nil}]
    BY <2>1, <2>5 DEF TypeOK
  <2> QED
    BY <1>4, <2>1, <2>4, <2>6 DEF PollProgress, TypeOK
<1>5. ASSUME UNCHANGED vars PROVE Good
  BY <1>5 DEF vars, TypeOK
<1> HIDE DEF Good
<1>6. Good
  BY <1>1, <1>2, <1>3, <1>4, <1>5 DEF Next, Poll
<1> QED
  BY <1>6 DEF Good

\* The initial state is well typed.
LEMMA InitTypes == Init => TypeOK
BY DEF Init, TypeOK

\* Every step keeps the types.
LEMMA NextTypes == TypeOK /\ [Next]_vars => TypeOK'
<1> SUFFICES ASSUME TypeOK, [Next]_vars PROVE TypeOK'
  OBVIOUS
<1>1. /\ pkg' \in [Packages -> Seq(Link) \cup {Nil}]
      /\ told' \in [Packages -> Answer \cup {Nil}]
  BY NextMoves DEF Moves
<1>2. /\ tracked' \subseteq Packages /\ missing' \subseteq tracked' /\ removed' \subseteq Packages
      /\ sample' \in [Packages -> Nat \cup {Nil}]
  BY NextFigures
<1>3. event' # Nil => event'.view \in [done : Nat, total : Nat, speed : Int, eta : Int]
  <2>1. CASE UNCHANGED event
    BY <2>1 DEF TypeOK
  <2>2. ASSUME NEW v \in Figure, event' = [view |-> v, eta |-> OptInt32(v.eta)]
        PROVE  event'.view \in [done : Nat, total : Nat, speed : Int, eta : Int]
    BY <2>2 DEF Figure
  <2> QED
    BY <2>1, <2>2, NextFigures
<1> QED
  BY <1>1, <1>2, <1>3 DEF TypeOK

\* Packages, answers and figures keep their types: in particular foldODL tells every
\* page of links one of the gateway's own states, and a poll's sums are byte counts.
THEOREM TypeCorrect == Spec => []TypeOK
BY InitTypes, NextTypes, PTL DEF Spec

-----------------------------------------------------------------------------
(* What was told stays true. *)

\* The links of the page that a completed package was told from stay finished, and
\* those of a failed one stay over, unless one had not started: whatever comes
\* later, the page folds to the same outcome or the package is gone.
OutcomeKept ==
    \A k \in Packages :
        told[k] # Nil =>
            /\ told[k].state = "completed" =>
                   \A i \in DOMAIN Page(k) : Page(k)[i].state = "FINISHED"
            /\ told[k].state = "failed" /\ ~told[k].waiting =>
                   \/ Page(k) = <<>>
                   \/ /\ \A i \in DOMAIN Page(k) : Page(k)[i].state \in Over
                      /\ \E i \in DOMAIN Page(k) : Page(k)[i].state \in Broken

\* A page of links that are over does not move: LinkStep needs a link that is not.
LEMMA OverPageStays ==
    ASSUME NEW links \in Seq(Link), links # Nil, NEW i \in DOMAIN links, NEW l \in Link,
           [links EXCEPT ![i] = l] # Nil,
           links[i].state \notin Over, \A j \in DOMAIN Cut(links) : Cut(links)[j].state \in Over
    PROVE  /\ DOMAIN Cut([links EXCEPT ![i] = l]) = DOMAIN Cut(links)
           /\ \A j \in DOMAIN Cut(links) : Cut([links EXCEPT ![i] = l])[j] = Cut(links)[j]
<1> DEFINE next == [links EXCEPT ![i] = l]
<1>1. next \in Seq(Link) /\ DOMAIN next = DOMAIN links /\ \A j \in DOMAIN links \ {i} : next[j] = links[j]
  BY ExceptSeq
<1> HIDE DEF next
<1>2. DOMAIN Cut(next) = DOMAIN Cut(links)
  BY <1>1, CutLinks DEF next
<1>3. \A j \in DOMAIN Cut(links) : Cut(links)[j] = links[j] /\ j # i /\ j \in DOMAIN links
  BY CutLinks
<1>4. \A j \in DOMAIN Cut(links) : Cut(next)[j] = next[j]
  BY <1>1, <1>2, CutLinks DEF next
<1> QED
  BY <1>1, <1>2, <1>3, <1>4 DEF next

\* Every step keeps what was told true.
LEMMA NextOutcome == TypeOK /\ OutcomeKept /\ [Next]_vars => OutcomeKept'
<1> SUFFICES ASSUME TypeOK, OutcomeKept, [Next]_vars, NEW k \in Packages, told'[k] # Nil
             PROVE  /\ told'[k].state = "completed" =>
                           \A i \in DOMAIN Cut(pkg'[k]) : Cut(pkg'[k])[i].state = "FINISHED"
                    /\ told'[k].state = "failed" /\ ~told'[k].waiting =>
                           \/ Cut(pkg'[k]) = <<>>
                           \/ /\ \A i \in DOMAIN Cut(pkg'[k]) : Cut(pkg'[k])[i].state \in Over
                              /\ \E i \in DOMAIN Cut(pkg'[k]) : Cut(pkg'[k])[i].state \in Broken
  BY PageIsCut DEF OutcomeKept, Page, Cut
<1>0. PackageMoves(k) /\ AnswerMoves(k)
  BY NextMoves DEF Moves
<1> DEFINE page == Cut(pkg[k])
<1>1. told[k] # Nil =>
          /\ told[k].state = "completed" => \A i \in DOMAIN page : page[i].state = "FINISHED"
          /\ told[k].state = "failed" /\ ~told[k].waiting =>
                 \/ page = <<>>
                 \/ /\ \A i \in DOMAIN page : page[i].state \in Over
                    /\ \E i \in DOMAIN page : page[i].state \in Broken
  BY PageIsCut DEF OutcomeKept
<1>2. \A i \in DOMAIN page : page[i] \in Link
  BY CutType DEF TypeOK
<1>3. CASE pkg'[k] = Nil
  BY <1>3, CutNil
<1>4. CASE pkg'[k] = pkg[k] /\ told'[k] = told[k]
  BY <1>1, <1>4
<1>5. CASE /\ pkg'[k] = pkg[k]
           /\ told'[k] = [state |-> FoldODL(Page(k)), waiting |-> Waiting(Page(k))]
  <2>1. told'[k].state = FoldODL(page) /\ told'[k].waiting = Waiting(page)
    BY <1>5, PageIsCut
  <2>2. FoldODL(page) = "completed" => \A i \in DOMAIN page : page[i].state = "FINISHED"
    BY FoldType DEF AllFinished
  <2>3. ASSUME FoldODL(page) = "failed", ~Waiting(page)
        PROVE  /\ \A i \in DOMAIN page : page[i].state \in Over
               /\ \E i \in DOMAIN page : page[i].state \in Broken
    <3>1. AnyFailed(page) /\ ~AnyRunning(page)
      BY <2>3, FoldType
    <3>2. \A i \in DOMAIN page : page[i].state \in {"QUEUED"} \cup Active \cup Over
      BY <1>2 DEF Link
    <3> HIDE DEF page
    <3> QED
      BY <2>3, <3>1, <3>2 DEF AnyFailed, AnyRunning, Waiting
  <2> HIDE DEF page
  <2> QED
    BY <1>5, <2>1, <2>2, <2>3 DEF page
<1>6. CASE pkg'[k] # pkg[k] /\ pkg'[k] # Nil
  <2>1. told'[k] = told[k] /\ ~Fresh(k)
    BY <1>0, <1>6 DEF PackageMoves, AnswerMoves, Fresh
  <2>2. /\ pkg[k] # Nil /\ pkg[k] \in Seq(Link)
        /\ \E i \in DOMAIN pkg[k], l \in Link :
               pkg[k][i].state \notin Over /\ pkg'[k] = [pkg[k] EXCEPT ![i] = l]
    BY <1>0, <1>6, <2>1 DEF PackageMoves
  <2>3. ASSUME \A j \in DOMAIN page : page[j].state \in Over
        PROVE  /\ DOMAIN Cut(pkg'[k]) = DOMAIN page
               /\ \A j \in DOMAIN page : Cut(pkg'[k])[j] = page[j]
    BY <1>6, <2>2, <2>3, OverPageStays
  <2>4. "FINISHED" \in Over
    BY DEF Over
  <2>5. page = <<>> => DOMAIN page = {}
    OBVIOUS
  <2>6. DOMAIN Cut(pkg'[k]) = {} => Cut(pkg'[k]) = <<>>
    <3>1. Cut(pkg'[k]) \in Seq(Link)
      BY NextTypes, CutType DEF TypeOK
    <3> QED
      BY <3>1
  <2> HIDE DEF page
  <2> QED
    BY <1>1, <2>1, <2>3, <2>4, <2>5, <2>6
<1> QED
  BY <1>0, <1>3, <1>4, <1>5, <1>6 DEF AnswerMoves

\* What was told is true in every behaviour.
THEOREM OutcomeInvariant == Spec => [](TypeOK /\ OutcomeKept)
<1>1. Init => TypeOK /\ OutcomeKept
  BY InitTypes DEF Init, OutcomeKept
<1>2. TypeOK /\ OutcomeKept /\ [Next]_vars => (TypeOK /\ OutcomeKept)'
  BY NextTypes, NextOutcome
<1> QED
  BY <1>1, <1>2, PTL DEF Spec

\* A package that fits one page and was reported complete has only finished links,
\* then and later (foldODL).
THEOREM CompletedMeansAll == Spec => []CompletedIsAll
<1>1. TypeOK /\ OutcomeKept => CompletedIsAll
  <2> SUFFICES ASSUME TypeOK, OutcomeKept, NEW k \in Packages, told[k] # Nil,
                      told[k].state = "completed", pkg[k] # Nil, Len(pkg[k]) <= PageSize,
                      NEW i \in DOMAIN pkg[k]
               PROVE  pkg[k][i].state = "FINISHED"
    BY DEF CompletedIsAll
  <2>1. pkg[k] \in Seq(Link)
    BY DEF TypeOK
  <2>2. i \in Nat /\ i <= PageSize
    BY <2>1, ODownloaderAssumption
  <2>3. i \in DOMAIN Page(k) /\ Page(k)[i] = pkg[k][i]
    BY <2>1, <2>2, CutLinks, PageIsCut
  <2> QED
    BY <2>3 DEF OutcomeKept
<1> QED
  BY <1>1, OutcomeInvariant, PTL

\* The outcome that made the gateway untrack a package is the last word, unless a
\* failed package still had a link that had not started (foldODL, pollOne).
THEOREM OutcomeHolds == Spec => OutcomeIsFinal
<1>1. ASSUME TypeOK, OutcomeKept, [Next]_vars, NEW k \in Packages, told[k] # Nil,
             told[k].state \in {"completed", "failed"}, ~told[k].waiting
      PROVE  told'[k].state \in {told[k].state, "not-found"}
  <2>0. AnswerMoves(k)
    BY <1>1, NextMoves DEF Moves
  <2>1. CASE told'[k] = told[k]
    BY <2>1
  <2>2. CASE told'[k] = [state |-> FoldODL(Page(k)), waiting |-> Waiting(Page(k))]
    <3>1. told'[k].state = FoldODL(Page(k))
      BY <2>2
    <3>2. CASE Page(k) = <<>>
      BY <3>1, <3>2 DEF FoldODL
    <3>3. CASE Page(k) # <<>> /\ told[k].state = "completed"
      <4>1. AllFinished(Page(k))
        BY <1>1, <3>3 DEF OutcomeKept, AllFinished
      <4> QED
        BY <3>1, <3>3, <4>1 DEF FoldODL
    <3>4. CASE Page(k) # <<>> /\ told[k].state = "failed"
      <4>1. /\ \A i \in DOMAIN Page(k) : Page(k)[i].state \in Over
            /\ \E i \in DOMAIN Page(k) : Page(k)[i].state \in Broken
        BY <1>1, <3>4 DEF OutcomeKept
      <4>2. AnyFailed(Page(k)) /\ ~AnyRunning(Page(k)) /\ ~AllFinished(Page(k))
        BY <4>1 DEF AnyFailed, AnyRunning, AllFinished, Over, Broken, Active
      <4> QED
        BY <3>1, <3>4, <4>2 DEF FoldODL
    <3> QED
      BY <1>1, <3>2, <3>3, <3>4
  <2> QED
    BY <2>0, <2>1, <2>2 DEF AnswerMoves
<1>2. TypeOK /\ OutcomeKept /\ [Next]_vars =>
          [\A k \in Packages :
              /\ told[k] # Nil /\ told[k].state \in {"completed", "failed"}
              /\ ~told[k].waiting
              => told'[k].state \in {told[k].state, "not-found"}]_vars
  BY <1>1
<1> QED
  BY <1>2, OutcomeInvariant, PTL DEF Spec, OutcomeIsFinal

-----------------------------------------------------------------------------
(* Removal and progress. *)

\* A removed package does not come back: an id is given once.
LEMMA NextRemoved == TypeOK /\ RemovedIsGone /\ [Next]_vars => RemovedIsGone'
<1> SUFFICES ASSUME TypeOK, RemovedIsGone, [Next]_vars, NEW k \in removed'
             PROVE  pkg'[k] = Nil
  BY DEF RemovedIsGone
<1>0. k \in Packages
  BY NextFigures
<1>1. CASE k \in removed
  <2>1. PackageMoves(k) /\ pkg[k] = Nil
    BY <1>0, <1>1, NextMoves DEF Moves, RemovedIsGone
  <2> QED
    BY <1>1, <2>1 DEF PackageMoves, Fresh
<1>2. CASE k \notin removed
  <2>1. ~UNCHANGED removed
    BY <1>2
  <2>2. ASSUME NEW j \in Packages, Remove(j) PROVE pkg'[k] = Nil
    BY <1>0, <1>2, <2>2 DEF Remove, Forget, TypeOK
  <2>3. ASSUME NEW j \in Packages, NEW i, LinkStep(j, i) PROVE FALSE
    BY <2>1, <2>3, LinkMoves
  <2>4. ASSUME NEW j \in Packages, NEW n,
               \/ Add(j, n) \/ AddLost(j, n) \/ PackageVanish(j) \/ Describe(j) \/ PollEnded(j)
               \/ PollLost(j) \/ PollProgress(j) \/ RemoveRefused(j) \/ RemoveLost(j)
        PROVE  FALSE
    BY <2>1, <2>4 DEF Add, AddLost, PackageVanish, Describe, PollEnded, PollLost, PollProgress,
                      RemoveRefused, RemoveLost, vars
  <2> QED
    BY <2>1, <2>2, <2>3, <2>4 DEF Next, Poll, vars
<1> QED
  BY <1>1, <1>2

\* Remove: once the DELETE was answered the daemon does not have the package, however
\* often an answer was lost before.
THEOREM RemovedStaysGone == Spec => []RemovedIsGone
<1>1. Init => TypeOK /\ RemovedIsGone
  BY InitTypes DEF Init, RemovedIsGone
<1>2. TypeOK /\ RemovedIsGone /\ [Next]_vars => (TypeOK /\ RemovedIsGone)'
  BY NextTypes, NextRemoved
<1> QED
  BY <1>1, <1>2, PTL DEF Spec

\* fillDerived and optInt32: for every width of the event's integer, a rate is never
\* negative and an ETA that fits is passed on.
THEOREM ProgressIsSane == Spec => []ProgressSane
<1>1. Init => TypeOK /\ ProgressSane
  BY InitTypes DEF Init, ProgressSane
<1>2. TypeOK /\ ProgressSane /\ [Next]_vars => (TypeOK /\ ProgressSane)'
  <2> SUFFICES ASSUME TypeOK, ProgressSane, [Next]_vars PROVE ProgressSane'
    BY NextTypes
  <2>1. CASE UNCHANGED event
    BY <2>1 DEF ProgressSane
  <2>2. ASSUME NEW v \in Figure, event' = [view |-> v, eta |-> OptInt32(v.eta)]
        PROVE  ProgressSane'
    <3>1. event'.view = v /\ event'.eta = OptInt32(v.eta)
      BY <2>2
    <3>2. v.speed >= 0 /\ v.eta \in Int
      BY DEF Figure
    <3>3. PICK half \in Nat : half = 2^(EtaBits - 1)
      BY DerivedAssumption, PowerNat
    <3>4. CASE v.eta < 0
      <4>1. event'.eta = Nil
        BY <3>1, <3>4 DEF OptInt32
      <4> QED
        BY <3>1, <3>2, <4>1 DEF ProgressSane
    <3>5. CASE v.eta >= 0 /\ v.eta < half
      <4>1. event'.eta = v.eta
        BY <3>1, <3>2, <3>3, <3>5, NarrowKeeps DEF OptInt32
      <4> QED
        BY <3>1, <3>2, <3>5, <4>1 DEF ProgressSane
    <3>6. CASE v.eta >= half
      BY <3>1, <3>2, <3>3, <3>6 DEF ProgressSane
    <3> QED
      BY <3>2, <3>3, <3>4, <3>5, <3>6
  <2> QED
    BY <2>1, <2>2, NextFigures
<1> QED
  BY <1>1, <1>2, PTL DEF Spec

===============================================================================

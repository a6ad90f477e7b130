------------------------------ MODULE SumTheorems ------------------------------
(***************************************************************************)
(* Sums over finite sets: what SumFunctionOnSet of the community module    *)
(* Functions returns.  The gateway's budget of large adds is such a sum    *)
(* (AddBudget).                                                            *)
(*                                                                         *)
(* SumFunctionOnSet is a recursion over the subsets of its set.  Such a    *)
(* function exists, and there is only one: both are shown for a smallest   *)
(* subset on which they fail.  The sum's laws follow in the same way.      *)
(***************************************************************************)
EXTENDS Functions, FiniteSetTheorems, TLAPS

\* Of the subsets of a finite set that do something, one has no smaller one: every
\* induction below is over the sets of adds in flight, and takes this form.
LEMMA SmallestSubset ==
    ASSUME NEW S, IsFiniteSet(S), NEW T, T \subseteq SUBSET S, T # {}
    PROVE  \E t \in T : \A u \in T : u \subseteq t => u = t
<1>1. IsWellFoundedOn(StrictSubsetOrdering(S), SUBSET S)
  BY FS_StrictSubsetOrderingWellFounded, FS_FiniteSubsetsOfFinite
<1>2. PICK t \in T : \A u \in T : <<u, t>> \notin StrictSubsetOrdering(S)
  BY <1>1, WFMin
<1> QED
  BY <1>2 DEF StrictSubsetOrdering

\* The element a fold takes next.
Pick(s) == CHOOSE x \in s : TRUE

\* h tells the sum of f over each subset of S.
IsTotal(f, S, h) ==
    h = [s \in SUBSET S |-> IF s = {} THEN 0 ELSE f[Pick(s)] + h[s \ {Pick(s)}]]

\* A set that is not empty has an element to take.
LEMMA PickIn ==
    ASSUME NEW s, s # {}
    PROVE  Pick(s) \in s
BY DEF Pick

\* What such a function is at each subset.
LEMMA TotalAt ==
    ASSUME NEW f, NEW S, NEW h, IsTotal(f, S, h), NEW s, s \subseteq S
    PROVE  h[s] = IF s = {} THEN 0 ELSE f[Pick(s)] + h[s \ {Pick(s)}]
<1>1. s \in SUBSET S
  OBVIOUS
<1>2. h[s] = [t \in SUBSET S |-> IF t = {} THEN 0 ELSE f[Pick(t)] + h[t \ {Pick(t)}]][s]
  BY Zenon DEF IsTotal
<1> QED
  BY Zenon, <1>1, <1>2

\* The community module's sum is the value of such a function.
LEMMA SumIsTotal ==
    ASSUME NEW f, NEW S
    PROVE  SumFunctionOnSet(f, S) = (CHOOSE k : IsTotal(f, S, k))[S]
BY Zenon DEF SumFunctionOnSet, FoldFunctionOnSet, MapThenFoldSet, IsTotal, Pick

\* Two such functions agree wherever both are defined.
LEMMA TotalUnique ==
    ASSUME NEW f, NEW S, NEW R, IsFiniteSet(S), R \subseteq S,
           NEW h, IsTotal(f, S, h), NEW g, IsTotal(f, R, g)
    PROVE  h[R] = g[R]
<1> DEFINE Bad == {s \in SUBSET R : h[s] # g[s]}
<1>1. SUFFICES ASSUME Bad # {} PROVE FALSE
  OBVIOUS
<1>2. PICK t \in Bad : \A u \in Bad : u \subseteq t => u = t
  <2>1. IsFiniteSet(R)
    BY FS_Subset
  <2>2. Bad \subseteq SUBSET R
    OBVIOUS
  <2> HIDE DEF Bad
  <2> QED
    BY <1>1, <2>1, <2>2, SmallestSubset
<1> DEFINE x == Pick(t)
<1>3. t # {}
  BY <1>2, TotalAt
<1>4. x \in t /\ t \ {x} \subseteq t /\ t \ {x} # t
  BY <1>3, PickIn
<1>5. h[t \ {x}] = g[t \ {x}]
  BY <1>2, <1>4
<1>6. h[t] = f[x] + h[t \ {x}] /\ g[t] = f[x] + g[t \ {x}]
  BY <1>2, <1>3, TotalAt
<1> QED
  BY <1>2, <1>5, <1>6

\* There is such a function: on a smallest set without one, it can be put together
\* from those of the smaller sets.
LEMMA TotalExists ==
    ASSUME NEW f, NEW S, IsFiniteSet(S)
    PROVE  \E h : IsTotal(f, S, h)
<1> DEFINE Has(s) == \E k : IsTotal(f, s, k)
           V(s) == (CHOOSE k : IsTotal(f, s, k))[s]
           Bad == {s \in SUBSET S : ~Has(s)}
<1>1. SUFFICES ASSUME Bad # {} PROVE FALSE
  OBVIOUS
<1>2. PICK t \in Bad : \A u \in Bad : u \subseteq t => u = t
  <2>1. Bad \subseteq SUBSET S
    OBVIOUS
  <2> HIDE DEF Bad
  <2> QED
    BY <1>1, <2>1, SmallestSubset
<1>3. ASSUME NEW s \in SUBSET t, s # t
      PROVE  V(s) = IF s = {} THEN 0 ELSE f[Pick(s)] + V(s \ {Pick(s)})
  <2> DEFINE h == CHOOSE k : IsTotal(f, s, k)
             y == Pick(s)
             r == s \ {y}
             g == CHOOSE k : IsTotal(f, r, k)
  <2>1. IsFiniteSet(s) /\ s \in SUBSET S /\ s \notin Bad
    BY <1>2, <1>3, FS_Subset
  <2>2. IsTotal(f, s, h)
    BY <2>1, Zenon
  <2>3. h[s] = IF s = {} THEN 0 ELSE f[y] + h[r]
    <3>1. s \subseteq s
      OBVIOUS
    <3> HIDE DEF h
    <3> QED
      BY <2>2, <3>1, TotalAt
  <2>4. ASSUME s # {} PROVE h[r] = g[r]
    <3>1. y \in s /\ r \subseteq s /\ r \subseteq t /\ r # t
      BY <2>4, <1>3, PickIn
    <3>2. r \in SUBSET S /\ r \notin Bad
      BY <3>1, <1>2
    <3>3. IsTotal(f, r, g)
      BY <3>2, Zenon
    <3> HIDE DEF h, g, y
    <3> QED
      BY <3>1, <3>3, <2>1, <2>2, TotalUnique
  <2>5. V(s) = h[s] /\ V(r) = g[r]
    OBVIOUS
  <2> HIDE DEF V, h, g
  <2> QED
    BY <2>3, <2>4, <2>5
<1> DEFINE h == [s \in SUBSET t |-> IF s = {} THEN 0 ELSE f[Pick(s)] + V(s \ {Pick(s)})]
<1>4. ASSUME NEW s \in SUBSET t, s # {}
      PROVE  h[s \ {Pick(s)}] = V(s \ {Pick(s)})
  <2> DEFINE r == s \ {Pick(s)}
  <2>1. r \in SUBSET t /\ r # t
    BY <1>4, PickIn
  <2>2. V(r) = IF r = {} THEN 0 ELSE f[Pick(r)] + V(r \ {Pick(r)})
    BY <1>3, <2>1
  <2>3. h[r] = IF r = {} THEN 0 ELSE f[Pick(r)] + V(r \ {Pick(r)})
    BY <2>1, Zenon
  <2> QED
    BY <2>2, <2>3, Zenon
<1>5. IsTotal(f, t, h)
  <2> HIDE DEF V
  <2>1. h = [s \in SUBSET t |-> IF s = {} THEN 0 ELSE f[Pick(s)] + h[s \ {Pick(s)}]]
    BY <1>4
  <2> QED
    BY <2>1, Zenon DEF IsTotal
<1> QED
  BY <1>2, <1>5, Zenon

-----------------------------------------------------------------------------
(* The laws of sums. *)

\* No adds have reserved nothing.
LEMMA SumEmpty ==
    ASSUME NEW f
    PROVE  SumFunctionOnSet(f, {}) = 0
<1>1. IsFiniteSet({})
  BY FS_EmptySet
<1>2. IsTotal(f, {}, CHOOSE k : IsTotal(f, {}, k))
  BY <1>1, TotalExists, Zenon
<1> QED
  BY <1>2, TotalAt, SumIsTotal, Zenon

\* One step of the fold.
LEMMA SumPick ==
    ASSUME NEW f, NEW S, IsFiniteSet(S), S # {}
    PROVE  SumFunctionOnSet(f, S) = f[Pick(S)] + SumFunctionOnSet(f, S \ {Pick(S)})
<1> DEFINE R == S \ {Pick(S)}
           h == CHOOSE k : IsTotal(f, S, k)
           g == CHOOSE k : IsTotal(f, R, k)
<1>1. IsFiniteSet(R) /\ R \subseteq S
  BY FS_Subset
<1>2. IsTotal(f, S, h)
  BY TotalExists, Zenon
<1>3. IsTotal(f, R, g)
  BY <1>1, TotalExists, Zenon
<1>4. h[S] = f[Pick(S)] + h[R]
  <2>1. S \subseteq S
    OBVIOUS
  <2> HIDE DEF h
  <2> QED
    BY <1>2, <2>1, TotalAt
<1>5. h[R] = g[R]
  <2> HIDE DEF h, g, R
  <2> QED
    BY <1>1, <1>2, <1>3, TotalUnique
<1> QED
  BY <1>4, <1>5, SumIsTotal, Zenon

\* A sum of natural numbers is one.
LEMMA SumNat ==
    ASSUME NEW f, NEW S, IsFiniteSet(S), \A x \in S : f[x] \in Nat
    PROVE  SumFunctionOnSet(f, S) \in Nat
<1> DEFINE Bad == {s \in SUBSET S : SumFunctionOnSet(f, s) \notin Nat}
<1>1. SUFFICES ASSUME Bad # {} PROVE FALSE
  OBVIOUS
<1>2. PICK t \in Bad : \A u \in Bad : u \subseteq t => u = t
  <2>1. Bad \subseteq SUBSET S
    OBVIOUS
  <2> HIDE DEF Bad
  <2> QED
    BY <1>1, <2>1, SmallestSubset
<1>3. t # {}
  <2>1. SumFunctionOnSet(f, {}) \in Nat
    BY SumEmpty
  <2> QED
    BY <1>2, <2>1, Zenon
<1>4. Pick(t) \in t /\ Pick(t) \in S /\ IsFiniteSet(t)
  BY <1>2, <1>3, PickIn, FS_Subset
<1>5. SumFunctionOnSet(f, t \ {Pick(t)}) \in Nat
  BY <1>2, <1>4
<1> QED
  BY <1>2, <1>3, <1>4, <1>5, SumPick

\* Any element may be split off.
LEMMA SumSplit ==
    ASSUME NEW f, NEW S, IsFiniteSet(S), \A x \in S : f[x] \in Nat, NEW e \in S
    PROVE  SumFunctionOnSet(f, S) = f[e] + SumFunctionOnSet(f, S \ {e})
<1> DEFINE Total(s) == SumFunctionOnSet(f, s)
           Bad == {s \in SUBSET S : \E d \in s : Total(s) # f[d] + Total(s \ {d})}
<1>1. SUFFICES ASSUME Bad # {} PROVE FALSE
  OBVIOUS
<1>2. PICK t \in Bad : \A u \in Bad : u \subseteq t => u = t
  <2>1. Bad \subseteq SUBSET S
    OBVIOUS
  <2> HIDE DEF Bad
  <2> QED
    BY <1>1, <2>1, SmallestSubset
<1>3. PICK d \in t : Total(t) # f[d] + Total(t \ {d})
  BY <1>2
<1> DEFINE c == Pick(t)
           r == t \ {c, d}
<1>4. c \in t /\ c \in S /\ d \in S /\ IsFiniteSet(t)
  BY <1>2, <1>3, PickIn, FS_Subset
<1>5. Total(t) = f[c] + Total(t \ {c})
  BY <1>3, <1>4, SumPick
<1>6. c # d
  BY <1>3, <1>5
<1>7. Total(t \ {c}) = f[d] + Total(r)
  <2>1. t \ {c} \notin Bad /\ d \in t \ {c} /\ (t \ {c}) \ {d} = r
    BY <1>2, <1>3, <1>4, <1>6
  <2> QED
    BY <2>1, <1>2
<1>8. Total(t \ {d}) = f[c] + Total(r)
  <2>1. t \ {d} \notin Bad /\ c \in t \ {d} /\ (t \ {d}) \ {c} = r
    BY <1>2, <1>3, <1>4, <1>6
  <2> QED
    BY <2>1, <1>2
<1>9. Total(r) \in Nat
  <2>1. IsFiniteSet(r) /\ \A x \in r : f[x] \in Nat
    BY <1>2, <1>4, FS_Subset
  <2> QED
    BY <2>1, SumNat
<1> HIDE DEF Total, c, r
<1> QED
  BY <1>3, <1>4, <1>5, <1>7, <1>8, <1>9

\* The sum grows with its terms.
LEMMA SumLeq ==
    ASSUME NEW f, NEW g, NEW S, IsFiniteSet(S),
           \A x \in S : f[x] \in Nat /\ g[x] \in Nat /\ f[x] <= g[x]
    PROVE  SumFunctionOnSet(f, S) <= SumFunctionOnSet(g, S)
<1> DEFINE Bad == {s \in SUBSET S : ~(SumFunctionOnSet(f, s) <= SumFunctionOnSet(g, s))}
<1>1. SUFFICES ASSUME Bad # {} PROVE FALSE
  OBVIOUS
<1>2. PICK t \in Bad : \A u \in Bad : u \subseteq t => u = t
  <2>1. Bad \subseteq SUBSET S
    OBVIOUS
  <2> HIDE DEF Bad
  <2> QED
    BY <1>1, <2>1, SmallestSubset
<1> DEFINE c == Pick(t)
           r == t \ {c}
<1>3. t # {}
  BY <1>2, SumEmpty
<1>4. c \in t /\ c \in S /\ IsFiniteSet(t) /\ IsFiniteSet(r) /\ r \subseteq S
  BY <1>2, <1>3, PickIn, FS_Subset
<1>5. SumFunctionOnSet(f, r) <= SumFunctionOnSet(g, r)
  BY <1>2, <1>4
<1>6. /\ SumFunctionOnSet(f, t) = f[c] + SumFunctionOnSet(f, r)
      /\ SumFunctionOnSet(g, t) = g[c] + SumFunctionOnSet(g, r)
  BY <1>3, <1>4, SumPick
<1>7. SumFunctionOnSet(f, r) \in Nat /\ SumFunctionOnSet(g, r) \in Nat
  BY <1>4, SumNat
<1>8. ~(SumFunctionOnSet(f, t) <= SumFunctionOnSet(g, t))
  BY <1>2
<1>9. f[c] \in Nat /\ g[c] \in Nat /\ f[c] <= g[c]
  BY <1>4
<1> HIDE DEF c, r
<1> QED
  BY <1>5, <1>6, <1>7, <1>8, <1>9

\* The sum depends on the terms alone.
LEMMA SumSame ==
    ASSUME NEW f, NEW g, NEW S, IsFiniteSet(S),
           \A x \in S : f[x] \in Nat /\ g[x] = f[x]
    PROVE  SumFunctionOnSet(f, S) = SumFunctionOnSet(g, S)
<1>1. SumFunctionOnSet(f, S) \in Nat /\ SumFunctionOnSet(g, S) \in Nat
  BY SumNat
<1>2. SumFunctionOnSet(f, S) <= SumFunctionOnSet(g, S)
  BY SumLeq
<1>3. SumFunctionOnSet(g, S) <= SumFunctionOnSet(f, S)
  BY SumLeq
<1> QED
  BY <1>1, <1>2, <1>3

\* Changing one term changes the sum by the difference.
LEMMA SumUpdate ==
    ASSUME NEW f, NEW g, NEW S, IsFiniteSet(S), NEW e \in S,
           \A x \in S : f[x] \in Nat /\ g[x] \in Nat,
           \A x \in S \ {e} : g[x] = f[x]
    PROVE  SumFunctionOnSet(g, S) = SumFunctionOnSet(f, S) - f[e] + g[e]
<1> DEFINE R == S \ {e}
<1>1. IsFiniteSet(R)
  BY FS_Subset
<1>2. SumFunctionOnSet(f, R) = SumFunctionOnSet(g, R) /\ SumFunctionOnSet(f, R) \in Nat
  BY <1>1, SumSame, SumNat
<1>3. /\ SumFunctionOnSet(f, S) = f[e] + SumFunctionOnSet(f, R)
      /\ SumFunctionOnSet(g, S) = g[e] + SumFunctionOnSet(g, R)
  BY SumSplit
<1>4. f[e] \in Nat /\ g[e] \in Nat
  OBVIOUS
<1> HIDE DEF R
<1> QED
  BY <1>2, <1>3, <1>4

\* Zeroes sum to zero.
LEMMA SumZero ==
    ASSUME NEW f, NEW S, IsFiniteSet(S), \A x \in S : f[x] = 0
    PROVE  SumFunctionOnSet(f, S) = 0
<1> DEFINE Bad == {s \in SUBSET S : SumFunctionOnSet(f, s) # 0}
<1>1. SUFFICES ASSUME Bad # {} PROVE FALSE
  OBVIOUS
<1>2. PICK t \in Bad : \A u \in Bad : u \subseteq t => u = t
  <2>1. Bad \subseteq SUBSET S
    OBVIOUS
  <2> HIDE DEF Bad
  <2> QED
    BY <1>1, <2>1, SmallestSubset
<1>3. t # {}
  BY <1>2, SumEmpty, Zenon
<1>4. Pick(t) \in t /\ Pick(t) \in S /\ IsFiniteSet(t)
  BY <1>2, <1>3, PickIn, FS_Subset
<1>5. SumFunctionOnSet(f, t \ {Pick(t)}) = 0
  BY <1>2, <1>4
<1> QED
  BY <1>2, <1>3, <1>4, <1>5, SumPick

\* A part sums to no more than the whole.
LEMMA SumSubset ==
    ASSUME NEW f, NEW S, IsFiniteSet(S), \A x \in S : f[x] \in Nat, NEW R \in SUBSET S
    PROVE  SumFunctionOnSet(f, R) <= SumFunctionOnSet(f, S)
<1> DEFINE Total(s) == SumFunctionOnSet(f, s)
           Bad == {s \in SUBSET S : ~(Total(s \cap R) <= Total(s))}
<1>1. SUFFICES ASSUME Bad # {} PROVE FALSE
  <2>1. S \notin Bad /\ S \cap R = R
    BY <1>1
  <2> QED
    BY <2>1
<1>2. PICK t \in Bad : \A u \in Bad : u \subseteq t => u = t
  <2>1. Bad \subseteq SUBSET S
    OBVIOUS
  <2> HIDE DEF Bad
  <2> QED
    BY <1>1, <2>1, SmallestSubset
<1>3. t # {}
  <2>1. ASSUME t = {} PROVE FALSE
    <3>1. t \cap R = {} /\ Total({}) = 0
      BY <2>1, SumEmpty
    <3> QED
      BY <1>2, <2>1, <3>1
  <2> QED
    BY <2>1
<1> DEFINE c == Pick(t)
           r == t \ {c}
<1>4. /\ c \in t /\ c \in S /\ r \subseteq S
      /\ IsFiniteSet(t) /\ IsFiniteSet(r) /\ IsFiniteSet(r \cap R) /\ IsFiniteSet(t \cap R)
  BY <1>2, <1>3, PickIn, FS_Subset
<1>5. Total(r \cap R) <= Total(r)
  BY <1>2, <1>4
<1>6. Total(t) = f[c] + Total(r)
  BY <1>3, <1>4, SumPick
<1>7. Total(r) \in Nat /\ Total(r \cap R) \in Nat /\ f[c] \in Nat
  BY <1>4, SumNat
<1>8. Total(t \cap R) <= f[c] + Total(r \cap R)
  <2>1. CASE c \in R
    <3>1. c \in t \cap R /\ (t \cap R) \ {c} = r \cap R
      BY <1>4, <2>1
    <3>2. \A x \in t \cap R : f[x] \in Nat
      BY <1>4
    <3>3. Total(t \cap R) = f[c] + Total(r \cap R)
      BY <1>4, <3>1, <3>2, SumSplit
    <3> HIDE DEF Total, c, r
    <3> QED
      BY <3>3, <1>7
  <2>2. CASE c \notin R
    <3>1. t \cap R = r \cap R
      BY <2>2
    <3>2. Total(t \cap R) = Total(r \cap R)
      BY <3>1, Zenon
    <3> HIDE DEF Total, c, r
    <3> QED
      BY <1>7, <3>2
  <2> QED
    BY <2>1, <2>2
<1>9. Total(t \cap R) \in Nat
  BY <1>4, SumNat
<1>10. ~(Total(t \cap R) <= Total(t))
  BY <1>2
<1> HIDE DEF Total, c, r
<1> QED
  BY <1>5, <1>6, <1>7, <1>8, <1>9, <1>10

=============================================================================

---------------------------- MODULE DataTheorems ----------------------------
(***************************************************************************)
(* Facts about finite data that the proofs about balances, reports, lists  *)
(* and the audit verifier use: least elements, induction over finite sets, *)
(* sums (what MapThenSumSet of the community modules returns) and sorted   *)
(* enumerations.  A sum is stated of a function: Total(f, S) adds f[x] for *)
(* the members x of S.                                                     *)
(***************************************************************************)
EXTENDS Integers, FiniteSets, FiniteSetTheorems, TLAPS

Pick(s) == CHOOSE x \in s : TRUE
Adds(g, f, S) ==
    g = [s \in SUBSET S |-> IF s = {} THEN 0 ELSE f[Pick(s)] + g[s \ {Pick(s)}]]
Total(f, S) == (CHOOSE g : Adds(g, f, S))[S]

\* Among subsets of a finite set there is one that no other lies within.
LEMMA LeastSubset ==
    ASSUME NEW S, IsFiniteSet(S), NEW P \in SUBSET (SUBSET S), P # {}
    PROVE  \E m \in P : \A u \in P : u \subseteq m => u = m
<1> DEFINE R == StrictSubsetOrdering(S)
<1>1. P \subseteq FiniteSubsetsOf(S)
  BY FS_Subset DEF FiniteSubsetsOf
<1>2. PICK m \in P : \A u \in P : ~(<<u, m>> \in R)
  <2> HIDE DEF R
  <2>1. IsWellFoundedOn(StrictSubsetOrdering(S), FiniteSubsetsOf(S))
    BY FS_StrictSubsetOrderingWellFounded
  <2>2. IsWellFoundedOn(R, FiniteSubsetsOf(S))
    BY <2>1 DEF R
  <2>3. QED BY <1>1, <2>2, WFMin
<1>3. \A u \in P : u \subseteq m => u = m
  BY <1>2 DEF StrictSubsetOrdering
<1>4. QED BY <1>3

\* A set of natural numbers has a least one.
LEMMA LeastNumber ==
    ASSUME NEW S \in SUBSET Nat, S # {}
    PROVE  \E x \in S : \A y \in S : x <= y
<1> DEFINE upto == {0 .. x : x \in S}
           R == StrictSubsetOrdering(Nat)
<1>1. \A x \in S : IsFiniteSet(0 .. x) /\ 0 .. x \in SUBSET Nat
  <2>1. \A x \in S : 0 \in Int /\ x \in Int
    OBVIOUS
  <2>2. \A x \in S : IsFiniteSet(0 .. x)
    BY <2>1, FS_Interval
  <2>3. QED BY <2>2
<1>2. upto \subseteq FiniteSubsetsOf(Nat) /\ upto # {}
  BY <1>1, Zenon DEF FiniteSubsetsOf
<1>3. PICK low \in upto : \A y \in upto : ~(<<y, low>> \in R)
  <2> HIDE DEF upto
  <2>1. QED BY <1>2, FS_StrictSubsetOrderingWellFounded, WFMin
<1>4. PICK x \in S : low = 0 .. x
  OBVIOUS
<1>5. ASSUME NEW y \in S, y < x
      PROVE  FALSE
  <2>1. 0 .. y \in upto /\ 0 .. y \in SUBSET Nat /\ 0 .. x \in SUBSET Nat
    BY <1>1
  <2>2. 0 .. y \subseteq 0 .. x /\ x \in 0 .. x /\ x \notin 0 .. y
    BY <1>5
  <2>3. <<0 .. y, 0 .. x>> \in R
    BY <2>1, <2>2 DEF StrictSubsetOrdering
  <2>4. QED BY <1>3, <1>4, <2>1, <2>3
<1>6. QED BY <1>5

\* What is picked from a set is of the set.
LEMMA PickIsIn == ASSUME NEW s, s # {} PROVE Pick(s) \in s
  BY DEF Pick

\* What adds up over a set adds up over its subsets in the same way.
LEMMA AddsWithin ==
    ASSUME NEW S, NEW T \in SUBSET S, IsFiniteSet(S), NEW f,
           NEW g, Adds(g, f, S), NEW h, Adds(h, f, T)
    PROVE  \A s \in SUBSET T : h[s] = g[s]
<1> DEFINE P == {s \in SUBSET T : h[s] # g[s]}
<1>1. ASSUME P # {}
      PROVE  FALSE
  <2>1. IsFiniteSet(T)
    BY FS_Subset
  <2>2. PICK s \in P : \A u \in P : u \subseteq s => u = s
    <3>1. P \in SUBSET (SUBSET T)
      OBVIOUS
    <3> HIDE DEF P
    <3>2. QED BY <1>1, <2>1, <3>1, LeastSubset
  <2>3. CASE s = {}
    BY <2>2, <2>3 DEF Adds
  <2>4. CASE s # {}
    <3>1. Pick(s) \in s
      BY <2>4, PickIsIn
    <3> DEFINE u == s \ {Pick(s)}
    <3>2. u \in SUBSET T /\ u \subseteq s /\ u # s
      BY <2>2, <3>1
    <3>3. h[u] = g[u]
      BY <2>2, <3>2
    <3>4. h[s] = f[Pick(s)] + h[u] /\ g[s] = f[Pick(s)] + g[u]
      BY <2>2, <2>4 DEF Adds
    <3>5. QED BY <2>2, <3>3, <3>4
  <2>5. QED BY <2>3, <2>4
<1>2. QED BY <1>1

\* Over a finite set there is a way to add up.
LEMMA AddsExists ==
    ASSUME NEW S, IsFiniteSet(S), NEW f
    PROVE  \E g : Adds(g, f, S)
<1> DEFINE Q == {s \in SUBSET S : ~\E g : Adds(g, f, s)}
<1>1. ASSUME Q # {}
      PROVE  FALSE
  <2>1. PICK s \in Q : \A u \in Q : u \subseteq s => u = s
    <3>1. Q \in SUBSET (SUBSET S)
      OBVIOUS
    <3> HIDE DEF Q
    <3>2. QED BY <1>1, <3>1, LeastSubset
  <2> DEFINE Of(u) == CHOOSE g : Adds(g, f, u)
             below == [u \in SUBSET s |-> Of(u)[u]]
             G == [u \in SUBSET s |->
                     IF u = {} THEN 0 ELSE f[Pick(u)] + below[u \ {Pick(u)}]]
  <2>2. \A u \in SUBSET s : u # s => Adds(Of(u), f, u)
    <3>1. ASSUME NEW u \in SUBSET s, u # s
          PROVE  \E g : Adds(g, f, u)
      BY <2>1, <3>1
    <3>2. QED BY <3>1
  <2>3. ASSUME NEW u \in SUBSET s, u # s
        PROVE  G[u] = below[u]
    <3>1. Adds(Of(u), f, u)
      BY <2>2, <2>3
    <3>2. IsFiniteSet(u)
      BY FS_Subset, s \in SUBSET S, u \in SUBSET S
    <3>3. CASE u = {}
      <4>1. Of(u)[u] = 0
        <5> HIDE DEF Of
        <5>1. QED BY <3>1, <3>3 DEF Adds
      <4>2. QED BY <3>3, <4>1
    <3>4. CASE u # {}
      <4> DEFINE v == u \ {Pick(u)}
      <4>1. Pick(u) \in u
        BY <3>4, PickIsIn
      <4>2. v \in SUBSET u /\ v \in SUBSET s /\ v # s
        BY <4>1
      <4>3. Adds(Of(v), f, v)
        BY <2>2, <4>2
      <4>4. Of(v)[v] = Of(u)[v]
        <5> HIDE DEF Of, v
        <5>1. QED BY <3>1, <3>2, <4>2, <4>3, AddsWithin
      <4>5. Of(u)[u] = f[Pick(u)] + Of(u)[v]
        <5> HIDE DEF Of
        <5>1. QED BY <3>1, <3>4 DEF Adds
      <4>6. below[u] = Of(u)[u] /\ below[v] = Of(v)[v]
        BY <4>2
      <4>7. G[u] = f[Pick(u)] + below[v]
        BY <3>4
      <4>8. QED
        <5> HIDE DEF Of, below, G, v
        <5>1. QED BY <4>4, <4>5, <4>6, <4>7
    <3>5. QED BY <3>3, <3>4
  <2>4. Adds(G, f, s)
    <3>1. ASSUME NEW u \in SUBSET s
          PROVE  G[u] = IF u = {} THEN 0 ELSE f[Pick(u)] + G[u \ {Pick(u)}]
      <4>1. CASE u = {}
        BY <4>1
      <4>2. CASE u # {}
        <5>1. Pick(u) \in u
          BY <4>2, PickIsIn
        <5>2. u \ {Pick(u)} \in SUBSET s /\ u \ {Pick(u)} # s
          BY <5>1
        <5>3. G[u] = f[Pick(u)] + below[u \ {Pick(u)}]
          BY <4>2
        <5>4. G[u \ {Pick(u)}] = below[u \ {Pick(u)}]
          BY <2>3, <5>2
        <5>5. QED
          <6> HIDE DEF G, below
          <6>1. QED BY <4>2, <5>3, <5>4
      <4>3. QED BY <4>1, <4>2
    <3>2. G = [u \in SUBSET s |-> G[u]]
      OBVIOUS
    <3>3. QED
      <4> HIDE DEF G
      <4>1. QED BY <3>1, <3>2 DEF Adds
  <2>5. QED
    <3> HIDE DEF G
    <3>1. QED BY <2>1, <2>4
<1>2. S \notin Q
  BY <1>1
<1>3. QED BY <1>2

\* Induction over a finite set, the property given as the set of what has it.
LEMMA BySubsets ==
    ASSUME NEW S, IsFiniteSet(S), NEW P,
           {} \in P, \A s \in SUBSET S : \A x \in S \ s : s \in P => s \cup {x} \in P
    PROVE  S \in P
<1> DEFINE Q == {s \in SUBSET S : s \notin P}
<1>1. ASSUME Q # {}
      PROVE  FALSE
  <2>1. PICK s \in Q : \A u \in Q : u \subseteq s => u = s
    <3>1. Q \in SUBSET (SUBSET S)
      OBVIOUS
    <3> HIDE DEF Q
    <3>2. QED BY <1>1, <3>1, LeastSubset
  <2>2. PICK x \in s : TRUE
    BY <2>1
  <2>3. s \ {x} \in P
    BY <2>1, <2>2
  <2>4. (s \ {x}) \cup {x} = s
    BY <2>2
  <2>5. s \ {x} \in SUBSET S /\ x \in S \ (s \ {x})
    BY <2>1, <2>2
  <2>6. QED BY <2>1, <2>3, <2>4, <2>5
<1>2. QED BY <1>1

-----------------------------------------------------------------------------
(***************************************************************************)
(* The laws of sums                                                        *)
(***************************************************************************)
\* The way to add up is the only one.
LEMMA TotalOf ==
    ASSUME NEW S, IsFiniteSet(S), NEW f, NEW g, Adds(g, f, S), NEW s \in SUBSET S
    PROVE  Total(f, s) = g[s]
<1> DEFINE h == CHOOSE k : Adds(k, f, s)
<1>1. IsFiniteSet(s)
  BY FS_Subset
<1>2. Adds(h, f, s)
  BY <1>1, AddsExists
<1>3. s \in SUBSET s
  OBVIOUS
<1>4. h[s] = g[s]
  <2> HIDE DEF h
  <2>1. QED BY <1>2, <1>3, AddsWithin
<1>5. QED BY <1>4 DEF Total

\* A sum is nothing, or one member and the sum of the others.
LEMMA TotalUnfolds ==
    ASSUME NEW S, IsFiniteSet(S), NEW f
    PROVE  Total(f, S) = IF S = {} THEN 0 ELSE f[Pick(S)] + Total(f, S \ {Pick(S)})
<1>1. PICK g : Adds(g, f, S)
  BY AddsExists
<1>2. g[S] = IF S = {} THEN 0 ELSE f[Pick(S)] + g[S \ {Pick(S)}]
  BY <1>1, S \in SUBSET S DEF Adds
<1>3. S \ {Pick(S)} \in SUBSET S /\ S \in SUBSET S
  OBVIOUS
<1>4. Total(f, S) = g[S] /\ Total(f, S \ {Pick(S)}) = g[S \ {Pick(S)}]
  BY <1>1, <1>3, TotalOf
<1>5. QED BY <1>2, <1>4

\* Nothing sums to nothing.
LEMMA TotalOfNone == ASSUME NEW f PROVE Total(f, {}) = 0
  BY FS_EmptySet, TotalUnfolds

\* A sum of integers is an integer, and any member of it can be taken out.
LEMMA TotalWithout ==
    ASSUME NEW S, IsFiniteSet(S), NEW f, \A x \in S : f[x] \in Int
    PROVE  /\ Total(f, S) \in Int
           /\ \A a \in S : Total(f, S) = f[a] + Total(f, S \ {a})
<1> DEFINE Good(s) == /\ Total(f, s) \in Int
                      /\ \A a \in s : Total(f, s) = f[a] + Total(f, s \ {a})
           Q == {s \in SUBSET S : ~Good(s)}
<1>1. ASSUME Q # {}
      PROVE  FALSE
  <2>1. PICK s \in Q : \A u \in Q : u \subseteq s => u = s
    <3>1. Q \in SUBSET (SUBSET S)
      OBVIOUS
    <3> HIDE DEF Q
    <3>2. QED BY <1>1, <3>1, LeastSubset
  <2>2. s \in SUBSET S /\ ~Good(s)
    BY <2>1
  <2>3. \A u \in SUBSET s : u # s => Good(u)
    <3> HIDE DEF Good
    <3>1. QED BY <2>1, <2>2
  <2>4. IsFiniteSet(s)
    BY <2>2, FS_Subset
  <2>5. CASE s = {}
    <3>1. Total(f, s) = 0 /\ \A a \in s : FALSE
      BY <2>5, TotalOfNone
    <3>2. Good(s)
      BY <3>1
    <3>3. QED BY <2>2, <3>2
  <2>6. CASE s # {}
    <3> DEFINE x == Pick(s)
               r == s \ {x}
    <3>1. x \in s
      BY <2>6, PickIsIn
    <3>2. Total(f, s) = f[x] + Total(f, r)
      BY <2>4, <2>6, TotalUnfolds
    <3> HIDE DEF x
    <3>3. r \in SUBSET s /\ r # s
      BY <3>1
    <3>4. Good(r)
      BY <2>3, <3>3
    <3>5. f[x] \in Int /\ Total(f, r) \in Int
      BY <2>2, <3>1, <3>4
    <3>6. ASSUME NEW a \in s
          PROVE  Total(f, s) = f[a] + Total(f, s \ {a})
      <4>1. CASE a = x
        BY <3>2, <4>1
      <4>2. CASE a # x
        <5> DEFINE p == s \ {a}
                   q == s \ {a, x}
        <5>1. p \in SUBSET s /\ p # s /\ q \in SUBSET s /\ q # s
          OBVIOUS
        <5>2. x \in p /\ a \in r /\ p \ {x} = q /\ r \ {a} = q
          BY <3>1, <4>2
        <5>3. Good(p) /\ Good(q)
          BY <2>3, <5>1
        <5>4. Total(f, p) = f[x] + Total(f, p \ {x})
          BY <5>2, <5>3
        <5>5. Total(f, r) = f[a] + Total(f, r \ {a})
          BY <3>4, <5>2
        <5>6. Total(f, q) \in Int /\ Total(f, p) \in Int /\ f[a] \in Int
          BY <2>2, <5>3
        <5> HIDE DEF p, q, r
        <5>7. Total(f, p) = f[x] + Total(f, q) /\ Total(f, r) = f[a] + Total(f, q)
          BY <5>2, <5>4, <5>5
        <5>8. Total(f, s) = f[a] + Total(f, p)
          BY ONLY <3>2, <3>5, <5>6, <5>7
        <5>9. QED BY <5>8 DEF p
      <4>3. QED BY <4>1, <4>2
    <3>7. Total(f, s) \in Int
      BY <3>2, <3>5
    <3>8. Good(s)
      BY <3>6, <3>7
    <3>9. QED BY <2>2, <3>8
  <2>7. QED BY <2>5, <2>6
<1>2. Good(S)
  <2> HIDE DEF Good
  <2>1. QED BY <1>1
<1>3. QED BY <1>2

\* A sum of integers is an integer.
LEMMA TotalIsInt ==
    ASSUME NEW S, IsFiniteSet(S), NEW f, \A x \in S : f[x] \in Int
    PROVE  Total(f, S) \in Int
  BY TotalWithout

\* A member more is a summand more.
LEMMA TotalWith ==
    ASSUME NEW S, IsFiniteSet(S), NEW f, NEW a, a \notin S,
           \A x \in S : f[x] \in Int, f[a] \in Int
    PROVE  Total(f, S \cup {a}) = Total(f, S) + f[a]
<1> DEFINE T == S \cup {a}
<1>1. IsFiniteSet(T)
  BY FS_AddElement
<1>2. a \in T /\ T \ {a} = S /\ \A x \in T : f[x] \in Int
  OBVIOUS
<1> HIDE DEF T
<1>3. Total(f, T) = f[a] + Total(f, T \ {a})
  BY <1>1, <1>2, TotalWithout
<1>4. Total(f, T) = f[a] + Total(f, S)
  BY <1>2, <1>3
<1>5. Total(f, S) \in Int
  BY TotalIsInt
<1>6. Total(f, T) = Total(f, S) + f[a]
  BY <1>4, <1>5
<1>7. QED BY <1>6 DEF T

\* A sum is of the values of the members only.
LEMMA TotalSame ==
    ASSUME NEW S, IsFiniteSet(S), NEW f, NEW g,
           \A x \in S : f[x] \in Int /\ g[x] = f[x]
    PROVE  Total(g, S) = Total(f, S)
<1> DEFINE P == {s \in SUBSET S : Total(g, s) = Total(f, s)}
<1>1. {} \in P
  BY TotalOfNone
<1>2. ASSUME NEW s \in SUBSET S, NEW x \in S \ s, s \in P
      PROVE  s \cup {x} \in P
  <2>1. IsFiniteSet(s) /\ (\A y \in s : f[y] \in Int) /\ (\A y \in s : g[y] \in Int)
    BY FS_Subset
  <2>2. f[x] \in Int /\ g[x] = f[x] /\ g[x] \in Int /\ x \notin s
    BY <1>2
  <2>3. /\ Total(f, s \cup {x}) = Total(f, s) + f[x]
        /\ Total(g, s \cup {x}) = Total(g, s) + g[x]
    <3>1. Total(f, s \cup {x}) = Total(f, s) + f[x]
      BY ONLY <2>1, <2>2, TotalWith
    <3>2. Total(g, s \cup {x}) = Total(g, s) + g[x]
      BY ONLY <2>1, <2>2, TotalWith
    <3>3. QED BY <3>1, <3>2
  <2>4. Total(g, s \cup {x}) = Total(f, s \cup {x})
    BY <1>2, <2>2, <2>3
  <2>5. QED BY <1>2, <2>4
<1>3. S \in P
  <2> HIDE DEF P
  <2>1. QED BY <1>1, <1>2, BySubsets
<1>4. QED BY <1>3

\* A sum of opposites is the opposite.
LEMMA TotalOpposite ==
    ASSUME NEW S, IsFiniteSet(S), NEW f, NEW g,
           \A x \in S : f[x] \in Int /\ g[x] = -f[x]
    PROVE  Total(g, S) = -Total(f, S)
<1> DEFINE P == {s \in SUBSET S : Total(g, s) = -Total(f, s)}
<1>1. {} \in P
  BY TotalOfNone
<1>2. ASSUME NEW s \in SUBSET S, NEW x \in S \ s, s \in P
      PROVE  s \cup {x} \in P
  <2>1. IsFiniteSet(s) /\ (\A y \in s : f[y] \in Int) /\ (\A y \in s : g[y] \in Int)
    BY FS_Subset
  <2>2. f[x] \in Int /\ g[x] = -f[x] /\ g[x] \in Int /\ x \notin s
    BY <1>2
  <2>3. /\ Total(f, s \cup {x}) = Total(f, s) + f[x]
        /\ Total(g, s \cup {x}) = Total(g, s) + g[x]
    <3>1. Total(f, s \cup {x}) = Total(f, s) + f[x]
      BY ONLY <2>1, <2>2, TotalWith
    <3>2. Total(g, s \cup {x}) = Total(g, s) + g[x]
      BY ONLY <2>1, <2>2, TotalWith
    <3>3. QED BY <3>1, <3>2
  <2>4. Total(f, s) \in Int
    BY <2>1, TotalIsInt
  <2>5. Total(g, s \cup {x}) = -Total(f, s \cup {x})
    BY <1>2, <2>2, <2>3, <2>4
  <2>6. QED BY <1>2, <2>5
<1>3. S \in P
  <2> HIDE DEF P
  <2>1. QED BY <1>1, <1>2, BySubsets
<1>4. QED BY <1>3

\* The sum over two sets without a common member is the sum of their sums.
LEMMA TotalJoined ==
    ASSUME NEW A, IsFiniteSet(A), NEW B, IsFiniteSet(B), A \cap B = {},
           NEW f, \A x \in A \cup B : f[x] \in Int
    PROVE  Total(f, A \cup B) = Total(f, A) + Total(f, B)
<1> DEFINE P == {s \in SUBSET B : Total(f, A \cup s) = Total(f, A) + Total(f, s)}
<1>0. Total(f, A) \in Int
  BY TotalIsInt
<1>1. {} \in P
  <2>1. A \cup {} = A
    OBVIOUS
  <2>2. Total(f, A \cup {}) = Total(f, A) + Total(f, {})
    BY <1>0, <2>1, TotalOfNone
  <2>3. QED BY <2>2
<1>2. ASSUME NEW s \in SUBSET B, NEW x \in B \ s, s \in P
      PROVE  s \cup {x} \in P
  <2>1. IsFiniteSet(s) /\ IsFiniteSet(A \cup s)
    BY FS_Subset, FS_Union
  <2>2. f[x] \in Int /\ x \notin s /\ x \notin A \cup s
    BY <1>2
  <2>3. \A y \in A \cup s : f[y] \in Int
    OBVIOUS
  <2>4. /\ Total(f, s \cup {x}) = Total(f, s) + f[x]
        /\ Total(f, (A \cup s) \cup {x}) = Total(f, A \cup s) + f[x]
    BY <2>1, <2>2, <2>3, TotalWith
  <2>5. (A \cup s) \cup {x} = A \cup (s \cup {x})
    OBVIOUS
  <2>6. Total(f, s) \in Int
    BY <2>1, <2>3, TotalIsInt
  <2>7. Total(f, A \cup s) = Total(f, A) + Total(f, s)
    BY <1>2
  <2>8. Total(f, (A \cup s) \cup {x}) = Total(f, A) + Total(f, s \cup {x})
    BY ONLY <1>0, <2>2, <2>4, <2>6, <2>7
  <2>9. QED BY <2>5, <2>8
<1>3. B \in P
  <2> HIDE DEF P
  <2>1. QED BY <1>1, <1>2, BySubsets
<1>4. QED BY <1>3

\* Numbering the members anew changes no sum.
LEMMA TotalRenamed ==
    ASSUME NEW S, IsFiniteSet(S), NEW F, NEW f, NEW g,
           \A x, y \in S : F[x] = F[y] => x = y,
           \A x \in S : g[x] \in Int /\ f[F[x]] = g[x]
    PROVE  /\ IsFiniteSet({F[x] : x \in S})
           /\ Total(f, {F[x] : x \in S}) = Total(g, S)
<1> DEFINE Image(s) == {F[x] : x \in s}
           P == {s \in SUBSET S : IsFiniteSet(Image(s)) /\ Total(f, Image(s)) = Total(g, s)}
<1>1. {} \in P
  <2>1. Image({}) = {}
    OBVIOUS
  <2>2. IsFiniteSet(Image({})) /\ Total(f, Image({})) = Total(g, {})
    BY <2>1, TotalOfNone, FS_EmptySet
  <2>3. QED BY <2>2
<1>2. ASSUME NEW s \in SUBSET S, NEW x \in S \ s, s \in P
      PROVE  s \cup {x} \in P
  <2>1. IsFiniteSet(s) /\ \A y \in s : g[y] \in Int
    BY FS_Subset
  <2>2. g[x] \in Int /\ f[F[x]] = g[x] /\ x \notin s
    BY <1>2
  <2>3. Image(s \cup {x}) = Image(s) \cup {F[x]}
    OBVIOUS
  <2>4. F[x] \notin Image(s)
    BY <2>2
  <2>5. \A v \in Image(s) : f[v] \in Int
    OBVIOUS
  <2>6. IsFiniteSet(Image(s)) /\ Total(f, Image(s)) = Total(g, s)
    BY <1>2
  <2>7. Total(g, s \cup {x}) = Total(g, s) + g[x]
    BY <2>1, <2>2, TotalWith
  <2>8. Total(f, Image(s) \cup {F[x]}) = Total(f, Image(s)) + f[F[x]]
    <3> DEFINE T == Image(s)
               v == F[x]
    <3>1. v \notin T /\ f[v] \in Int /\ (\A y \in T : f[y] \in Int) /\ IsFiniteSet(T)
      BY <2>2, <2>4, <2>5, <2>6
    <3>2. Total(f, T \cup {v}) = Total(f, T) + f[v]
      <4> HIDE DEF T, v
      <4>1. QED BY ONLY <3>1, TotalWith
    <3>3. QED BY <3>2
  <2>9. IsFiniteSet(Image(s) \cup {F[x]})
    <3> HIDE DEF Image
    <3>1. QED BY <2>6, FS_AddElement
  <2>10. IsFiniteSet(Image(s \cup {x})) /\ Total(f, Image(s \cup {x})) = Total(g, s \cup {x})
    <3> HIDE DEF Image
    <3>1. QED BY <2>2, <2>3, <2>6, <2>7, <2>8, <2>9
  <2>11. s \cup {x} \in SUBSET S
    BY <1>2
  <2>12. QED BY <2>10, <2>11
<1>3. S \in P
  <2> HIDE DEF P
  <2>1. QED BY <1>1, <1>2, BySubsets
<1>4. QED BY <1>3

\* Nothing adds up to nothing.
LEMMA TotalOfZeros ==
    ASSUME NEW S, IsFiniteSet(S), NEW f, \A x \in S : f[x] = 0
    PROVE  Total(f, S) = 0
<1>1. Total(f, S) = -Total(f, S)
  BY TotalOpposite
<1>2. Total(f, S) \in Int
  BY TotalIsInt
<1>3. QED BY <1>1, <1>2

\* A set has as many members as ones add up to over it.
LEMMA TotalOfOnes ==
    ASSUME NEW S, IsFiniteSet(S), NEW f, \A x \in S : f[x] = 1
    PROVE  Total(f, S) = Cardinality(S)
<1> DEFINE P == {s \in SUBSET S : Total(f, s) = Cardinality(s)}
<1>1. {} \in P
  BY TotalOfNone, FS_EmptySet
<1>2. ASSUME NEW s \in SUBSET S, NEW x \in S \ s, s \in P
      PROVE  s \cup {x} \in P
  <2>1. IsFiniteSet(s)
    BY FS_Subset
  <2>2. Cardinality(s \cup {x}) = Cardinality(s) + 1
    BY <2>1, FS_AddElement
  <2>3. Total(f, s \cup {x}) = Total(f, s) + f[x]
    BY <2>1, TotalWith
  <2>4. QED BY <1>2, <2>2, <2>3
<1>3. S \in P
  <2> HIDE DEF P
  <2>1. QED BY <1>1, <1>2, BySubsets
<1>4. QED BY <1>3

\* A sum over a set is the sum of the sums over its groups, F being what it is grouped by.
LEMMA TotalGrouped ==
    ASSUME NEW S, IsFiniteSet(S), NEW F, NEW w, \A x \in S : w[x] \in Int,
           NEW V, IsFiniteSet(V), \A x \in S : F[x] \in V,
           NEW g, \A v \in V : g[v] = Total(w, {x \in S : F[x] = v})
    PROVE  Total(g, V) = Total(w, S)
<1> DEFINE Of(vs) == {x \in S : F[x] \in vs}
           P == {vs \in SUBSET V : Total(g, vs) = Total(w, Of(vs))}
<1>1. {} \in P
  <2>1. Of({}) = {}
    OBVIOUS
  <2>2. QED BY <2>1, TotalOfNone
<1>2. ASSUME NEW vs \in SUBSET V, NEW v \in V \ vs, vs \in P
      PROVE  vs \cup {v} \in P
  <2> DEFINE one == {x \in S : F[x] = v}
  <2>1. Of(vs \cup {v}) = Of(vs) \cup one /\ Of(vs) \cap one = {} /\ Of(vs) \subseteq S /\ one \subseteq S
    OBVIOUS
  <2>2. IsFiniteSet(Of(vs)) /\ IsFiniteSet(one) /\ IsFiniteSet(vs)
    BY <2>1, FS_Subset
  <2>3. \A u \in V : g[u] \in Int
    <3>1. ASSUME NEW u \in V
          PROVE  g[u] \in Int
      <4>1. IsFiniteSet({x \in S : F[x] = u})
        BY FS_Subset
      <4>2. Total(w, {x \in S : F[x] = u}) \in Int
        BY <4>1, TotalIsInt
      <4>3. QED BY <4>2
    <3>2. QED BY <3>1
  <2>4. Total(g, vs \cup {v}) = Total(g, vs) + g[v]
    <3>1. v \notin vs /\ g[v] \in Int /\ \A u \in vs : g[u] \in Int
      BY <2>3
    <3>2. QED BY ONLY <2>2, <3>1, TotalWith
  <2>5. \A x \in Of(vs) \cup one : w[x] \in Int
    BY <2>1
  <2>6. Total(w, Of(vs) \cup one) = Total(w, Of(vs)) + Total(w, one)
    <3> HIDE DEF Of, one
    <3>1. QED BY <2>1, <2>2, <2>5, TotalJoined
  <2>7. g[v] = Total(w, one) /\ Total(g, vs) = Total(w, Of(vs))
    BY <1>2
  <2>8. QED
    <3> HIDE DEF Of, one
    <3>1. QED BY <2>1, <2>4, <2>6, <2>7
<1>3. V \in P
  <2> HIDE DEF P
  <2>1. QED BY <1>1, <1>2, BySubsets
<1>4. Of(V) = S
  OBVIOUS
<1>5. QED BY <1>3, <1>4

-----------------------------------------------------------------------------
(***************************************************************************)
(* Sorted enumerations.  An order is given as the set R of the pairs it    *)
(* puts one before the other.                                              *)
(***************************************************************************)
Sorts(e, s, R) ==
    /\ e \in [1 .. Cardinality(s) -> s]
    /\ \A i, j \in 1 .. Cardinality(s) : i < j => <<e[i], e[j]>> \in R
TotalOrder(S, R) ==
    /\ \A x \in S : <<x, x>> \notin R
    /\ \A x, y \in S : x # y => <<x, y>> \in R \/ <<y, x>> \in R
    /\ \A x, y, z \in S : <<x, y>> \in R /\ <<y, z>> \in R => <<x, z>> \in R

\* A sorted set stays sorted when a member is put in its place.
LEMMA SortedWith ==
    ASSUME NEW S, NEW R, TotalOrder(S, R), NEW s \in SUBSET S, IsFiniteSet(s),
           NEW x \in S, x \notin s, NEW e, Sorts(e, s, R)
    PROVE  \E g : Sorts(g, s \cup {x}, R)
<1> DEFINE n == Cardinality(s)
<1>1. n \in Nat /\ Cardinality(s \cup {x}) = n + 1
  BY FS_CardinalityType, FS_AddElement
<1> HIDE DEF n
<1>2. e \in [1 .. n -> s] /\ \A i, j \in 1 .. n : i < j => <<e[i], e[j]>> \in R
  BY DEF Sorts, n
<1> DEFINE above == {i \in 1 .. n + 1 : i = n + 1 \/ <<x, e[i]>> \in R}
<1>3. above \in SUBSET Nat /\ above # {}
  BY <1>1
<1>4. PICK k \in above : \A i \in above : k <= i
  <2> HIDE DEF above
  <2>1. QED BY <1>3, LeastNumber
<1>5. k \in 1 .. n + 1 /\ (k = n + 1 \/ <<x, e[k]>> \in R)
  BY <1>4
<1>6. ASSUME NEW i \in 1 .. n, i < k
      PROVE  <<e[i], x>> \in R
  <2>1. i \in 1 .. n + 1 /\ i \notin above
    BY <1>1, <1>4, <1>5, <1>6
  <2>2. ~(<<x, e[i]>> \in R) /\ e[i] \in S /\ e[i] # x
    BY <1>2, <2>1
  <2>3. QED BY <2>2 DEF TotalOrder
<1>7. ASSUME NEW i \in 1 .. n, k <= i
      PROVE  <<x, e[i]>> \in R
  <2>1. k \in 1 .. n /\ <<x, e[k]>> \in R
    BY <1>1, <1>5, <1>7
  <2>2. CASE i = k
    BY <2>1, <2>2
  <2>3. CASE i # k
    <3>1. <<e[k], e[i]>> \in R
      BY <1>1, <1>2, <1>7, <2>1, <2>3
    <3>2. e[k] \in S /\ e[i] \in S
      BY <1>2, <2>1
    <3>3. QED BY <2>1, <3>1, <3>2 DEF TotalOrder
  <2>4. QED BY <2>2, <2>3
<1> DEFINE g == [i \in 1 .. n + 1 |-> IF i < k THEN e[i] ELSE IF i = k THEN x ELSE e[i - 1]]
<1>8. ASSUME NEW i \in 1 .. n + 1
      PROVE  /\ i < k => i \in 1 .. n /\ g[i] = e[i]
             /\ i = k => g[i] = x
             /\ i > k => i - 1 \in 1 .. n /\ k <= i - 1 /\ g[i] = e[i - 1]
  BY <1>1, <1>5
<1>9. g \in [1 .. n + 1 -> s \cup {x}]
  <2>1. \A i \in 1 .. n + 1 : g[i] \in s \cup {x}
    <3> HIDE DEF g
    <3>1. QED BY <1>1, <1>2, <1>5, <1>8
  <2>2. QED BY <2>1
<1>10. ASSUME NEW i \in 1 .. n + 1, NEW j \in 1 .. n + 1, i < j
       PROVE  <<g[i], g[j]>> \in R
  <2> HIDE DEF g
  <2>1. CASE j < k
    BY <1>1, <1>2, <1>5, <1>8, <1>10, <2>1
  <2>2. CASE j = k
    BY <1>1, <1>5, <1>6, <1>8, <1>10, <2>2
  <2>3. CASE j > k
    <3>1. j - 1 \in 1 .. n /\ k <= j - 1 /\ g[j] = e[j - 1]
      BY <1>8, <2>3
    <3>2. CASE i < k
      <4>1. i \in 1 .. n /\ g[i] = e[i] /\ i < j - 1
        BY <1>1, <1>5, <1>8, <3>1, <3>2
      <4>2. QED BY <1>2, <3>1, <4>1
    <3>3. CASE i = k
      BY <1>7, <1>8, <3>1, <3>3
    <3>4. CASE i > k
      <4>1. i - 1 \in 1 .. n /\ g[i] = e[i - 1] /\ i - 1 < j - 1
        BY <1>1, <1>8, <1>10, <3>4
      <4>2. QED BY <1>2, <3>1, <4>1
    <3>5. QED BY <1>1, <1>5, <3>2, <3>3, <3>4
  <2>4. QED BY <1>1, <1>5, <2>1, <2>2, <2>3
<1>11. Sorts(g, s \cup {x}, R)
  <2> HIDE DEF g
  <2>1. QED BY <1>1, <1>9, <1>10 DEF Sorts
<1>12. QED BY <1>11

\* A finite set has a sorted enumeration.
LEMMA SortedExists ==
    ASSUME NEW S, IsFiniteSet(S), NEW R, TotalOrder(S, R)
    PROVE  \E e : Sorts(e, S, R)
<1> DEFINE P == {s \in SUBSET S : \E e : Sorts(e, s, R)}
<1>1. {} \in P
  <2> DEFINE e == [i \in {} |-> i]
  <2>1. Cardinality({}) = 0 /\ 1 .. 0 = {}
    BY FS_EmptySet
  <2>2. e \in [1 .. Cardinality({}) -> {}]
    BY <2>1
  <2>3. \A i, j \in 1 .. Cardinality({}) : FALSE
    BY <2>1
  <2>4. Sorts(e, {}, R)
    BY <2>2, <2>3 DEF Sorts
  <2>5. QED BY <2>4
<1>2. ASSUME NEW s \in SUBSET S, NEW x \in S \ s, s \in P
      PROVE  s \cup {x} \in P
  <2>1. PICK e : Sorts(e, s, R)
    BY <1>2
  <2>2. IsFiniteSet(s)
    BY FS_Subset
  <2>3. \E g : Sorts(g, s \cup {x}, R)
    BY <2>1, <2>2, SortedWith
  <2>4. QED BY <1>2, <2>3
<1>3. S \in P
  <2> HIDE DEF P
  <2>1. QED BY <1>1, <1>2, BySubsets
<1>4. QED BY <1>3

\* It has every member of the set, and none twice.
LEMMA SortedCovers ==
    ASSUME NEW S, IsFiniteSet(S), NEW R, TotalOrder(S, R), NEW e, Sorts(e, S, R)
    PROVE  /\ \A x \in S : \E i \in 1 .. Cardinality(S) : e[i] = x
           /\ \A i, j \in 1 .. Cardinality(S) : e[i] = e[j] => i = j
<1> DEFINE n == Cardinality(S)
<1>1. n \in Nat
  BY FS_CardinalityType
<1>2. IsFiniteSet(1 .. n) /\ Cardinality(1 .. n) = n
  BY <1>1, FS_Interval
<1>3. \A i, j \in 1 .. n : e[i] = e[j] => i = j
  <2>1. ASSUME NEW i \in 1 .. n, NEW j \in 1 .. n, e[i] = e[j], i < j
        PROVE  FALSE
    <3>1. <<e[i], e[j]>> \in R /\ e[i] \in S
      BY <2>1 DEF Sorts
    <3>2. QED BY <2>1, <3>1 DEF TotalOrder
  <2>2. QED BY <1>1, <2>1
<1>4. e \in Injection(1 .. n, S)
  BY <1>3 DEF Sorts, Injection, IsInjective
<1>5. e \in Surjection(1 .. n, S)
  <2> HIDE DEF n
  <2>1. QED BY <1>2, <1>4, FS_Injection DEF n
<1>6. QED BY <1>3, <1>5 DEF Surjection
=============================================================================

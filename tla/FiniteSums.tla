---------------------------- MODULE FiniteSums -----------------------------
(***************************************************************************)
(* Facts about finite sets that the proofs about budgets and about         *)
(* documents share: sums over them and their independence of the order of  *)
(* summation, the order of their members by a key, and sequences flattened *)
(* into one.  Folds of the community modules are functions defined by      *)
(* recursion; AreSums and IsFlat are what they recur over.                 *)
(***************************************************************************)
EXTENDS FiniteSetTheorems, SequenceTheorems, WellFoundedInduction, TLAPS

-----------------------------------------------------------------------------
(* Finite sets *)

\* Of some subsets of a finite set one is minimal: what fails for a subset fails
\* for one of which it holds for all that are smaller.
LEMMA SmallestSubset ==
    ASSUME NEW S, IsFiniteSet(S), NEW T, T \subseteq SUBSET S, T # {}
    PROVE  \E x \in T : \A y \in T : y \subseteq x => y = x
  <1>1. IsWellFoundedOn(StrictSubsetOrdering(S), SUBSET S)
    BY FS_StrictSubsetOrderingWellFounded, FS_FiniteSubsetsOfFinite
  <1>2. PICK x \in T : \A y \in T : <<y, x>> \notin StrictSubsetOrdering(S)
    BY <1>1, WFMin
  <1> QED
    BY <1>2 DEF StrictSubsetOrdering

\* Some element of a finite set has the smallest value.
LEMMA Smallest ==
    ASSUME NEW S, IsFiniteSet(S), NEW f \in [S -> Int], S # {}
    PROVE  \E x \in S : \A y \in S : f[x] <= f[y]
  <1> DEFINE HasLeast(s) == \E x \in s : \A y \in s : f[x] <= f[y]
             T == {s \in SUBSET S : s # {} /\ ~ HasLeast(s)}
  <1> SUFFICES ASSUME T # {}
               PROVE  FALSE
    OBVIOUS
  <1>1. PICK s \in T : \A t \in T : t \subseteq s => t = s
    <2>1. T \subseteq SUBSET S
      OBVIOUS
    <2> HIDE DEF T
    <2> QED
      BY <2>1, SmallestSubset
  <1>2. PICK x \in s : TRUE
    OBVIOUS
  <1>3. CASE s = {x}
    BY <1>3, <1>1
  <1>4. CASE s # {x}
    <2>1. s \ {x} \notin T /\ s \ {x} # {} /\ s \ {x} \subseteq S
      BY <1>1, <1>2, <1>4
    <2>2. PICK m \in s \ {x} : \A y \in s \ {x} : f[m] <= f[y]
      BY <2>1
    <2>3. CASE f[m] <= f[x]
      BY <2>2, <2>3, <1>1
    <2>4. CASE f[x] <= f[m]
      BY <2>2, <2>4, <1>1, <1>2
    <2> QED
      BY <2>3, <2>4, <1>1, <1>2, <2>2
  <1> QED
    BY <1>3, <1>4

-----------------------------------------------------------------------------
(* Sums *)

\* What MapThenSumSet recurs over: the sums over the subsets of S.
One(s) == CHOOSE x \in s : TRUE

AreSums(g, f, S) ==
    g = [s \in SUBSET S |-> IF s = {} THEN 0 ELSE f[One(s)] + g[s \ {One(s)}]]

LEMMA OneOf == \A s : s # {} => One(s) \in s
  BY DEF One

\* One step of the recursion.
LEMMA SumsAt ==
    ASSUME NEW S, NEW f, NEW g, AreSums(g, f, S), NEW s \in SUBSET S
    PROVE  /\ s = {} => g[s] = 0
           /\ s # {} => One(s) \in s /\ s \ {One(s)} \in SUBSET S
                          /\ g[s] = f[One(s)] + g[s \ {One(s)}]
  BY OneOf DEF AreSums

\* There is one value for each set.
LEMMA SumsAgree ==
    ASSUME NEW S, IsFiniteSet(S), NEW f, NEW g, AreSums(g, f, S),
           NEW T \in SUBSET S, NEW h, AreSums(h, f, T)
    PROVE  \A s \in SUBSET T : g[s] = h[s]
  <1> DEFINE bad == {s \in SUBSET T : g[s] # h[s]}
  <1> SUFFICES ASSUME bad # {}
               PROVE  FALSE
    OBVIOUS
  <1>1. PICK s \in bad : \A t \in bad : t \subseteq s => t = s
    <2>1. bad \subseteq SUBSET S
      OBVIOUS
    <2> HIDE DEF bad
    <2> QED
      BY <2>1, SmallestSubset
  <1>2. s \in SUBSET S /\ s \in SUBSET T /\ g[s] # h[s]
    BY <1>1
  <1>3. CASE s = {}
    BY <1>2, <1>3 DEF AreSums
  <1>4. CASE s # {}
    <2>1. /\ One(s) \in s
          /\ g[s] = f[One(s)] + g[s \ {One(s)}]
          /\ h[s] = f[One(s)] + h[s \ {One(s)}]
      BY <1>2, <1>4, SumsAt
    <2>2. s \ {One(s)} \in SUBSET T /\ s \ {One(s)} \subseteq s /\ s \ {One(s)} # s
      BY <1>2, <2>1
    <2>3. g[s \ {One(s)}] = h[s \ {One(s)}]
      BY <1>1, <2>2
    <2> QED
      BY <1>2, <2>1, <2>3
  <1> QED
    BY <1>3, <1>4

LEMMA SumsExist ==
    ASSUME NEW S, IsFiniteSet(S), NEW f
    PROVE  \E g : AreSums(g, f, S)
  <1> DEFINE Has(r) == \E g : AreSums(g, f, r)
             without == {r \in SUBSET S : ~ Has(r)}
  <1> SUFFICES ASSUME without # {}
               PROVE  FALSE
    OBVIOUS
  <1>1. PICK r \in without : \A t \in without : t \subseteq r => t = r
    <2>1. without \subseteq SUBSET S
      OBVIOUS
    <2> HIDE DEF without
    <2> QED
      BY <2>1, SmallestSubset
  <1>2. r \in SUBSET S /\ ~ Has(r) /\ \A s \in SUBSET r : s # r => Has(s)
    BY <1>1
  <1> DEFINE sums(s) == CHOOSE g : AreSums(g, f, s)
             rest(s) == s \ {One(s)}
             value(s) == IF s = {} THEN 0 ELSE f[One(s)] + sums(rest(s))[rest(s)]
             g == [s \in SUBSET r |-> value(s)]
  <1>3. \A s \in SUBSET r : s # r => AreSums(sums(s), f, s)
    BY <1>2
  <1> HIDE DEF sums, Has
  <1>4. ASSUME NEW s \in SUBSET r, s # {}
        PROVE  /\ rest(s) \in SUBSET r /\ rest(s) # r
               /\ sums(rest(s))[rest(s)] = value(rest(s))
    <2>1. rest(s) \in SUBSET r /\ rest(s) # r
      BY <1>4, OneOf
    <2> HIDE DEF rest
    <2>2. AreSums(sums(rest(s)), f, rest(s))
      BY <1>3, <2>1
    <2>3. CASE rest(s) = {}
      BY <2>1, <2>2, <2>3 DEF AreSums
    <2>4. CASE rest(s) # {}
      <3> DEFINE t == rest(s)
                 u == t \ {One(t)}
      <3>1. sums(t)[t] = f[One(t)] + sums(t)[u] /\ u \in SUBSET t /\ One(t) \in t
        BY <2>2, <2>4, SumsAt
      <3> HIDE DEF t
      <3>2. u \in SUBSET r /\ u # r
        BY <2>1, <3>1 DEF t
      <3>3. AreSums(sums(u), f, u)
        BY <1>3, <3>2
      <3>4. IsFiniteSet(t)
        BY <1>2, <2>1, FS_Subset DEF t
      <3>5. sums(t)[u] = sums(u)[u]
        BY <2>2, <3>1, <3>3, <3>4, SumsAgree DEF t
      <3> QED
        BY <2>1, <2>4, <3>1, <3>5 DEF t, rest
    <2> QED
      BY <2>1, <2>3, <2>4
  <1>5. AreSums(g, f, r)
    <2>1. \A s \in SUBSET r : s # {} => sums(rest(s))[rest(s)] = g[rest(s)]
      BY <1>4
    <2> QED
      BY <2>1 DEF AreSums
  <1> QED
    BY <1>2, <1>5 DEF Has

\* A sum of naturals is natural.
LEMMA SumsAreNatural ==
    ASSUME NEW S, IsFiniteSet(S), NEW f, \A x \in S : f[x] \in Nat, NEW g, AreSums(g, f, S)
    PROVE  g[S] \in Nat
  <1> DEFINE bad == {s \in SUBSET S : g[s] \notin Nat}
  <1> SUFFICES ASSUME bad # {}
               PROVE  FALSE
    OBVIOUS
  <1>1. PICK s \in bad : \A t \in bad : t \subseteq s => t = s
    <2>1. bad \subseteq SUBSET S
      OBVIOUS
    <2> HIDE DEF bad
    <2> QED
      BY <2>1, SmallestSubset
  <1>2. s \in SUBSET S /\ g[s] \notin Nat
    BY <1>1
  <1>3. CASE s = {}
    BY <1>2, <1>3, SumsAt
  <1>4. CASE s # {}
    <2>1. One(s) \in s /\ g[s] = f[One(s)] + g[s \ {One(s)}]
      BY <1>2, <1>4, SumsAt
    <2>2. s \ {One(s)} \in SUBSET S /\ s \ {One(s)} \subseteq s /\ s \ {One(s)} # s
      BY <1>2, <2>1
    <2>3. g[s \ {One(s)}] \in Nat
      BY <1>1, <2>2
    <2> QED
      BY <1>2, <2>1, <2>3
  <1> QED
    BY <1>3, <1>4

-----------------------------------------------------------------------------
(* More about sums *)

\* What holds of a set if it does of all that have an element less, holds of
\* each finite one.
LEMMA Inductively ==
    ASSUME NEW S, IsFiniteSet(S), NEW T, {} \in T,
           \A s \in SUBSET S : s # {} /\ (\A x \in s : s \ {x} \in T) => s \in T
    PROVE  S \in T
  <1> DEFINE bad == {s \in SUBSET S : s \notin T}
  <1> SUFFICES ASSUME bad # {}
               PROVE  FALSE
    OBVIOUS
  <1>1. PICK s \in bad : \A t \in bad : t \subseteq s => t = s
    <2>1. bad \subseteq SUBSET S
      OBVIOUS
    <2> HIDE DEF bad
    <2> QED
      BY <2>1, SmallestSubset
  <1>2. \A x \in s : s \ {x} \in T
    BY <1>1
  <1> QED
    BY <1>1, <1>2

Sum(f, S) == (CHOOSE g : AreSums(g, f, S))[S]

LEMMA SumIs ==
    ASSUME NEW S, IsFiniteSet(S), NEW f, NEW g, AreSums(g, f, S)
    PROVE  g[S] = Sum(f, S)
  <1> DEFINE h == CHOOSE k : AreSums(k, f, S)
  <1>1. AreSums(h, f, S)
    BY SumsExist
  <1> HIDE DEF h
  <1>2. g[S] = h[S]
    BY <1>1, SumsAgree
  <1> QED
    BY <1>2 DEF Sum, h

LEMMA SumOfNone == ASSUME NEW f PROVE Sum(f, {}) = 0
  <1>1. IsFiniteSet({})
    BY FS_EmptySet
  <1>2. PICK g : AreSums(g, f, {})
    BY <1>1, SumsExist
  <1>3. g[{}] = 0
    BY <1>2, SumsAt
  <1> QED
    BY <1>1, <1>2, <1>3, SumIs

LEMMA SumOfOne ==
    ASSUME NEW S, IsFiniteSet(S), S # {}, NEW f
    PROVE  One(S) \in S /\ Sum(f, S) = f[One(S)] + Sum(f, S \ {One(S)})
  <1> DEFINE rest == S \ {One(S)}
  <1>1. IsFiniteSet(rest) /\ rest \in SUBSET S
    BY FS_Subset
  <1> HIDE DEF rest
  <1>2. PICK g : AreSums(g, f, S)
    BY SumsExist
  <1>3. PICK h : AreSums(h, f, rest)
    BY <1>1, SumsExist
  <1>4. g[rest] = h[rest]
    BY <1>1, <1>2, <1>3, SumsAgree
  <1>5. g[S] = Sum(f, S) /\ h[rest] = Sum(f, rest)
    BY <1>1, <1>2, <1>3, SumIs
  <1>6. One(S) \in S /\ g[S] = f[One(S)] + g[S \ {One(S)}]
    BY <1>2, OneOf DEF AreSums
  <1> QED
    BY <1>4, <1>5, <1>6 DEF rest

LEMMA SumSame ==
    ASSUME NEW S, IsFiniteSet(S), NEW f, NEW g, \A x \in S : f[x] = g[x]
    PROVE  Sum(f, S) = Sum(g, S)
  <1>1. PICK h : AreSums(h, f, S)
    BY SumsExist
  <1>2. AreSums(h, g, S)
    <2>1. \A s \in SUBSET S : s # {} => f[One(s)] = g[One(s)]
      BY OneOf
    <2> QED
      BY <1>1, <2>1 DEF AreSums
  <1> QED
    BY <1>1, <1>2, SumIs

Integral(f, S) == \A x \in S : f[x] \in Int

LEMMA SumIsInt ==
    ASSUME NEW S, IsFiniteSet(S), NEW f, Integral(f, S)
    PROVE  Sum(f, S) \in Int
  <1> DEFINE T == {s \in SUBSET S : Sum(f, s) \in Int}
  <1>1. {} \in T
    BY SumOfNone
  <1>2. ASSUME NEW s \in SUBSET S, s # {}, \A x \in s : s \ {x} \in T PROVE s \in T
    <2>1. IsFiniteSet(s)
      BY FS_Subset
    <2>2. One(s) \in s /\ Sum(f, s) = f[One(s)] + Sum(f, s \ {One(s)})
      BY <1>2, <2>1, SumOfOne
    <2> QED
      BY <1>2, <2>2 DEF Integral
  <1> HIDE DEF T
  <1>3. S \in T
    BY <1>1, <1>2, Inductively
  <1> QED
    BY <1>3 DEF T

\* It makes no difference with which element a sum begins.
LEMMA SumRemoves ==
    ASSUME NEW S, IsFiniteSet(S), NEW f, Integral(f, S), NEW x \in S
    PROVE  Sum(f, S) = f[x] + Sum(f, S \ {x})
  <1> DEFINE Holds(s) == \A y \in s : Sum(f, s) = f[y] + Sum(f, s \ {y})
             T == {s \in SUBSET S : Holds(s)}
  <1>1. {} \in T
    OBVIOUS
  <1>2. ASSUME NEW s \in SUBSET S, s # {}, \A y \in s : s \ {y} \in T PROVE s \in T
    <2> DEFINE o == One(s)
    <2>1. IsFiniteSet(s)
      BY FS_Subset
    <2>2. o \in s /\ Sum(f, s) = f[o] + Sum(f, s \ {o})
      BY <1>2, <2>1, SumOfOne
    <2>3. \A y \in s : Holds(s \ {y})
      BY <1>2
    <2>4. ASSUME NEW y \in s PROVE Sum(f, s) = f[y] + Sum(f, s \ {y})
      <3>1. CASE y = o
        BY <2>2, <3>1
      <3>2. CASE y # o
        <4> HIDE DEF o
        <4>1. y \in s \ {o} /\ o \in s \ {y}
          BY <2>2, <3>2
        <4>2. /\ Sum(f, s \ {o}) = f[y] + Sum(f, (s \ {o}) \ {y})
              /\ Sum(f, s \ {y}) = f[o] + Sum(f, (s \ {y}) \ {o})
          BY <2>2, <2>3, <4>1
        <4>3. (s \ {o}) \ {y} = (s \ {y}) \ {o}
          OBVIOUS
        <4> DEFINE u == (s \ {o}) \ {y}
        <4>4. IsFiniteSet(u) /\ Integral(f, u)
          BY <2>1, FS_Subset DEF Integral
        <4> HIDE DEF u
        <4>5. Sum(f, u) \in Int /\ f[o] \in Int /\ f[y] \in Int
          BY <2>2, <4>4, SumIsInt DEF Integral
        <4>6. Sum(f, s) = f[o] + (f[y] + Sum(f, u)) /\ Sum(f, s \ {y}) = f[o] + Sum(f, u)
          BY <2>2, <4>2, <4>3 DEF u
        <4> QED
          BY <4>5, <4>6
      <3> QED
        BY <3>1, <3>2
    <2> QED
      BY <2>4
  <1> HIDE DEF T
  <1>3. S \in T
    BY <1>1, <1>2, Inductively
  <1> QED
    BY <1>3 DEF T

LEMMA SumOfSingle == ASSUME NEW x, NEW f, f[x] \in Int PROVE Sum(f, {x}) = f[x]
  <1>1. IsFiniteSet({x}) /\ Integral(f, {x}) /\ {x} \ {x} = {}
    BY FS_Singleton DEF Integral
  <1>2. Sum(f, {x}) = f[x] + Sum(f, {})
    BY <1>1, SumRemoves
  <1> QED
    BY <1>2, SumOfNone

LEMMA SumOfSums ==
    ASSUME NEW S, IsFiniteSet(S), NEW f, NEW g, NEW h, Integral(f, S), Integral(g, S),
           \A x \in S : h[x] = f[x] + g[x]
    PROVE  Sum(h, S) = Sum(f, S) + Sum(g, S)
  <1> DEFINE T == {s \in SUBSET S : Sum(h, s) = Sum(f, s) + Sum(g, s)}
  <1>1. {} \in T
    BY SumOfNone
  <1>2. ASSUME NEW s \in SUBSET S, s # {}, \A x \in s : s \ {x} \in T PROVE s \in T
    <2> DEFINE o == One(s)
               r == s \ {o}
    <2>1. IsFiniteSet(s)
      BY FS_Subset
    <2>2. /\ o \in s /\ Sum(h, s) = h[o] + Sum(h, r)
          /\ Sum(f, s) = f[o] + Sum(f, r) /\ Sum(g, s) = g[o] + Sum(g, r)
      BY <1>2, <2>1, SumOfOne
    <2>3. Sum(h, r) = Sum(f, r) + Sum(g, r)
      BY <1>2, <2>2
    <2>4. IsFiniteSet(r) /\ Integral(f, r) /\ Integral(g, r)
      BY <2>1, FS_Subset DEF Integral
    <2> HIDE DEF r
    <2>5. Sum(f, r) \in Int /\ Sum(g, r) \in Int
      BY <2>4, SumIsInt
    <2>6. f[o] \in Int /\ g[o] \in Int /\ h[o] = f[o] + g[o]
      BY <2>2 DEF Integral
    <2> HIDE DEF o
    <2>7. Sum(h, s) = Sum(f, s) + Sum(g, s)
      BY <2>2, <2>3, <2>5, <2>6
    <2> QED
      BY <2>7
  <1> HIDE DEF T
  <1>3. S \in T
    BY <1>1, <1>2, Inductively
  <1> QED
    BY <1>3 DEF T

\* A sum over a set that falls into two.
LEMMA SumOfUnion ==
    ASSUME NEW A, IsFiniteSet(A), NEW B, IsFiniteSet(B), A \cap B = {},
           NEW f, Integral(f, A \cup B)
    PROVE  Sum(f, A \cup B) = Sum(f, A) + Sum(f, B)
  <1> DEFINE T == {s \in SUBSET B : Sum(f, A \cup s) = Sum(f, A) + Sum(f, s)}
  <1>1. {} \in T
    <2>1. Integral(f, A) /\ A \cup {} = A
      BY DEF Integral
    <2>2. Sum(f, A) \in Int
      BY <2>1, SumIsInt
    <2> QED
      BY <2>1, <2>2, SumOfNone
  <1>2. ASSUME NEW s \in SUBSET B, s # {}, \A x \in s : s \ {x} \in T PROVE s \in T
    <2>1. PICK x \in s : TRUE
      BY <1>2
    <2> DEFINE r == s \ {x}
    <2>2. /\ IsFiniteSet(s) /\ IsFiniteSet(r) /\ IsFiniteSet(A \cup s)
          /\ Integral(f, s) /\ Integral(f, r) /\ Integral(f, A \cup s) /\ Integral(f, A)
      BY FS_Subset, FS_Union DEF Integral
    <2>3. (A \cup s) \ {x} = A \cup r /\ x \in A \cup s
      BY <2>1
    <2>4. Sum(f, A \cup s) = f[x] + Sum(f, A \cup r) /\ Sum(f, s) = f[x] + Sum(f, r)
      <3>1. Sum(f, A \cup s) = f[x] + Sum(f, (A \cup s) \ {x})
        BY <2>2, <2>3, SumRemoves
      <3>2. Sum(f, s) = f[x] + Sum(f, r)
        BY <2>1, <2>2, SumRemoves
      <3> QED
        BY <2>3, <3>1, <3>2
    <2>5. Sum(f, A \cup r) = Sum(f, A) + Sum(f, r)
      BY <1>2, <2>1
    <2> HIDE DEF r
    <2>6. Sum(f, A) \in Int /\ Sum(f, r) \in Int
      BY <2>2, SumIsInt
    <2>7. f[x] \in Int
      BY <2>1, <2>2 DEF Integral
    <2>8. Sum(f, A \cup s) = Sum(f, A) + Sum(f, s)
      BY <2>4, <2>5, <2>6, <2>7
    <2> QED
      BY <2>8
  <1> HIDE DEF T
  <1>3. B \in T
    BY <1>1, <1>2, Inductively
  <1> QED
    BY <1>3 DEF T

LEMMA ImageIsFinite ==
    ASSUME NEW S, IsFiniteSet(S), NEW p
    PROVE  IsFiniteSet({p[x] : x \in S})
  <1> DEFINE T == {p[x] : x \in S}
             q == [x \in S |-> p[x]]
  <1>1. q \in Surjection(S, T)
    BY DEF Surjection
  <1> HIDE DEF T, q
  <1>2. IsFiniteSet(T)
    BY <1>1, FS_Surjection
  <1> QED
    BY <1>2 DEF T

\* The sum is the same if the elements go by other names.
LEMMA SumRenamed ==
    ASSUME NEW S, IsFiniteSet(S), NEW p, \A x, y \in S : p[x] = p[y] => x = y,
           NEW f, NEW g, \A x \in S : g[x] = f[p[x]] /\ g[x] \in Int
    PROVE  Sum(g, S) = Sum(f, {p[x] : x \in S})
  <1> DEFINE image(s) == {p[x] : x \in s}
             T == {s \in SUBSET S : Sum(g, s) = Sum(f, image(s))}
  <1>1. {} \in T
    <2>1. image({}) = {}
      OBVIOUS
    <2> QED
      BY <2>1, SumOfNone
  <1>2. ASSUME NEW s \in SUBSET S, s # {}, \A x \in s : s \ {x} \in T PROVE s \in T
    <2>1. PICK x \in s : TRUE
      BY <1>2
    <2>2. IsFiniteSet(s) /\ Integral(g, s)
      BY FS_Subset DEF Integral
    <2>3. IsFiniteSet(image(s))
      BY <2>2, ImageIsFinite
    <2>4. Integral(f, image(s)) /\ p[x] \in image(s)
      BY <2>1 DEF Integral
    <2>5. image(s) \ {p[x]} = image(s \ {x})
      BY <2>1
    <2>6. Sum(g, s \ {x}) = Sum(f, image(s \ {x}))
      BY <1>2, <2>1
    <2> HIDE DEF image
    <2>7. Sum(g, s) = g[x] + Sum(g, s \ {x})
      BY <2>1, <2>2, SumRemoves
    <2>8. Sum(f, image(s)) = f[p[x]] + Sum(f, image(s) \ {p[x]})
      BY <2>3, <2>4, SumRemoves
    <2>9. Sum(g, s) = Sum(f, image(s))
      BY <2>1, <2>5, <2>6, <2>7, <2>8
    <2> QED
      BY <2>9
  <1> HIDE DEF T
  <1>3. S \in T
    BY <1>1, <1>2, Inductively
  <1> QED
    BY <1>3 DEF T

Group(S, group, d) == {x \in S : group[x] = d}

\* A sum over groups of the sums over each.
LEMMA SumOfGroups ==
    ASSUME NEW S, IsFiniteSet(S), NEW f, Integral(f, S), NEW G, IsFiniteSet(G),
           NEW group, \A x \in S : group[x] \in G,
           NEW h, \A d \in G : h[d] = Sum(f, Group(S, group, d))
    PROVE  Sum(h, G) = Sum(f, S)
  <1> DEFINE in(s) == {x \in S : group[x] \in s}
             T == {s \in SUBSET G : Sum(h, s) = Sum(f, in(s))}
  <1>1. {} \in T
    <2>1. in({}) = {}
      OBVIOUS
    <2> QED
      BY <2>1, SumOfNone
  <1>2. ASSUME NEW s \in SUBSET G, s # {}, \A d \in s : s \ {d} \in T PROVE s \in T
    <2> DEFINE d == One(s)
               r == s \ {d}
               of == {x \in S : group[x] = d}
    <2>1. IsFiniteSet(s)
      BY FS_Subset
    <2>2. d \in s /\ Sum(h, s) = h[d] + Sum(h, r)
      BY <1>2, <2>1, SumOfOne
    <2>3. h[d] = Sum(f, of) /\ Sum(h, r) = Sum(f, in(r))
      BY <1>2, <2>2 DEF Group
    <2>4. in(s) = of \cup in(r) /\ of \cap in(r) = {}
      BY <2>2
    <2>5. IsFiniteSet(of) /\ IsFiniteSet(in(r)) /\ Integral(f, of \cup in(r))
      BY FS_Subset DEF Integral
    <2> HIDE DEF d, of, in, r
    <2>6. Sum(f, of \cup in(r)) = Sum(f, of) + Sum(f, in(r))
      BY <2>4, <2>5, SumOfUnion
    <2>7. Sum(h, s) = Sum(f, in(s))
      BY <2>2, <2>3, <2>4, <2>6
    <2> QED
      BY <2>7
  <1> HIDE DEF T
  <1>3. G \in T
    BY <1>1, <1>2, Inductively
  <1>4. in(G) = S
    OBVIOUS
  <1> QED
    BY <1>3, <1>4 DEF T

LEMMA SumOfZeros ==
    ASSUME NEW S, IsFiniteSet(S), NEW f, \A x \in S : f[x] = 0
    PROVE  Sum(f, S) = 0
  <1> DEFINE T == {s \in SUBSET S : Sum(f, s) = 0}
  <1>1. {} \in T
    BY SumOfNone
  <1>2. ASSUME NEW s \in SUBSET S, s # {}, \A x \in s : s \ {x} \in T PROVE s \in T
    <2>1. IsFiniteSet(s)
      BY FS_Subset
    <2>2. One(s) \in s /\ Sum(f, s) = f[One(s)] + Sum(f, s \ {One(s)})
      BY <1>2, <2>1, SumOfOne
    <2> QED
      BY <1>2, <2>2
  <1> HIDE DEF T
  <1>3. S \in T
    BY <1>1, <1>2, Inductively
  <1> QED
    BY <1>3 DEF T

\* What adds nothing may be left out.
LEMMA SumWithoutZeros ==
    ASSUME NEW S, IsFiniteSet(S), NEW s \in SUBSET S, NEW f, Integral(f, S),
           \A x \in S \ s : f[x] = 0
    PROVE  Sum(f, S) = Sum(f, s)
  <1> DEFINE r == S \ s
  <1>1. IsFiniteSet(s) /\ IsFiniteSet(r) /\ s \cap r = {} /\ s \cup r = S
    BY FS_Subset
  <1>2. \A x \in r : f[x] = 0
    OBVIOUS
  <1> HIDE DEF r
  <1>3. Sum(f, S) = Sum(f, s) + Sum(f, r) /\ Sum(f, r) = 0
    BY <1>1, <1>2, SumOfUnion, SumOfZeros
  <1>4. Sum(f, s) \in Int
    BY <1>1, SumIsInt DEF Integral
  <1> QED
    BY <1>3, <1>4

LEMMA SumIsNat ==
    ASSUME NEW S, IsFiniteSet(S), NEW f, \A x \in S : f[x] \in Nat
    PROVE  Sum(f, S) \in Nat
  <1>1. PICK g : AreSums(g, f, S)
    BY SumsExist
  <1> QED
    BY <1>1, SumIs, SumsAreNatural

-----------------------------------------------------------------------------
(* Counting, order and flattening *)

LEMMA Counting ==
    ASSUME NEW n \in Nat, NEW T, 0 \in T, \A k \in 1 .. n : k - 1 \in T => k \in T
    PROVE  \A k \in 0 .. n : k \in T
  <1> DEFINE bad == {k \in 0 .. n : k \notin T}
  <1> SUFFICES ASSUME bad # {}
               PROVE  FALSE
    OBVIOUS
  <1>1. PICK k \in bad : \A j \in bad : k <= j
    <2> DEFINE f == [j \in bad |-> j]
    <2>1. IsFiniteSet(bad)
      <3>1. IsFiniteSet(0 .. n) /\ bad \subseteq 0 .. n
        BY FS_Interval
      <3> HIDE DEF bad
      <3> QED
        BY <3>1, FS_Subset
    <2>2. f \in [bad -> Int]
      OBVIOUS
    <2>3. \E x \in bad : \A y \in bad : f[x] <= f[y]
      <3> HIDE DEF f, bad
      <3> QED
        BY <2>1, <2>2, Smallest
    <2> QED
      BY <2>3
  <1>2. k \in 1 .. n /\ k - 1 \notin bad /\ k - 1 \in 0 .. n
    BY <1>1
  <1> QED
    BY <1>1, <1>2

\* The members of S, from 1 on, by key.
Ordered(s, S, key) ==
    /\ s \in [1 .. Cardinality(S) -> S]
    /\ \A m, n \in 1 .. Cardinality(S) : m # n => s[m] # s[n]
    /\ \A m, n \in 1 .. Cardinality(S) : m < n => key[s[m]] <= key[s[n]]

LEMMA OrderExists ==
    ASSUME NEW S, IsFiniteSet(S), NEW key, Integral(key, S)
    PROVE  \E s : Ordered(s, S, key)
  <1> DEFINE T == {t \in SUBSET S : \E s : Ordered(s, t, key)}
  <1>1. {} \in T
    <2>1. Cardinality({}) = 0
      BY FS_EmptySet
    <2>2. Ordered([m \in 1 .. 0 |-> 0], {}, key)
      BY <2>1 DEF Ordered
    <2> QED
      BY <2>2
  <1>2. ASSUME NEW t \in SUBSET S, t # {}, \A x \in t : t \ {x} \in T PROVE t \in T
    <2>1. IsFiniteSet(t)
      BY FS_Subset
    <2> DEFINE f == [y \in t |-> 0 - key[y]]
    <2>2. f \in [t -> Int]
      BY DEF Integral
    <2>3. PICK x \in t : \A y \in t : f[x] <= f[y]
      <3> HIDE DEF f
      <3> QED
        BY <1>2, <2>1, <2>2, Smallest
    <2>4. \A y \in t : key[y] <= key[x]
      BY <2>3 DEF Integral
    <2> HIDE DEF f
    <2> DEFINE r == t \ {x}
               k == Cardinality(t)
    <2>5. k \in Nat \ {0} /\ Cardinality(r) = k - 1
      BY <2>1, <2>3, FS_RemoveElement, FS_CardinalityType, FS_EmptySet
    <2>6. PICK s : Ordered(s, r, key)
      BY <1>2, <2>3
    <2> DEFINE u == [m \in 1 .. k |-> IF m = k THEN x ELSE s[m]]
    <2>7. /\ \A m \in 1 .. k - 1 : s[m] \in r
          /\ \A m, n \in 1 .. k - 1 : m # n => s[m] # s[n]
          /\ \A m, n \in 1 .. k - 1 : m < n => key[s[m]] <= key[s[n]]
      BY <2>5, <2>6 DEF Ordered
    <2>8. Ordered(u, t, key)
      <3>1. u \in [1 .. k -> t]
        BY <2>3, <2>5, <2>7
      <3>2. ASSUME NEW m \in 1 .. k, NEW n \in 1 .. k, m # n PROVE u[m] # u[n]
        BY <2>3, <2>5, <2>7, <3>2
      <3>3. ASSUME NEW m \in 1 .. k, NEW n \in 1 .. k, m < n PROVE key[u[m]] <= key[u[n]]
        <4>1. m \in 1 .. k - 1 /\ u[m] = s[m]
          BY <2>5, <3>3
        <4>2. CASE n = k
          BY <2>4, <2>7, <4>1, <4>2
        <4>3. CASE n # k
          <5>1. n \in 1 .. k - 1 /\ u[n] = s[n]
            BY <2>5, <4>3
          <5> QED
            BY <2>7, <3>3, <4>1, <5>1
        <4> QED
          BY <4>2, <4>3
      <3> HIDE DEF u, k
      <3> QED
        BY <3>1, <3>2, <3>3 DEF Ordered, k
    <2> QED
      BY <2>8
  <1> HIDE DEF T
  <1>3. S \in T
    BY <1>1, <1>2, Inductively
  <1> QED
    BY <1>3 DEF T

\* Nobody is left out.
LEMMA OrderedAll ==
    ASSUME NEW S, IsFiniteSet(S), NEW key, NEW s, Ordered(s, S, key)
    PROVE  /\ Cardinality(S) \in Nat
           /\ {s[m] : m \in 1 .. Cardinality(S)} = S
  <1> DEFINE k == Cardinality(S)
  <1>1. k \in Nat
    BY FS_CardinalityType
  <1>2. IsFiniteSet(1 .. k) /\ Cardinality(1 .. k) = k
    BY <1>1, FS_Interval
  <1>3. s \in Injection(1 .. k, S)
    BY DEF Ordered, Injection, IsInjective
  <1>4. s \in Surjection(1 .. k, S)
    BY <1>2, <1>3, FS_Injection
  <1> QED
    BY <1>1, <1>4 DEF Surjection

\* The first days, in order.
LEMMA DaysInOrder ==
    ASSUME NEW n \in Nat, NEW key, \A d \in 0 .. n - 1 : key[d] = d,
           NEW s, Ordered(s, 0 .. n - 1, key)
    PROVE  /\ s \in [1 .. n -> 0 .. n - 1]
           /\ \A m \in 1 .. n : s[m] = m - 1
  <1> DEFINE S == 0 .. n - 1
  <1>1. IsFiniteSet(S) /\ Cardinality(S) = n
    BY FS_Interval
  <1>2. /\ s \in [1 .. n -> S] /\ {s[m] : m \in 1 .. n} = S
        /\ \A i, j \in 1 .. n : i # j => s[i] # s[j]
        /\ \A i, j \in 1 .. n : i < j => s[i] <= s[j]
    <2>1. {s[m] : m \in 1 .. n} = S
      <3>1. Ordered(s, S, key)
        OBVIOUS
      <3> HIDE DEF S
      <3>2. {s[m] : m \in 1 .. Cardinality(S)} = S
        BY <1>1, <3>1, OrderedAll
      <3> QED
        BY <1>1, <3>2
    <2>2. /\ s \in [1 .. n -> S]
          /\ \A i, j \in 1 .. n : i # j => s[i] # s[j]
          /\ \A i, j \in 1 .. n : i < j => key[s[i]] <= key[s[j]]
      BY <1>1 DEF Ordered
    <2>3. \A i \in 1 .. n : key[s[i]] = s[i]
      BY <2>2
    <2> HIDE DEF S
    <2> QED
      BY <2>1, <2>2, <2>3
  <1> DEFINE T == {k \in 0 .. n : \A m \in 1 .. k : s[m] = m - 1}
  <1>3. 0 \in T
    OBVIOUS
  <1>4. ASSUME NEW k \in 1 .. n, k - 1 \in T PROVE k \in T
    <2>1. \A m \in 1 .. k - 1 : s[m] = m - 1
      BY <1>4
    <2>2. PICK j \in 1 .. n : s[j] = k - 1
      <3>1. k - 1 \in S
        BY <1>4
      <3> HIDE DEF S
      <3>2. k - 1 \in {s[m] : m \in 1 .. n}
        BY <1>2, <3>1
      <3> QED
        BY <3>2
    <2>3. j >= k
      BY <2>1, <2>2
    <2>4. s[k] <= k - 1
      BY <1>2, <2>2, <2>3
    <2>5. s[k] \in Int /\ s[k] >= 0
      BY <1>2
    <2>6. s[k] >= k - 1
      <3> SUFFICES ASSUME s[k] < k - 1 PROVE FALSE
        BY <2>5
      <3>1. s[k] + 1 \in 1 .. k - 1
        BY <2>5
      <3>2. s[s[k] + 1] = s[k] /\ s[k] + 1 # k
        BY <2>1, <2>5, <3>1
      <3> QED
        BY <1>2, <3>1, <3>2
    <2>7. s[k] = k - 1
      BY <2>4, <2>5, <2>6
    <2> QED
      BY <2>1, <2>7
  <1>5. n \in T
    <2>1. \A k \in 0 .. n : k \in T
      <3> HIDE DEF T
      <3> QED
        BY <1>3, <1>4, Counting
    <2> HIDE DEF T
    <2> QED
      BY <2>1
  <1> QED
    BY <1>2, <1>5

\* What FlattenSeq recurs over: the first k of the sequences, one after another.
IsFlat(g, B, k) == g = [i \in 1 .. k |-> IF i = 1 THEN B[i] ELSE g[i - 1] \o B[i]]

LEMMA FlatExists == ASSUME NEW B, NEW n \in Nat PROVE \E g : IsFlat(g, B, n)
  <1> DEFINE T == {k \in 0 .. n : \E g : IsFlat(g, B, k)}
  <1>1. 0 \in T
    <2>1. IsFlat([i \in 1 .. 0 |-> 0], B, 0)
      BY DEF IsFlat
    <2> QED
      BY <2>1
  <1>2. ASSUME NEW k \in 1 .. n, k - 1 \in T PROVE k \in T
    <2>1. PICK g : IsFlat(g, B, k - 1)
      BY <1>2
    <2> DEFINE last == IF k = 1 THEN B[k] ELSE g[k - 1] \o B[k]
               h == [i \in 1 .. k |-> IF i = k THEN last ELSE g[i]]
    <2>2. \A i \in 1 .. k - 1 : g[i] = IF i = 1 THEN B[i] ELSE g[i - 1] \o B[i]
      BY <2>1 DEF IsFlat
    <2>3. h[k] = last /\ \A i \in 1 .. k - 1 : h[i] = g[i]
      <3>1. k \in 1 .. k /\ \A i \in 1 .. k - 1 : i \in 1 .. k /\ i # k
        OBVIOUS
      <3> HIDE DEF last
      <3> QED
        BY <3>1
    <2>4. DOMAIN h = 1 .. k /\ h = [i \in 1 .. k |-> h[i]]
      OBVIOUS
    <2> HIDE DEF h
    <2>5. ASSUME NEW i \in 1 .. k PROVE h[i] = IF i = 1 THEN B[i] ELSE h[i - 1] \o B[i]
      <3>1. CASE i = k
        <4>1. i # 1 => i - 1 \in 1 .. k - 1
          BY <3>1
        <4> QED
          BY <2>3, <3>1, <4>1
      <3>2. CASE i # k
        <4>1. i \in 1 .. k - 1 /\ (i # 1 => i - 1 \in 1 .. k - 1)
          BY <3>2
        <4> QED
          BY <2>2, <2>3, <4>1
      <3> QED
        BY <3>1, <3>2
    <2>6. IsFlat(h, B, k)
      BY <2>4, <2>5 DEF IsFlat
    <2> QED
      BY <2>6
  <1>3. \A k \in 0 .. n : k \in T
    <2> HIDE DEF T
    <2> QED
      BY <1>1, <1>2, Counting
  <1> HIDE DEF T
  <1>4. n \in T
    BY <1>3
  <1> QED
    BY <1>4 DEF T

=============================================================================

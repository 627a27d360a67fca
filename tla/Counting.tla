------------------------------ MODULE Counting ------------------------------
(***************************************************************************)
(* Facts about sums over finite sets (MapThenSumSet of the community       *)
(* modules), about counting elements of a sequence and about division, for *)
(* the proofs about the components that count.  Induction is over a set    *)
(* of numbers: the least number outside it is the counterexample.          *)
(***************************************************************************)
EXTENDS Integers, Sequences, FiniteSets, FiniteSetsExt, FiniteSetTheorems,
        WellFoundedInduction, TLAPS

---------------------------------------------------------------------------
(* Sums over finite sets.                                                 *)

\* The sum of f over a set: what MapThenSumSet computes, with a function for the
\* operator, so that facts about it can be stated.
SumOver(f, S) == MapThenSumSet(LAMBDA x : f[x], S)

\* Induction over the natural numbers, for a set instead of an operator.
Less == {p \in Nat \X Nat : p[1] < p[2]}

\* The order of the natural numbers is well founded.
LEMMA LessIsWellFounded == IsWellFoundedOn(Less, Nat)
<1>1. Less = OpToRel(<, Nat)
  BY DEF Less, OpToRel
<1>2. QED
  BY <1>1, NatLessThanWellFounded

\* A set with 0 that has n + 1 with every n has every natural number.
LEMMA NatSetInduction ==
  ASSUME NEW S, 0 \in S, \A n \in Nat : n \in S => n + 1 \in S
  PROVE  Nat \subseteq S
<1> DEFINE T == Nat \ S
<1>1. SUFFICES ASSUME T # {} PROVE FALSE
  OBVIOUS
<1>2. PICK x \in T : \A y \in T : <<y, x>> \notin Less
  BY LessIsWellFounded, WFMin, <1>1
<1>3. x # 0 /\ x \in Nat
  OBVIOUS
<1>4. x - 1 \in Nat /\ x - 1 < x /\ (x - 1) + 1 = x
  BY <1>3
<1>5. x - 1 \notin T
  BY <1>2, <1>4, <1>3 DEF Less
<1> QED BY <1>4, <1>5

\* How MapThenSumSet runs through a set: which element it takes, what it does
\* with it, the function of the subsets it builds; and the subsets it has reached
\* after n elements.
First(s) == CHOOSE x \in s : TRUE
Step(f, it, s) == IF s = {} THEN 0 ELSE f[First(s)] + it[s \ {First(s)}]
Iter(f, S) == CHOOSE it : it = [s \in SUBSET S |-> Step(f, it, s)]
UpTo(S, n) == {s \in SUBSET S : Cardinality(s) <= n}

\* The community fold, unfolded.
LEMMA SumIsIter == ASSUME NEW f, NEW S PROVE SumOver(f, S) = Iter(f, S)[S]
  BY DEF SumOver, Iter, First, Step, MapThenSumSet, MapThenFoldSet

\* The element taken is one of the set,
LEMMA FirstIn == ASSUME NEW s, s # {} PROVE First(s) \in s
  BY DEF First

\* and one fewer is left.
LEMMA FewerLeft ==
  ASSUME NEW S, IsFiniteSet(S), NEW s \in SUBSET S, NEW x \in s
  PROVE  /\ IsFiniteSet(s) /\ s \ {x} \in SUBSET S
         /\ Cardinality(s) \in Nat /\ Cardinality(s) > 0
         /\ Cardinality(s \ {x}) = Cardinality(s) - 1
<1>1. IsFiniteSet(s)
  BY FS_Subset
<1>2. Cardinality(s) \in Nat /\ Cardinality(s \ {x}) = Cardinality(s) - 1
  BY <1>1, FS_RemoveElement, FS_CardinalityType
<1>3. Cardinality(s) # 0
  BY <1>1, FS_EmptySet
<1> QED BY <1>1, <1>2, <1>3

\* The function of the fold exists: it is built up to any number of elements.
LEMMA IterDef ==
  ASSUME NEW f, NEW S, IsFiniteSet(S)
  PROVE  \A s \in SUBSET S : Iter(f, S)[s] = Step(f, Iter(f, S), s)
<1> DEFINE Good == {n \in Nat : \E g : g = [s \in UpTo(S, n) |-> Step(f, g, s)]}
<1>1. 0 \in Good
  <2> DEFINE g == [s \in UpTo(S, 0) |-> 0]
  <2>1. \A s \in UpTo(S, 0) : s = {}
    <3>1. SUFFICES ASSUME NEW s \in UpTo(S, 0) PROVE s = {}
      OBVIOUS
    <3>2. IsFiniteSet(s) /\ Cardinality(s) <= 0
      BY FS_Subset DEF UpTo
    <3> QED BY <3>2, FS_EmptySet, FS_CardinalityType
  <2>2. g = [s \in UpTo(S, 0) |-> Step(f, g, s)]
    BY <2>1 DEF Step
  <2> QED BY <2>2
<1>2. \A n \in Nat : n \in Good => n + 1 \in Good
  <2>1. SUFFICES ASSUME NEW n \in Nat, NEW g, g = [s \in UpTo(S, n) |-> Step(f, g, s)]
                 PROVE  \E h : h = [s \in UpTo(S, n + 1) |-> Step(f, h, s)]
    OBVIOUS
  <2> DEFINE h == [s \in UpTo(S, n + 1) |-> Step(f, g, s)]
  <2>2. \A s \in UpTo(S, n) : s \in UpTo(S, n + 1)
    BY FS_Subset, FS_CardinalityType DEF UpTo
  <2>3. \A s \in UpTo(S, n) : h[s] = g[s]
    BY <2>1, <2>2
  <2>4. ASSUME NEW s \in UpTo(S, n + 1), s # {} PROVE s \ {First(s)} \in UpTo(S, n)
    <3>1. s \in SUBSET S /\ Cardinality(s) <= n + 1
      BY DEF UpTo
    <3>2. QED
      BY <2>4, <3>1, FirstIn, FewerLeft DEF UpTo
  <2>5. \A s \in UpTo(S, n + 1) : Step(f, g, s) = Step(f, h, s)
    BY <2>3, <2>4 DEF Step
  <2>6. h = [s \in UpTo(S, n + 1) |-> Step(f, h, s)]
    BY <2>5
  <2> QED BY <2>6
<1>3. Cardinality(S) \in Good
  BY <1>1, <1>2, NatSetInduction, FS_CardinalityType
<1>4. UpTo(S, Cardinality(S)) = SUBSET S
  BY FS_Subset DEF UpTo
<1>5. \E g : g = [s \in SUBSET S |-> Step(f, g, s)]
  BY <1>3, <1>4
<1>6. Iter(f, S) = [s \in SUBSET S |-> Step(f, Iter(f, S), s)]
  BY <1>5 DEF Iter
<1> HIDE DEF Good
<1> QED BY <1>6

\* The fold over a subset does not depend on the set it is taken in.
LEMMA IterLocal ==
  ASSUME NEW f, NEW S, IsFiniteSet(S), NEW T \in SUBSET S
  PROVE  Iter(f, S)[T] = SumOver(f, T)
<1> DEFINE Good == {n \in Nat : \A s \in SUBSET T :
                       Cardinality(s) = n => Iter(f, S)[s] = Iter(f, T)[s]}
<1>0. IsFiniteSet(T)
  BY FS_Subset
<1>1. 0 \in Good
  <2>1. SUFFICES ASSUME NEW s \in SUBSET T, Cardinality(s) = 0
                 PROVE  Iter(f, S)[s] = Iter(f, T)[s]
    OBVIOUS
  <2>2. s = {}
    BY <1>0, <2>1, FS_Subset, FS_EmptySet
  <2> QED BY <1>0, <2>2, IterDef DEF Step
<1>2. \A n \in Nat : n \in Good => n + 1 \in Good
  <2>1. SUFFICES ASSUME NEW n \in Nat, n \in Good, NEW s \in SUBSET T, Cardinality(s) = n + 1
                 PROVE  Iter(f, S)[s] = Iter(f, T)[s]
    OBVIOUS
  <2>2. s # {}
    BY <2>1, FS_EmptySet
  <2>3. Cardinality(s \ {First(s)}) = n /\ s \ {First(s)} \in SUBSET T
    BY <1>0, <2>1, <2>2, FirstIn, FewerLeft
  <2>4. Iter(f, S)[s \ {First(s)}] = Iter(f, T)[s \ {First(s)}]
    BY <2>1, <2>3
  <2>5. Iter(f, S)[s] = Step(f, Iter(f, S), s) /\ Iter(f, T)[s] = Step(f, Iter(f, T), s)
    <3>1. s \in SUBSET S
      OBVIOUS
    <3> HIDE DEF Good
    <3> QED BY <1>0, <3>1, IterDef
  <2> QED BY <2>2, <2>4, <2>5 DEF Step
<1>3. Cardinality(T) \in Good
  BY <1>0, <1>1, <1>2, NatSetInduction, FS_CardinalityType
<1> QED BY <1>3, SumIsIter

\* The sum is one step of the fold.
LEMMA SumDef ==
  ASSUME NEW f, NEW S, IsFiniteSet(S)
  PROVE  SumOver(f, S) = Step(f, Iter(f, S), S)
BY IterDef, SumIsIter

\* The empty sum is 0.
LEMMA SumEmpty == ASSUME NEW f, NEW S, S = {} PROVE SumOver(f, S) = 0
<1>1. SumOver(f, S) = Step(f, Iter(f, S), S)
  BY FS_EmptySet, SumDef
<1> QED BY <1>1 DEF Step

\* The sum takes one element off the set.
LEMMA SumFirst ==
  ASSUME NEW f, NEW S, IsFiniteSet(S), S # {}
  PROVE  SumOver(f, S) = f[First(S)] + SumOver(f, S \ {First(S)})
<1>1. SumOver(f, S) = f[First(S)] + Iter(f, S)[S \ {First(S)}]
  BY SumDef DEF Step
<1> QED BY <1>1, IterLocal

\* A sum of members of a set that has 0 and is closed under addition is in it:
LEMMA SumType ==
  ASSUME NEW N, 0 \in N, \A a, b \in N : a + b \in N,
         NEW S, IsFiniteSet(S), NEW f, \A x \in S : f[x] \in N
  PROVE  SumOver(f, S) \in N
<1> DEFINE Good == {n \in Nat : \A s \in SUBSET S : Cardinality(s) = n => SumOver(f, s) \in N}
<1>1. 0 \in Good
  <2>1. SUFFICES ASSUME NEW s \in SUBSET S, Cardinality(s) = 0 PROVE SumOver(f, s) \in N
    OBVIOUS
  <2>2. s = {}
    BY <2>1, FS_Subset, FS_EmptySet
  <2> QED BY <2>2, SumEmpty
<1>2. \A n \in Nat : n \in Good => n + 1 \in Good
  <2>1. SUFFICES ASSUME NEW n \in Nat, n \in Good, NEW s \in SUBSET S, Cardinality(s) = n + 1
                 PROVE  SumOver(f, s) \in N
    OBVIOUS
  <2>2. s # {} /\ IsFiniteSet(s)
    BY <2>1, FS_EmptySet, FS_Subset
  <2>3. First(s) \in s /\ Cardinality(s \ {First(s)}) = n /\ s \ {First(s)} \in SUBSET S
    <3>1. First(s) \in s
      BY <2>2, FirstIn
    <3>2. Cardinality(s \ {First(s)}) = Cardinality(s) - 1 /\ s \ {First(s)} \in SUBSET S
      BY <3>1, FewerLeft
    <3> QED BY <2>1, <3>1, <3>2
  <2>4. SumOver(f, s \ {First(s)}) \in N
    BY <2>1, <2>3
  <2>5. f[First(s)] \in N
    BY <2>3
  <2> QED BY <2>2, <2>4, <2>5, SumFirst
<1>3. Cardinality(S) \in Good
  BY <1>1, <1>2, NatSetInduction, FS_CardinalityType
<1> QED BY <1>3

\* a sum of integers is one,
LEMMA SumIsInt ==
  ASSUME NEW S, IsFiniteSet(S), NEW f, \A x \in S : f[x] \in Int
  PROVE  SumOver(f, S) \in Int
<1>1. 0 \in Int /\ \A a, b \in Int : a + b \in Int
  OBVIOUS
<1> QED BY <1>1, SumType

\* a sum of natural numbers is one,
LEMMA SumIsNat ==
  ASSUME NEW S, IsFiniteSet(S), NEW f, \A x \in S : f[x] \in Nat
  PROVE  SumOver(f, S) \in Nat
<1>1. 0 \in Nat /\ \A a, b \in Nat : a + b \in Nat
  OBVIOUS
<1> QED BY <1>1, SumType

\* a sum of zeros is 0.
LEMMA SumOfZeros ==
  ASSUME NEW S, IsFiniteSet(S), NEW f, \A x \in S : f[x] = 0
  PROVE  SumOver(f, S) = 0
<1>1. 0 \in {0} /\ \A a, b \in {0} : a + b \in {0}
  OBVIOUS
<1>2. \A x \in S : f[x] \in {0}
  OBVIOUS
<1>3. SumOver(f, S) \in {0}
  BY <1>1, <1>2, SumType
<1> QED BY <1>3

\* Any element may be taken first.
LEMMA SumSplit ==
  ASSUME NEW S, IsFiniteSet(S), NEW f, \A x \in S : f[x] \in Int, NEW e \in S
  PROVE  SumOver(f, S) = f[e] + SumOver(f, S \ {e})
<1> DEFINE Good == {n \in Nat : \A s \in SUBSET S : \A x \in s :
                       Cardinality(s) = n => SumOver(f, s) = f[x] + SumOver(f, s \ {x})}
<1>1. 0 \in Good
  BY FS_Subset, FS_EmptySet
<1>2. \A n \in Nat : n \in Good => n + 1 \in Good
  <2>1. SUFFICES ASSUME NEW n \in Nat, n \in Good, NEW s \in SUBSET S, NEW x \in s,
                        Cardinality(s) = n + 1
                 PROVE  SumOver(f, s) = f[x] + SumOver(f, s \ {x})
    OBVIOUS
  <2> DEFINE p == First(s)
  <2>2. s # {} /\ IsFiniteSet(s) /\ p \in s
    BY <2>1, FS_Subset, FirstIn
  <2>3. SumOver(f, s) = f[p] + SumOver(f, s \ {p})
    BY <2>2, SumFirst
  <2>4. CASE x = p
    BY <2>3, <2>4
  <2>5. CASE x # p
    <3>1. Cardinality(s \ {p}) = n /\ Cardinality(s \ {x}) = n
          /\ s \ {p} \in SUBSET S /\ s \ {x} \in SUBSET S
      BY <2>1, <2>2, FewerLeft
    <3>2. SumOver(f, s \ {p}) = f[x] + SumOver(f, (s \ {p}) \ {x})
      BY <2>1, <2>5, <3>1
    <3>3. SumOver(f, s \ {x}) = f[p] + SumOver(f, (s \ {x}) \ {p})
      BY <2>1, <2>2, <2>5, <3>1
    <3>4. (s \ {p}) \ {x} = (s \ {x}) \ {p}
      OBVIOUS
    <3>5. IsFiniteSet((s \ {x}) \ {p}) /\ \A y \in (s \ {x}) \ {p} : f[y] \in Int
      BY <2>2, FS_Subset
    <3>6. SumOver(f, (s \ {x}) \ {p}) \in Int
      BY <3>5, SumIsInt
    <3>7. f[x] \in Int /\ f[p] \in Int
      BY <2>2
    <3>8. SumOver(f, s) = f[p] + (f[x] + SumOver(f, (s \ {x}) \ {p}))
      BY <2>3, <3>2, <3>4
    <3> HIDE DEF p, Good
    <3> QED BY <3>3, <3>6, <3>7, <3>8
  <2> QED BY <2>4, <2>5
<1>3. Cardinality(S) \in Good
  BY <1>1, <1>2, NatSetInduction, FS_CardinalityType
<1> QED BY <1>3

\* Equal summands have equal sums.
LEMMA SumSame ==
  ASSUME NEW S, IsFiniteSet(S), NEW f, NEW g, \A x \in S : f[x] \in Int /\ g[x] = f[x]
  PROVE  SumOver(g, S) = SumOver(f, S)
<1> DEFINE Good == {n \in Nat : \A s \in SUBSET S :
                       Cardinality(s) = n => SumOver(g, s) = SumOver(f, s)}
<1>1. 0 \in Good
  <2>1. SUFFICES ASSUME NEW s \in SUBSET S, Cardinality(s) = 0 PROVE SumOver(g, s) = SumOver(f, s)
    OBVIOUS
  <2>2. s = {}
    BY <2>1, FS_Subset, FS_EmptySet
  <2> QED BY <2>2, SumEmpty
<1>2. \A n \in Nat : n \in Good => n + 1 \in Good
  <2>1. SUFFICES ASSUME NEW n \in Nat, n \in Good, NEW s \in SUBSET S, Cardinality(s) = n + 1
                 PROVE  SumOver(g, s) = SumOver(f, s)
    OBVIOUS
  <2>2. s # {} /\ IsFiniteSet(s)
    BY <2>1, FS_EmptySet, FS_Subset
  <2>3. First(s) \in s /\ Cardinality(s \ {First(s)}) = n /\ s \ {First(s)} \in SUBSET S
    BY <2>1, <2>2, FirstIn, FewerLeft
  <2>4. SumOver(g, s \ {First(s)}) = SumOver(f, s \ {First(s)})
    BY <2>1, <2>3
  <2>5. g[First(s)] = f[First(s)]
    BY <2>3
  <2> HIDE DEF Good
  <2> QED BY <2>2, <2>4, <2>5, SumFirst
<1>3. Cardinality(S) \in Good
  BY <1>1, <1>2, NatSetInduction, FS_CardinalityType
<1> QED BY <1>3

\* Changing one summand changes the sum by as much.
LEMMA SumChange ==
  ASSUME NEW S, IsFiniteSet(S), NEW f, NEW g, NEW e \in S,
         \A x \in S : f[x] \in Int /\ g[x] \in Int,
         \A x \in S \ {e} : g[x] = f[x]
  PROVE  SumOver(g, S) = SumOver(f, S) - f[e] + g[e]
<1>1. IsFiniteSet(S \ {e})
  BY FS_Subset
<1>2. SumOver(g, S \ {e}) = SumOver(f, S \ {e}) /\ SumOver(f, S \ {e}) \in Int
  BY <1>1, SumSame, SumIsInt
<1>3. SumOver(g, S) = g[e] + SumOver(g, S \ {e})
  BY SumSplit
<1>4. SumOver(f, S) = f[e] + SumOver(f, S \ {e})
  BY SumSplit
<1> QED BY <1>2, <1>3, <1>4

\* Adding to one summand adds to the sum.
LEMMA SumBump ==
  ASSUME NEW S, IsFiniteSet(S), NEW e \in S, NEW f \in [S -> Nat], NEW k \in Nat
  PROVE  SumOver([f EXCEPT ![e] = @ + k], S) = SumOver(f, S) + k
<1> DEFINE g == [f EXCEPT ![e] = @ + k]
<1>1. \A x \in S : f[x] \in Int /\ g[x] \in Int
  OBVIOUS
<1>2. \A x \in S \ {e} : g[x] = f[x]
  OBVIOUS
<1>3. g[e] = f[e] + k /\ f[e] \in Nat
  OBVIOUS
<1> HIDE DEF g
<1>4. SumOver(g, S) = SumOver(f, S) - f[e] + g[e]
  BY <1>1, <1>2, SumChange
<1>5. SumOver(f, S) \in Int
  BY <1>1, SumIsInt
<1> QED BY <1>3, <1>4, <1>5 DEF g

\* No summand is larger than the sum.
LEMMA SumBounds ==
  ASSUME NEW S, IsFiniteSet(S), NEW f, \A x \in S : f[x] \in Nat, NEW e \in S
  PROVE  f[e] <= SumOver(f, S)
<1>1. IsFiniteSet(S \ {e})
  BY FS_Subset
<1>2. SumOver(f, S \ {e}) \in Nat
  BY <1>1, SumIsNat
<1>3. SumOver(f, S) = f[e] + SumOver(f, S \ {e})
  BY SumSplit
<1> QED BY <1>2, <1>3

\* The sum of one summand.
LEMMA SumOfOne ==
  ASSUME NEW f, NEW e, f[e] \in Int
  PROVE  SumOver(f, {e}) = f[e]
<1>1. IsFiniteSet({e})
  BY FS_Singleton
<1>2. SumOver(f, {e}) = f[e] + SumOver(f, {e} \ {e})
  BY <1>1, SumSplit
<1>3. {e} \ {e} = {}
  OBVIOUS
<1> QED BY <1>2, <1>3, SumEmpty

\* Induction over the subsets of a finite set.
LEMMA SubsetInduction ==
  ASSUME NEW S, IsFiniteSet(S), NEW G, {} \in G,
         \A s \in SUBSET S : s # {} /\ (\A x \in s : s \ {x} \in G) => s \in G
  PROVE  S \in G
<1> DEFINE Good == {n \in Nat : \A s \in SUBSET S : Cardinality(s) = n => s \in G}
<1>1. 0 \in Good
  <2> SUFFICES ASSUME NEW s \in SUBSET S, Cardinality(s) = 0 PROVE s \in G
    OBVIOUS
  <2> QED BY FS_Subset, FS_EmptySet
<1>2. \A n \in Nat : n \in Good => n + 1 \in Good
  <2>1. SUFFICES ASSUME NEW n \in Nat, n \in Good, NEW s \in SUBSET S, Cardinality(s) = n + 1
                 PROVE  s \in G
    OBVIOUS
  <2>2. s # {}
    BY <2>1, FS_EmptySet
  <2>3. \A x \in s : s \ {x} \in SUBSET S /\ Cardinality(s \ {x}) = n
    BY <2>1, FewerLeft
  <2> QED BY <2>1, <2>2, <2>3
<1>3. Cardinality(S) \in Good
  BY <1>1, <1>2, NatSetInduction, FS_CardinalityType
<1> QED BY <1>3

\* Sums add up summand by summand,
LEMMA SumAdd ==
  ASSUME NEW S, IsFiniteSet(S), NEW f, NEW g, NEW h,
         \A x \in S : f[x] \in Int /\ g[x] \in Int /\ h[x] = f[x] + g[x]
  PROVE  SumOver(h, S) = SumOver(f, S) + SumOver(g, S)
<1> DEFINE G == {s \in SUBSET S : SumOver(h, s) = SumOver(f, s) + SumOver(g, s)}
<1>1. {} \in G
  BY SumEmpty
<1>2. ASSUME NEW s \in SUBSET S, s # {}, \A x \in s : s \ {x} \in G PROVE s \in G
  <2>1. PICK x \in s : s \ {x} \in G
    BY <1>2
  <2>2. IsFiniteSet(s) /\ IsFiniteSet(s \ {x})
    BY FS_Subset
  <2>3. \A y \in s : f[y] \in Int /\ g[y] \in Int /\ h[y] \in Int
    OBVIOUS
  <2>4. /\ SumOver(h, s) = h[x] + SumOver(h, s \ {x})
        /\ SumOver(f, s) = f[x] + SumOver(f, s \ {x})
        /\ SumOver(g, s) = g[x] + SumOver(g, s \ {x})
    BY <2>2, <2>3, SumSplit
  <2>5. SumOver(f, s \ {x}) \in Int /\ SumOver(g, s \ {x}) \in Int
    BY <2>2, <2>3, SumIsInt
  <2>6. h[x] = f[x] + g[x] /\ f[x] \in Int /\ g[x] \in Int
    OBVIOUS
  <2>7. SumOver(h, s) = SumOver(f, s) + SumOver(g, s)
    BY <2>1, <2>4, <2>5, <2>6
  <2> QED BY <2>7
<1> HIDE DEF G
<1>3. S \in G
  BY <1>1, <1>2, SubsetInduction
<1> QED BY <1>3 DEF G

\* and over two sets that share nothing.
LEMMA SumDisjoint ==
  ASSUME NEW S, IsFiniteSet(S), NEW T, IsFiniteSet(T), S \cap T = {},
         NEW f, \A x \in S \cup T : f[x] \in Int
  PROVE  SumOver(f, S \cup T) = SumOver(f, S) + SumOver(f, T)
<1> DEFINE G == {s \in SUBSET T : SumOver(f, S \cup s) = SumOver(f, S) + SumOver(f, s)}
<1>0. SumOver(f, S) \in Int
  BY SumIsInt
<1>1. {} \in G
  <2>1. S \cup {} = S
    OBVIOUS
  <2> QED BY <1>0, <2>1, SumEmpty
<1>2. ASSUME NEW s \in SUBSET T, s # {}, \A x \in s : s \ {x} \in G PROVE s \in G
  <2>1. PICK x \in s : s \ {x} \in G
    BY <1>2
  <2>2. IsFiniteSet(s) /\ IsFiniteSet(s \ {x}) /\ IsFiniteSet(S \cup s)
    BY FS_Subset, FS_Union
  <2>3. (\A y \in s : f[y] \in Int) /\ (\A y \in S \cup s : f[y] \in Int)
    OBVIOUS
  <2>4. SumOver(f, s) = f[x] + SumOver(f, s \ {x})
    BY <2>2, <2>3, SumSplit
  <2>5. x \in S \cup s /\ (S \cup s) \ {x} = S \cup (s \ {x})
    OBVIOUS
  <2>6. SumOver(f, S \cup s) = f[x] + SumOver(f, S \cup (s \ {x}))
    BY <2>2, <2>3, <2>5, SumSplit
  <2>7. SumOver(f, s \ {x}) \in Int /\ f[x] \in Int
    BY <2>2, <2>3, SumIsInt
  <2>8. SumOver(f, S \cup s) = SumOver(f, S) + SumOver(f, s)
    BY <1>0, <2>1, <2>4, <2>6, <2>7
  <2> QED BY <2>8
<1> HIDE DEF G
<1>3. T \in G
  BY <1>1, <1>2, SubsetInduction
<1> QED BY <1>3 DEF G

\* The sum of a constant.
LEMMA SumConstant ==
  ASSUME NEW S, IsFiniteSet(S), NEW c \in Nat, NEW f, \A x \in S : f[x] = c
  PROVE  SumOver(f, S) = c * Cardinality(S)
<1> DEFINE G == {s \in SUBSET S : SumOver(f, s) = c * Cardinality(s)}
<1>1. {} \in G
  BY SumEmpty, FS_EmptySet
<1>2. ASSUME NEW s \in SUBSET S, s # {}, \A x \in s : s \ {x} \in G PROVE s \in G
  <2>1. PICK x \in s : s \ {x} \in G
    BY <1>2
  <2>2. IsFiniteSet(s) /\ Cardinality(s) \in Nat /\ Cardinality(s \ {x}) = Cardinality(s) - 1
    BY FewerLeft
  <2>3. SumOver(f, s) = f[x] + SumOver(f, s \ {x})
    BY <2>2, SumSplit
  <2>4. SumOver(f, s) = c + c * (Cardinality(s) - 1)
    BY <2>1, <2>2, <2>3
  <2>5. SumOver(f, s) = c * Cardinality(s)
    BY <2>2, <2>4
  <2> QED BY <2>5
<1> HIDE DEF G
<1>3. S \in G
  BY <1>1, <1>2, SubsetInduction
<1> QED BY <1>3 DEF G

\* Larger summands have a larger sum, and only equal ones the same.
LEMMA SumLeq ==
  ASSUME NEW S, IsFiniteSet(S), NEW f, NEW g,
         \A x \in S : f[x] \in Int /\ g[x] \in Int /\ f[x] <= g[x]
  PROVE  /\ SumOver(f, S) <= SumOver(g, S)
         /\ SumOver(f, S) = SumOver(g, S) => \A x \in S : f[x] = g[x]
<1> DEFINE d == [x \in S |-> g[x] - f[x]]
<1>1. \A x \in S : d[x] \in Nat /\ d[x] \in Int /\ g[x] = f[x] + d[x]
  OBVIOUS
<1> HIDE DEF d
<1>2. SumOver(g, S) = SumOver(f, S) + SumOver(d, S)
  BY <1>1, SumAdd
<1>3. SumOver(d, S) \in Nat /\ SumOver(f, S) \in Int
  BY <1>1, SumIsNat, SumIsInt
<1>4. \A x \in S : d[x] <= SumOver(d, S)
  BY <1>1, SumBounds
<1>5. ASSUME SumOver(f, S) = SumOver(g, S), NEW x \in S PROVE f[x] = g[x]
  <2>1. SumOver(d, S) = 0
    BY <1>2, <1>3, <1>5
  <2>2. d[x] = 0
    BY <1>1, <1>4, <2>1
  <2>3. f[x] \in Int /\ g[x] = f[x] + d[x]
    BY <1>1
  <2> QED BY <2>2, <2>3
<1> QED BY <1>2, <1>3, <1>5

\* Summands of 0 may be left out.
LEMMA SumSupport ==
  ASSUME NEW S, IsFiniteSet(S), NEW T \in SUBSET S, NEW f,
         \A x \in S : f[x] \in Int, \A x \in S \ T : f[x] = 0
  PROVE  SumOver(f, S) = SumOver(f, T)
<1> DEFINE R == S \ T
<1>1. IsFiniteSet(T) /\ IsFiniteSet(R) /\ T \cap R = {}
  BY FS_Subset
<1>2. (\A x \in R : f[x] = 0) /\ (\A x \in T : f[x] \in Int) /\ (\A x \in T \cup R : f[x] \in Int)
  OBVIOUS
<1>3. T \cup R = S
  OBVIOUS
<1> HIDE DEF R
<1>4. SumOver(f, T \cup R) = SumOver(f, T) + SumOver(f, R)
  BY <1>1, <1>2, SumDisjoint
<1>5. SumOver(f, R) = 0 /\ SumOver(f, T) \in Int
  BY <1>1, <1>2, SumOfZeros, SumIsInt
<1>6. SumOver(f, T \cup R) = SumOver(f, T)
  BY <1>4, <1>5
<1> QED BY <1>3, <1>6

---------------------------------------------------------------------------
(* Elements of a sequence.                                                *)

\* How many elements of a sequence are in G.
Tally(s, G) == Cardinality({i \in DOMAIN s : s[i] \in G})

\* A tally is a number
LEMMA TallyIsNat ==
  ASSUME NEW R, NEW s \in Seq(R), NEW G
  PROVE  Tally(s, G) \in Nat /\ IsFiniteSet({i \in DOMAIN s : s[i] \in G})
<1>1. IsFiniteSet(1 .. Len(s))
  BY FS_Interval
<1>2. {i \in DOMAIN s : s[i] \in G} \in SUBSET (1 .. Len(s))
  OBVIOUS
<1>3. IsFiniteSet({i \in DOMAIN s : s[i] \in G})
  BY <1>1, <1>2, FS_Subset
<1> QED BY <1>3, FS_CardinalityType DEF Tally

\* and 0 for the empty sequence;
LEMMA TallyEmpty == ASSUME NEW s, s = << >>, NEW G PROVE Tally(s, G) = 0
<1>1. {i \in DOMAIN s : s[i] \in G} = {}
  OBVIOUS
<1> QED BY <1>1, FS_EmptySet DEF Tally

\* an element appended adds one to it, or nothing.
LEMMA TallyAppend ==
  ASSUME NEW R, NEW s \in Seq(R), NEW r \in R, NEW G
  PROVE  Tally(Append(s, r), G) = IF r \in G THEN Tally(s, G) + 1 ELSE Tally(s, G)
<1> DEFINE A == {i \in DOMAIN s : s[i] \in G}
           B == {i \in DOMAIN Append(s, r) : Append(s, r)[i] \in G}
<1>1. IsFiniteSet(A)
  BY TallyIsNat
<1>2. Len(s) + 1 \notin A
  OBVIOUS
<1>3. CASE r \in G
  <2>1. B = A \cup {Len(s) + 1}
    BY <1>3
  <2> HIDE DEF A, B
  <2>2. Cardinality(B) = Cardinality(A) + 1
    BY <1>1, <1>2, <2>1, FS_AddElement
  <2> QED BY <1>3, <2>2 DEF Tally, A, B
<1>4. CASE r \notin G
  <2>1. B = A
    BY <1>4
  <2> QED BY <1>4, <2>1 DEF Tally
<1> QED BY <1>3, <1>4

\* Appending after a concatenation.
LEMMA AppendConcat ==
  ASSUME NEW R, NEW s \in Seq(R), NEW t \in Seq(R), NEW r \in R
  PROVE  s \o Append(t, r) = Append(s \o t, r)
OBVIOUS

\* A sequence without its last element
ButLast(t) == [i \in 1 .. Len(t) - 1 |-> t[i]]

\* is what the last element is appended to.
LEMMA SplitLast ==
  ASSUME NEW R, NEW t \in Seq(R), Len(t) > 0
  PROVE  /\ ButLast(t) \in Seq(R) /\ Len(ButLast(t)) = Len(t) - 1
         /\ t[Len(t)] \in R /\ t = Append(ButLast(t), t[Len(t)])
BY DEF ButLast

\* Tallies of a concatenation add up.
LEMMA TallyConcat ==
  ASSUME NEW R, NEW s \in Seq(R), NEW t \in Seq(R), NEW G
  PROVE  Tally(s \o t, G) = Tally(s, G) + Tally(t, G)
<1> DEFINE Good == {n \in Nat : \A q \in Seq(R) :
                       Len(q) = n => Tally(s \o q, G) = Tally(s, G) + Tally(q, G)}
<1>1. 0 \in Good
  <2>1. SUFFICES ASSUME NEW q \in Seq(R), Len(q) = 0
                 PROVE  Tally(s \o q, G) = Tally(s, G) + Tally(q, G)
    OBVIOUS
  <2>2. q = << >> /\ s \o q = s
    BY <2>1
  <2>3. Tally(q, G) = 0
    BY <2>2, TallyEmpty
  <2>4. Tally(s, G) \in Nat
    BY TallyIsNat
  <2> QED BY <2>2, <2>3, <2>4
<1>2. \A n \in Nat : n \in Good => n + 1 \in Good
  <2>0. SUFFICES ASSUME NEW n \in Nat, n \in Good
                 PROVE  \A q \in Seq(R) :
                          Len(q) = n + 1 => Tally(s \o q, G) = Tally(s, G) + Tally(q, G)
    BY SMTT(40) DEF Good
  <2>1. SUFFICES ASSUME NEW q \in Seq(R), Len(q) = n + 1
                 PROVE  Tally(s \o q, G) = Tally(s, G) + Tally(q, G)
    OBVIOUS
  <2> DEFINE u == ButLast(q)
             r == q[Len(q)]
  <2>2. u \in Seq(R) /\ r \in R /\ Len(u) = n /\ q = Append(u, r)
    BY <2>1, SplitLast
  <2> HIDE DEF u, r
  <2> DEFINE w == s \o u
  <2>3. Tally(w, G) = Tally(s, G) + Tally(u, G)
    BY <2>0, <2>2
  <2>4. s \o q = Append(w, r) /\ w \in Seq(R)
    BY <2>2, AppendConcat
  <2> HIDE DEF w, Good
  <2>5. Tally(Append(w, r), G) = IF r \in G THEN Tally(w, G) + 1 ELSE Tally(w, G)
    BY <2>4, TallyAppend
  <2>6. Tally(Append(u, r), G) = IF r \in G THEN Tally(u, G) + 1 ELSE Tally(u, G)
    BY <2>2, TallyAppend
  <2>7. Tally(s, G) \in Nat /\ Tally(u, G) \in Nat
    BY <2>2, TallyIsNat
  <2>8. q = Append(u, r)
    BY <2>2
  <2> QED BY <2>3, <2>4, <2>5, <2>6, <2>7, <2>8
<1> HIDE DEF Good
<1>3. Nat \subseteq Good
  BY <1>1, <1>2, NatSetInduction
<1>4. Len(t) \in Good
  BY <1>3
<1> QED BY <1>4 DEF Good

\* The tally of one element.
LEMMA TallyOne ==
  ASSUME NEW R, NEW r \in R, NEW G
  PROVE  Tally(<<r>>, G) = IF r \in G THEN 1 ELSE 0
<1> DEFINE A == {i \in DOMAIN <<r>> : <<r>>[i] \in G}
<1>1. CASE r \in G
  <2>1. A = {1}
    BY <1>1
  <2> HIDE DEF A
  <2>2. Cardinality(A) = 1
    BY <2>1, FS_Singleton
  <2> QED BY <1>1, <2>2 DEF Tally, A
<1>2. CASE r \notin G
  <2>1. A = {}
    BY <1>2
  <2> HIDE DEF A
  <2>2. Cardinality(A) = 0
    BY <2>1, FS_EmptySet
  <2> QED BY <1>2, <2>2 DEF Tally, A
<1> QED BY <1>1, <1>2

---------------------------------------------------------------------------
(* Division.                                                              *)

\* Division with remainder
LEMMA DivRem ==
  ASSUME NEW a \in Nat, NEW n \in Nat, n > 0
  PROVE  /\ a \div n \in Nat /\ a % n \in Nat /\ a % n < n
         /\ a = n * (a \div n) + (a % n)
OBVIOUS

\* has one quotient and one remainder.
LEMMA DivUnique ==
  ASSUME NEW a \in Nat, NEW n \in Nat, n > 0, NEW q \in Nat, NEW r \in Nat, r < n,
         a = n * q + r
  PROVE  a \div n = q /\ a % n = r
OBVIOUS

\* The quotient rounded up grows by one with every n-th number.
LEMMA CeilGrows ==
  ASSUME NEW h \in Nat, NEW n \in Nat, n > 1
  PROVE  (h + 1 + n - 1) \div n = ((h + n - 1) \div n) + (IF h % n = 0 THEN 1 ELSE 0)
<1> DEFINE q == h \div n
           r == h % n
<1>1. q \in Nat /\ r \in Nat /\ r < n /\ h = n * q + r
  BY DivRem
<1> HIDE DEF q, r
<1>4. n * (q + 1) = n * q + n /\ n * q \in Nat
  BY <1>1
<1>2. CASE r = 0
  <2>1. h + 1 + n - 1 = n * (q + 1) + 0
    BY <1>1, <1>2, <1>4
  <2>2. h + n - 1 = n * q + (n - 1)
    BY <1>1, <1>2
  <2>3. (h + 1 + n - 1) \div n = q + 1
    BY <1>1, <2>1, DivUnique
  <2>4. (h + n - 1) \div n = q
    BY <1>1, <2>2, DivUnique
  <2> QED BY <1>2, <2>3, <2>4, <1>1 DEF r
<1>3. CASE r # 0
  <2>1. h + 1 + n - 1 = n * (q + 1) + r
    BY <1>1, <1>4
  <2>2. h + n - 1 = n * (q + 1) + (r - 1)
    BY <1>1, <1>4
  <2>3. (h + 1 + n - 1) \div n = q + 1
    BY <1>1, <2>1, DivUnique
  <2>4. (h + n - 1) \div n = q + 1
    BY <1>1, <1>3, <2>2, DivUnique
  <2> QED BY <1>3, <2>3, <2>4, <1>1 DEF r
<1> QED BY <1>2, <1>3

\* Division keeps the order,
LEMMA DivLeq ==
  ASSUME NEW a \in Nat, NEW b \in Nat, a <= b, NEW n \in Nat, n > 0
  PROVE  a \div n <= b \div n
OBVIOUS

\* and takes multiples of the divisor out.
LEMMA DivPlus ==
  ASSUME NEW a \in Nat, NEW r \in Nat, NEW n \in Nat, n > 0
  PROVE  (a + r * n) \div n = (a \div n) + r
<1>1. /\ a \div n \in Nat /\ a % n \in Nat /\ a % n < n
      /\ a = n * (a \div n) + (a % n)
  BY DivRem
<1>2. a + r * n = n * ((a \div n) + r) + (a % n) /\ a + r * n \in Nat /\ (a \div n) + r \in Nat
  BY <1>1
<1> QED BY <1>1, <1>2, DivUnique

\* A running total, divided in the proportion part to whole, grows by no more than
\* the total itself.
LEMMA ShareGrows ==
  ASSUME NEW a \in Nat, NEW r \in Nat, NEW part \in Nat, NEW whole \in Nat,
         part <= whole, whole > 0
  PROVE  ((a + r) * part) \div whole - (a * part) \div whole \in 0 .. r
<1> DEFINE x == a * part
           y == (a + r) * part
<1>1. x \in Nat /\ y \in Nat /\ y = x + r * part /\ r * part \in Nat /\ r * whole \in Nat
  OBVIOUS
<1>2. r * part <= r * whole
  OBVIOUS
<1> HIDE DEF x, y
<1>3. x <= y /\ y <= x + r * whole /\ x + r * whole \in Nat
  BY <1>1, <1>2
<1>4. x \div whole <= y \div whole /\ y \div whole <= (x + r * whole) \div whole
  BY <1>1, <1>3, DivLeq
<1>5. (x + r * whole) \div whole = (x \div whole) + r
  BY <1>1, DivPlus
<1>6. x \div whole \in Nat /\ y \div whole \in Nat
  BY <1>1, DivRem
<1>7. (y \div whole) - (x \div whole) \in 0 .. r
  BY <1>4, <1>5, <1>6
<1> QED BY <1>7 DEF x, y

\* The least of two numbers,
LEMMA MinOfTwo ==
  ASSUME NEW a \in Int, NEW b \in Int
  PROVE  Min({a, b}) = IF a <= b THEN a ELSE b
BY DEF Min

\* and of three.
LEMMA MinOfThree ==
  ASSUME NEW a \in Int, NEW b \in Int, NEW c \in Int
  PROVE  Min({a, b, c}) = IF a <= b /\ a <= c THEN a ELSE IF b <= c THEN b ELSE c
BY DEF Min

---------------------------------------------------------------------------
(* Folding over a sequence: its positions, from the greatest down.         *)

\* The greatest element of a finite set of positions.
LEMMA MaxOfRange ==
  ASSUME NEW n \in Nat, NEW s \in SUBSET (1 .. n), s # {}
  PROVE  Max(s) \in s /\ \A y \in s : Max(s) >= y
<1> DEFINE T == {n - x : x \in s}
<1>1. T \subseteq Nat /\ T # {}
  <2>1. \A x \in s : x \in 1 .. n
    OBVIOUS
  <2>2. \A x \in s : n - x \in Nat
    BY <2>1
  <2>3. \A y \in T : y \in Nat
    BY <2>2
  <2>4. PICK x \in s : TRUE
    OBVIOUS
  <2>5. n - x \in T
    OBVIOUS
  <2> QED BY <2>3, <2>5
<1>2. PICK t \in T : \A y \in T : <<y, t>> \notin Less
  BY LessIsWellFounded, WFMin, <1>1
<1>3. PICK x \in s : t = n - x
  OBVIOUS
<1>4. \A y \in s : x >= y
  <2> SUFFICES ASSUME NEW y \in s PROVE x >= y
    OBVIOUS
  <2>1. n - y \in T /\ n - y \in Nat /\ t \in Nat
    BY <1>1
  <2>2. ~(n - y < t)
    BY <1>2, <2>1 DEF Less
  <2> QED BY <1>3, <2>1, <2>2
<1>5. \E x1 \in s : \A y \in s : x1 >= y
  BY <1>4
<1> QED BY <1>5 DEF Max

\* Sets of positions, in which the greatest element can be found.
Positions(S) == IsFiniteSet(S) /\ \A s \in SUBSET S : s # {} => Max(s) \in s

\* The positions of a sequence are such a set; its last position is its length.
LEMMA RangePositions ==
  ASSUME NEW n \in Nat
  PROVE  /\ Positions(1 .. n)
         /\ Max(1 .. (n + 1)) = n + 1 /\ (1 .. (n + 1)) \ {n + 1} = 1 .. n
<1>1. IsFiniteSet(1 .. n)
  BY FS_Interval
<1>2. \A s \in SUBSET (1 .. n) : s # {} => Max(s) \in s
  BY MaxOfRange
<1>3. Max(1 .. (n + 1)) = n + 1
  <2> DEFINE m == n + 1
             U == 1 .. m
  <2>1. m \in Nat /\ U \in SUBSET (1 .. m) /\ U # {} /\ m \in U
    OBVIOUS
  <2> HIDE DEF m, U
  <2>2. Max(U) \in U /\ Max(U) >= m
    BY <2>1, MaxOfRange
  <2>3. Max(U) \in Int /\ Max(U) <= m
    BY <2>1, <2>2 DEF U
  <2> QED BY <2>1, <2>2, <2>3 DEF m, U
<1> QED BY <1>1, <1>2, <1>3 DEF Positions

\* One position fewer is left when the greatest is taken.
LEMMA OneLess ==
  ASSUME NEW S, Positions(S), NEW s \in SUBSET S, s # {}
  PROVE  /\ Max(s) \in s /\ Max(s) \in S /\ s \ {Max(s)} \in SUBSET S
         /\ Cardinality(s) \in Nat /\ Cardinality(s \ {Max(s)}) = Cardinality(s) - 1
<1>1. Max(s) \in s /\ IsFiniteSet(S)
  BY DEF Positions
<1> QED BY <1>1, FewerLeft

---------------------------------------------------------------------------
(* Running totals.                                                         *)

\* Elements at places, the sums of those before each, and what a function H of
\* the running total gains at each: the gains add up to what H gains in all.
Preceding(S, P, k) == {j \in S : P[j] < P[k]}

\* The sum telescopes.
LEMMA Telescope ==
  ASSUME NEW S, IsFiniteSet(S), NEW n \in Nat, NEW P \in [S -> 1 .. n],
         \A j, k \in S : P[j] = P[k] => j = k,
         NEW f, \A k \in S : f[k] \in Nat,
         NEW H, \A x \in Nat : H[x] \in Int,
         NEW g, \A k \in S : g[k] = H[SumOver(f, Preceding(S, P, k)) + f[k]]
                                     - H[SumOver(f, Preceding(S, P, k))]
  PROVE  SumOver(g, S) = H[SumOver(f, S)] - H[0]
<1> DEFINE Lower(s) == \A j \in S, k \in s : P[j] < P[k] => j \in s
           G == {s \in SUBSET S : Lower(s) => SumOver(g, s) = H[SumOver(f, s)] - H[0]}
<1>0. \A s \in SUBSET S : IsFiniteSet(s) /\ SumOver(f, s) \in Nat
  <2> SUFFICES ASSUME NEW s \in SUBSET S PROVE IsFiniteSet(s) /\ SumOver(f, s) \in Nat
    OBVIOUS
  <2>1. IsFiniteSet(s) /\ \A x \in s : f[x] \in Nat
    BY FS_Subset
  <2> QED BY <2>1, SumIsNat
<1>1. {} \in G
  BY SumEmpty
<1>2. ASSUME NEW s \in SUBSET S, s # {}, \A x \in s : s \ {x} \in G, Lower(s)
      PROVE  SumOver(g, s) = H[SumOver(f, s)] - H[0]
  <2>1. PICK x \in s : \A y \in s : P[y] <= P[x]
    <3> DEFINE I == {P[y] : y \in s}
    <3>0. \A y \in s : P[y] \in 1 .. n
      OBVIOUS
    <3>1. I \in SUBSET (1 .. n) /\ I # {}
      BY <1>2, <3>0
    <3>2. Max(I) \in I /\ \A y \in I : Max(I) >= y
      BY <3>1, MaxOfRange
    <3> QED BY <3>1, <3>2
  <2> DEFINE r == s \ {x}
  <2>2. \A y \in S : P[y] \in Int
    OBVIOUS
  <2>3. Lower(r)
    BY <1>2, <2>1, <2>2
  <2>4. Preceding(S, P, x) = r
    <3>1. \A y \in Preceding(S, P, x) : y \in r
      BY <1>2, <2>2 DEF Preceding
    <3>2. \A y \in r : y \in Preceding(S, P, x)
      BY <2>1, <2>2 DEF Preceding
    <3> QED BY <3>1, <3>2
  <2>5. r \in G
    BY <1>2
  <2>6. SumOver(g, r) = H[SumOver(f, r)] - H[0]
    BY <2>3, <2>5
  <2>7. \A y \in s : g[y] \in Int /\ f[y] \in Int
    <3> SUFFICES ASSUME NEW y \in s PROVE g[y] \in Int /\ f[y] \in Int
      OBVIOUS
    <3>1. y \in S /\ Preceding(S, P, y) \in SUBSET S
      BY DEF Preceding
    <3>2. SumOver(f, Preceding(S, P, y)) \in Nat /\ f[y] \in Nat
      BY <1>0, <3>1
    <3>3. H[SumOver(f, Preceding(S, P, y)) + f[y]] \in Int /\ H[SumOver(f, Preceding(S, P, y))] \in Int
      BY <3>2
    <3> QED BY <3>1, <3>2, <3>3
  <2>8. SumOver(g, s) = g[x] + SumOver(g, r) /\ SumOver(f, s) = f[x] + SumOver(f, r)
    BY <1>0, <2>7, SumSplit
  <2>9. g[x] = H[SumOver(f, r) + f[x]] - H[SumOver(f, r)]
    BY <2>4
  <2>10. SumOver(f, r) \in Nat /\ f[x] \in Nat
    BY <1>0
  <2> HIDE DEF r
  <2>11. /\ H[SumOver(f, r) + f[x]] \in Int /\ H[SumOver(f, r)] \in Int /\ H[0] \in Int
         /\ f[x] + SumOver(f, r) = SumOver(f, r) + f[x]
    BY <2>10
  <2> QED BY <2>6, <2>8, <2>9, <2>11
<1>3. \A s \in SUBSET S : s # {} /\ (\A x \in s : s \ {x} \in G) => s \in G
  BY <1>2
<1>4. Lower(S)
  OBVIOUS
<1>5. S \in G
  <2> HIDE DEF G
  <2> QED BY <1>1, <1>3, SubsetInduction
<1> QED BY <1>4, <1>5
=============================================================================

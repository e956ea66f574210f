-------------------------------- MODULE Sums --------------------------------
(* Facts about the sums of the community module Functions, over any finite  *)
(* set. The library defines a sum by a recursion over subsets that removes  *)
(* a chosen element; what is proved here is what the other proofs need: a   *)
(* sum grows by the value of an element that is added, whichever was        *)
(* chosen, and depends on the values alone. Induction is over the least     *)
(* cardinality at which a set of subsets fails.                             *)
EXTENDS Integers, FiniteSets, Functions, FiniteSetTheorems, WellFoundedInduction, TLAPS

\* The element that the library's recursion removes.
Removed(s) == CHOOSE x \in s : TRUE

\* One unfolding of the recursion, over the sets in D.
SumStep(f, g, s) == IF s = {} THEN 0 ELSE f[Removed(s)] + g[s \ {Removed(s)}]
Sums(f, g, D) == g = [s \in D |-> SumStep(f, g, s)]

\* The library's sum, with its recursion spelled out.
LEMMA SumIsRecursive ==
  ASSUME NEW f, NEW S
  PROVE  SumFunctionOnSet(f, S) = (CHOOSE g : Sums(f, g, SUBSET S))[S]
  BY DEF SumFunctionOnSet, FoldFunctionOnSet, MapThenFoldSet, Sums, SumStep, Removed

\* A set of naturals that is not empty has a least member.
LEMMA LeastNatural ==
  \A S \in SUBSET Nat : S # {} => \E x \in S : \A y \in S : x <= y
  <1> SUFFICES ASSUME NEW S \in SUBSET Nat, S # {} PROVE \E x \in S : \A y \in S : x <= y
    OBVIOUS
  <1> DEFINE R == OpToRel(<, Nat)
  <1>1. IsWellFoundedOn(R, Nat)
    BY NatLessThanWellFounded
  <1>2. PICK x \in S : \A y \in S : ~(<<y, x>> \in R)
    BY <1>1, WFMin
  <1>3. \A y \in S : ~(y < x)
    BY <1>2 DEF OpToRel
  <1> QED
    BY <1>3

\* Induction over the naturals, for a property given as a set.
LEMMA InductionOnNat ==
  ASSUME NEW P, 0 \in P, \A n \in Nat : n \in P => n + 1 \in P
  PROVE  \A n \in Nat : n \in P
  <1> DEFINE T == {n \in Nat : n \notin P}
  <1> SUFFICES ASSUME T # {} PROVE FALSE
    OBVIOUS
  <1>1. PICK m \in T : \A y \in T : m <= y
    <2>1. T \in SUBSET Nat
      OBVIOUS
    <2> HIDE DEF T
    <2> QED
      BY <2>1, LeastNatural
  <1>2. m # 0 /\ m \in Nat /\ m - 1 \in Nat
    BY <1>1
  <1>3. m - 1 \in P
    BY <1>1, <1>2
  <1> QED
    BY <1>1, <1>2, <1>3

\* Induction over the subsets of a finite set, for a property given as a set.
LEMMA InductionOnSubsets ==
  ASSUME NEW S, IsFiniteSet(S), NEW P, {} \in P,
         \A T \in SUBSET S : \A x \in S \ T : T \in P => T \cup {x} \in P
  PROVE  \A T \in SUBSET S : T \in P
  <1> DEFINE Q == {n \in Nat : \A T \in SUBSET S : Cardinality(T) = n => T \in P}
  <1>1. \A T \in SUBSET S : IsFiniteSet(T) /\ Cardinality(T) \in Nat
    BY FS_Subset, FS_CardinalityType
  <1>2. 0 \in Q
    <2> SUFFICES ASSUME NEW T \in SUBSET S, Cardinality(T) = 0 PROVE T \in P
      OBVIOUS
    <2> QED
      BY <1>1, FS_EmptySet
  <1>3. ASSUME NEW n \in Nat, n \in Q PROVE n + 1 \in Q
    <2> SUFFICES ASSUME NEW T \in SUBSET S, Cardinality(T) = n + 1 PROVE T \in P
      OBVIOUS
    <2>1. T # {}
      BY FS_EmptySet, n + 1 # 0
    <2>2. PICK x : x \in T
      BY <2>1
    <2>3. T \ {x} \in SUBSET S /\ x \in S \ (T \ {x}) /\ (T \ {x}) \cup {x} = T
      BY <2>2
    <2>4. Cardinality(T \ {x}) = n
      <3>1. IsFiniteSet(T)
        BY <1>1
      <3>2. Cardinality(T \ {x}) = Cardinality(T) - 1
        BY <2>2, <3>1, FS_RemoveElement
      <3> QED
        BY <3>2
    <2>5. T \ {x} \in P
      BY <1>3, <2>3, <2>4
    <2> QED
      BY <2>3, <2>5
  <1> HIDE DEF Q
  <1>4. \A n \in Nat : n \in Q
    BY <1>2, <1>3, InductionOnNat
  <1> QED
    BY <1>1, <1>4 DEF Q

\* The recursion has a solution: one for the subsets of at most n elements,
\* for every n.
LEMMA SumsExist ==
  ASSUME NEW f, NEW S, IsFiniteSet(S)
  PROVE  \E g : Sums(f, g, SUBSET S)
  <1> DEFINE D(n) == {s \in SUBSET S : Cardinality(s) <= n}
             Q == {n \in Nat : \E g : Sums(f, g, D(n))}
  <1>1. \A T \in SUBSET S : IsFiniteSet(T) /\ Cardinality(T) \in Nat /\ Cardinality(T) <= Cardinality(S)
    BY FS_Subset, FS_CardinalityType
  <1>2. 0 \in Q
    <2> DEFINE g == [s \in D(0) |-> 0]
    <2>1. \A s \in D(0) : s = {}
      BY <1>1, FS_EmptySet
    <2>2. \A s \in D(0) : SumStep(f, g, s) = 0
      BY <2>1 DEF SumStep
    <2>3. Sums(f, g, D(0))
      BY <2>2 DEF Sums
    <2> QED
      BY <2>3
  <1>3. ASSUME NEW n \in Nat, n \in Q PROVE n + 1 \in Q
    <2>1. PICK g : Sums(f, g, D(n))
      BY <1>3
    <2> DEFINE h == [s \in D(n + 1) |-> SumStep(f, g, s)]
    <2>2. \A s \in D(n) : s \in D(n + 1) /\ g[s] = SumStep(f, g, s)
      BY <1>1, <2>1 DEF Sums
    <2>3. \A s \in D(n) : h[s] = g[s]
      BY <2>2
    <2>4. ASSUME NEW s \in D(n + 1) PROVE SumStep(f, h, s) = SumStep(f, g, s)
      <3>1. CASE s = {}
        BY <3>1 DEF SumStep
      <3>2. CASE s # {}
        <4>1. Removed(s) \in s
          BY <3>2 DEF Removed
        <4>2. s \ {Removed(s)} \in D(n)
          <5>1. Cardinality(s \ {Removed(s)}) = Cardinality(s) - 1
            BY <1>1, <4>1, FS_RemoveElement
          <5> QED
            BY <1>1, <5>1
        <4>3. h[s \ {Removed(s)}] = g[s \ {Removed(s)}]
          BY <2>3, <4>2
        <4> HIDE DEF h
        <4> QED
          BY <3>2, <4>3 DEF SumStep
      <3> QED
        BY <3>1, <3>2
    <2>5. Sums(f, h, D(n + 1))
      BY <2>4 DEF Sums
    <2> HIDE DEF h, D
    <2>6. \E e : Sums(f, e, D(n + 1))
      BY <2>5
    <2> QED
      BY <2>6
  <1>4. Cardinality(S) \in Q
    <2>1. \A n \in Nat : n \in Q
      <3> HIDE DEF Q
      <3> QED
        BY <1>2, <1>3, InductionOnNat
    <2> QED
      BY <2>1, FS_CardinalityType
  <1>5. D(Cardinality(S)) = SUBSET S
    BY <1>1
  <1> QED
    BY <1>4, <1>5

\* So the chosen solution solves it.
LEMMA SumsChosen ==
  ASSUME NEW f, NEW S, IsFiniteSet(S)
  PROVE  \E g : Sums(f, g, SUBSET S) /\ SumFunctionOnSet(f, S) = g[S]
  <1> DEFINE g == CHOOSE h : Sums(f, h, SUBSET S)
  <1>1. Sums(f, g, SUBSET S)
    BY SumsExist
  <1> QED
    BY <1>1, SumIsRecursive

\* Two solutions agree wherever both are defined.
LEMMA SumsAgree ==
  ASSUME NEW f, NEW e, NEW S, NEW R, IsFiniteSet(S), R \in SUBSET S, NEW g, NEW h,
         Sums(f, g, SUBSET S), Sums(e, h, SUBSET R), \A x \in R : f[x] = e[x]
  PROVE  \A s \in SUBSET R : g[s] = h[s]
  <1> DEFINE Q == {n \in Nat : \A s \in SUBSET R : Cardinality(s) = n => g[s] = h[s]}
  <1>1. \A T \in SUBSET S : IsFiniteSet(T) /\ Cardinality(T) \in Nat
    BY FS_Subset, FS_CardinalityType
  <1>s. \A s \in SUBSET R : s \in SUBSET S /\ g[s] = SumStep(f, g, s) /\ h[s] = SumStep(e, h, s)
    BY DEF Sums
  <1>2. 0 \in Q
    <2> SUFFICES ASSUME NEW s \in SUBSET R, Cardinality(s) = 0 PROVE g[s] = h[s]
      OBVIOUS
    <2>1. s = {}
      BY <1>1, FS_EmptySet
    <2> QED
      BY <1>s, <2>1 DEF SumStep
  <1>3. ASSUME NEW n \in Nat, n \in Q PROVE n + 1 \in Q
    <2> SUFFICES ASSUME NEW s \in SUBSET R, Cardinality(s) = n + 1 PROVE g[s] = h[s]
      OBVIOUS
    <2>1. s # {}
      BY FS_EmptySet
    <2>2. Removed(s) \in s
      BY <2>1 DEF Removed
    <2>3. Cardinality(s \ {Removed(s)}) = n
      BY <1>1, <2>2, FS_RemoveElement
    <2>4. g[s \ {Removed(s)}] = h[s \ {Removed(s)}]
      BY <1>3, <2>3
    <2> QED
      BY <1>s, <2>1, <2>2, <2>4 DEF SumStep
  <1> HIDE DEF Q
  <1>4. \A n \in Nat : n \in Q
    BY <1>2, <1>3, InductionOnNat
  <1> QED
    BY <1>1, <1>s, <1>4 DEF Q

\* The sum over no elements.
LEMMA SumEmpty == \A f : SumFunctionOnSet(f, {}) = 0
  <1> SUFFICES ASSUME NEW f PROVE SumFunctionOnSet(f, {}) = 0
    OBVIOUS
  <1>1. PICK g : Sums(f, g, SUBSET {}) /\ SumFunctionOnSet(f, {}) = g[{}]
    BY SumsChosen, FS_EmptySet
  <1> QED
    BY <1>1 DEF Sums, SumStep

\* Taking the chosen element off a sum.
LEMMA SumRemoved ==
  ASSUME NEW f, NEW S, IsFiniteSet(S), S # {}
  PROVE  SumFunctionOnSet(f, S) = f[Removed(S)] + SumFunctionOnSet(f, S \ {Removed(S)})
  <1> DEFINE R == S \ {Removed(S)}
  <1>0. R \in SUBSET S /\ IsFiniteSet(R)
    BY FS_Subset
  <1>1. PICK g : Sums(f, g, SUBSET S) /\ SumFunctionOnSet(f, S) = g[S]
    BY SumsChosen
  <1> HIDE DEF R
  <1>2. PICK h : Sums(f, h, SUBSET R) /\ SumFunctionOnSet(f, R) = h[R]
    BY <1>0, SumsChosen
  <1>3. g[R] = h[R]
    BY <1>0, <1>1, <1>2, SumsAgree
  <1>4. g[S] = f[Removed(S)] + g[R]
    BY <1>1 DEF Sums, SumStep, R
  <1> QED
    BY <1>1, <1>2, <1>3, <1>4 DEF R

\* A sum depends on the values over its set alone.
LEMMA SumSame ==
  ASSUME NEW f, NEW e, NEW S, IsFiniteSet(S), \A x \in S : f[x] = e[x]
  PROVE  SumFunctionOnSet(f, S) = SumFunctionOnSet(e, S)
  <1>1. PICK g : Sums(f, g, SUBSET S) /\ SumFunctionOnSet(f, S) = g[S]
    BY SumsChosen
  <1>2. PICK h : Sums(e, h, SUBSET S) /\ SumFunctionOnSet(e, S) = h[S]
    BY SumsChosen
  <1> QED
    BY <1>1, <1>2, SumsAgree

\* A sum of integers is an integer, a sum of naturals a natural.
LEMMA SumType ==
  ASSUME NEW f, NEW S, IsFiniteSet(S), NEW V, V = Int \/ V = Nat, \A x \in S : f[x] \in V
  PROVE  SumFunctionOnSet(f, S) \in V
  <1> DEFINE Q == {n \in Nat : \A s \in SUBSET S : Cardinality(s) = n => SumFunctionOnSet(f, s) \in V}
  <1>1. \A T \in SUBSET S : IsFiniteSet(T) /\ Cardinality(T) \in Nat
    BY FS_Subset, FS_CardinalityType
  <1>2. 0 \in Q
    <2> SUFFICES ASSUME NEW s \in SUBSET S, Cardinality(s) = 0 PROVE SumFunctionOnSet(f, s) \in V
      OBVIOUS
    <2>1. s = {}
      BY <1>1, FS_EmptySet
    <2> QED
      BY <2>1, SumEmpty
  <1>3. ASSUME NEW n \in Nat, n \in Q PROVE n + 1 \in Q
    <2> SUFFICES ASSUME NEW s \in SUBSET S, Cardinality(s) = n + 1 PROVE SumFunctionOnSet(f, s) \in V
      OBVIOUS
    <2>1. s # {} /\ IsFiniteSet(s)
      BY <1>1, FS_EmptySet, n + 1 # 0
    <2>2. Removed(s) \in s
      BY <2>1 DEF Removed
    <2>3. Cardinality(s \ {Removed(s)}) = n
      <3>1. Cardinality(s \ {Removed(s)}) = Cardinality(s) - 1
        BY <2>1, <2>2, FS_RemoveElement
      <3> QED
        BY <3>1
    <2>4. SumFunctionOnSet(f, s \ {Removed(s)}) \in V
      BY <1>3, <2>3
    <2>5. SumFunctionOnSet(f, s) = f[Removed(s)] + SumFunctionOnSet(f, s \ {Removed(s)})
      BY <2>1, SumRemoved
    <2>6. f[Removed(s)] \in V
      BY <2>2
    <2> QED
      BY <2>4, <2>5, <2>6
  <1> HIDE DEF Q
  <1>4. \A n \in Nat : n \in Q
    BY <1>2, <1>3, InductionOnNat
  <1> QED
    BY <1>1, <1>4 DEF Q

\* The main fact: whichever element the recursion chooses, a sum grows by the
\* value of the element that is added.
LEMMA SumAdd ==
  ASSUME NEW f, NEW S, IsFiniteSet(S), \A x \in S : f[x] \in Int
  PROVE  \A T \in SUBSET S : \A b \in S \ T : SumFunctionOnSet(f, T \cup {b}) = f[b] + SumFunctionOnSet(f, T)
  <1> DEFINE Sum(T) == SumFunctionOnSet(f, T)
             Good(T) == \A b \in S \ T : Sum(T \cup {b}) = f[b] + Sum(T)
             Q == {n \in Nat : \A T \in SUBSET S : Cardinality(T) = n => Good(T)}
  <1>1. \A T \in SUBSET S : IsFiniteSet(T) /\ Cardinality(T) \in Nat /\ Sum(T) \in Int
    <2> SUFFICES ASSUME NEW T \in SUBSET S PROVE IsFiniteSet(T) /\ Cardinality(T) \in Nat /\ Sum(T) \in Int
      OBVIOUS
    <2>1. IsFiniteSet(T)
      BY FS_Subset
    <2> QED
      BY <2>1, FS_CardinalityType, SumType
  <1>t. \A T \in SUBSET S : T # {} => Removed(T) \in T /\ Sum(T) = f[Removed(T)] + Sum(T \ {Removed(T)})
    BY <1>1, SumRemoved DEF Removed
  <1> HIDE DEF Sum
  <1>2. 0 \in Q
    <2> SUFFICES ASSUME NEW T \in SUBSET S, Cardinality(T) = 0, NEW b \in S \ T PROVE Sum(T \cup {b}) = f[b] + Sum(T)
      OBVIOUS
    <2>1. T = {}
      BY <1>1, FS_EmptySet
    <2>2. {b} \in SUBSET S /\ {b} # {} /\ T \cup {b} = {b}
      BY <2>1
    <2>3. Removed({b}) = b
      BY <1>t, <2>2
    <2>4. {b} \ {b} = T
      BY <2>1
    <2> QED
      BY <1>t, <2>2, <2>3, <2>4
  <1>3. ASSUME NEW n \in Nat, n \in Q PROVE n + 1 \in Q
    <2> SUFFICES ASSUME NEW T \in SUBSET S, Cardinality(T) = n + 1, NEW b \in S \ T
                 PROVE  Sum(T \cup {b}) = f[b] + Sum(T)
      OBVIOUS
    <2> DEFINE R == T \cup {b}
               x == Removed(R)
    <2>1. R \in SUBSET S /\ R # {} /\ x \in R /\ Sum(R) = f[x] + Sum(R \ {x})
      BY <1>t
    <2>2. CASE x = b
      <3>1. R \ {x} = T
        BY <2>2
      <3> HIDE DEF x, R
      <3> QED
        BY <2>1, <2>2, <3>1 DEF R
    <2>3. CASE x # b
      <3> HIDE DEF x
      <3> DEFINE U == T \ {x}
      <3>1. x \in T /\ U \in SUBSET S /\ b \in S \ U /\ x \in S \ U /\ U \cup {x} = T /\ R \ {x} = U \cup {b}
        BY <2>1, <2>3
      <3>2. Cardinality(U) = n
        <4>1. IsFiniteSet(T)
          BY <1>1
        <4>2. Cardinality(U) = Cardinality(T) - 1
          BY <3>1, <4>1, FS_RemoveElement
        <4> QED
          BY <4>2
      <3> HIDE DEF U, R
      <3>3. Sum(U \cup {b}) = f[b] + Sum(U) /\ Sum(U \cup {x}) = f[x] + Sum(U)
        BY <1>3, <3>1, <3>2
      <3>4. Sum(R) = f[x] + (f[b] + Sum(U)) /\ Sum(T) = f[x] + Sum(U)
        BY <2>1, <3>1, <3>3
      <3>5. f[x] \in Int /\ f[b] \in Int /\ Sum(U) \in Int
        BY <1>1, <3>1
      <3> QED
        BY <3>4, <3>5 DEF R
    <2> QED
      BY <2>2, <2>3
  <1> HIDE DEF Q
  <1>4. \A n \in Nat : n \in Q
    BY <1>2, <1>3, InductionOnNat
  <1>5. \A T \in SUBSET S : Good(T)
    BY <1>1, <1>4 DEF Q
  <1> QED
    BY <1>5 DEF Sum

\* Changing the value of one element changes the sum by the difference.
LEMMA SumUpdate ==
  ASSUME NEW f, NEW g, NEW S, IsFiniteSet(S), NEW b \in S, \A x \in S : f[x] \in Int /\ g[x] \in Int,
         \A x \in S \ {b} : g[x] = f[x]
  PROVE  SumFunctionOnSet(g, S) = SumFunctionOnSet(f, S) - f[b] + g[b]
  <1> DEFINE T == S \ {b}
  <1>1. T \in SUBSET S /\ IsFiniteSet(T) /\ T \cup {b} = S /\ b \in S \ T
    BY FS_Subset
  <1> HIDE DEF T
  <1>2. SumFunctionOnSet(f, S) = f[b] + SumFunctionOnSet(f, T)
    BY <1>1, SumAdd
  <1>3. SumFunctionOnSet(g, S) = g[b] + SumFunctionOnSet(g, T)
    BY <1>1, SumAdd
  <1>4. SumFunctionOnSet(g, T) = SumFunctionOnSet(f, T)
    BY <1>1, SumSame DEF T
  <1>5. SumFunctionOnSet(f, T) \in Int
    BY <1>1, SumType
  <1> QED
    BY <1>2, <1>3, <1>4, <1>5

\* A larger value nowhere, a larger sum not either.
LEMMA SumBounded ==
  ASSUME NEW f, NEW g, NEW S, IsFiniteSet(S), \A x \in S : f[x] \in Int /\ g[x] \in Int /\ f[x] <= g[x]
  PROVE  SumFunctionOnSet(f, S) <= SumFunctionOnSet(g, S)
  <1> DEFINE P == {T \in SUBSET S : SumFunctionOnSet(f, T) <= SumFunctionOnSet(g, T)}
  <1>1. {} \in P
    BY SumEmpty
  <1>2. ASSUME NEW T \in SUBSET S, NEW x \in S \ T, T \in P PROVE T \cup {x} \in P
    <2>1. IsFiniteSet(T)
      BY FS_Subset
    <2>2. SumFunctionOnSet(f, T \cup {x}) = f[x] + SumFunctionOnSet(f, T)
      BY SumAdd
    <2>3. SumFunctionOnSet(g, T \cup {x}) = g[x] + SumFunctionOnSet(g, T)
      BY SumAdd
    <2>4. SumFunctionOnSet(f, T) \in Int /\ SumFunctionOnSet(g, T) \in Int
      BY <2>1, SumType
    <2> QED
      BY <1>2, <2>2, <2>3, <2>4
  <1> HIDE DEF P
  <1>3. S \in P
    BY <1>1, <1>2, InductionOnSubsets
  <1> QED
    BY <1>3 DEF P

\* The sum of two functions.
LEMMA SumPlus ==
  ASSUME NEW f, NEW g, NEW h, NEW S, IsFiniteSet(S),
         \A x \in S : f[x] \in Int /\ g[x] \in Int /\ h[x] = f[x] + g[x]
  PROVE  SumFunctionOnSet(h, S) = SumFunctionOnSet(f, S) + SumFunctionOnSet(g, S)
  <1> DEFINE P == {T \in SUBSET S : SumFunctionOnSet(h, T) = SumFunctionOnSet(f, T) + SumFunctionOnSet(g, T)}
  <1>1. {} \in P
    BY SumEmpty
  <1>2. ASSUME NEW T \in SUBSET S, NEW x \in S \ T, T \in P PROVE T \cup {x} \in P
    <2>1. IsFiniteSet(T)
      BY FS_Subset
    <2>2. SumFunctionOnSet(f, T \cup {x}) = f[x] + SumFunctionOnSet(f, T)
      BY SumAdd
    <2>3. SumFunctionOnSet(g, T \cup {x}) = g[x] + SumFunctionOnSet(g, T)
      BY SumAdd
    <2>h. SumFunctionOnSet(h, T \cup {x}) = h[x] + SumFunctionOnSet(h, T)
      BY SumAdd
    <2>4. SumFunctionOnSet(f, T) \in Int /\ SumFunctionOnSet(g, T) \in Int
      BY <2>1, SumType
    <2> QED
      BY <1>2, <2>2, <2>3, <2>h, <2>4
  <1> HIDE DEF P
  <1>3. S \in P
    BY <1>1, <1>2, InductionOnSubsets
  <1> QED
    BY <1>3 DEF P

\* A sum of zeros.
LEMMA SumZero ==
  ASSUME NEW f, NEW S, IsFiniteSet(S), \A x \in S : f[x] = 0
  PROVE  SumFunctionOnSet(f, S) = 0
  <1> DEFINE P == {T \in SUBSET S : SumFunctionOnSet(f, T) = 0}
  <1>1. {} \in P
    BY SumEmpty
  <1>2. ASSUME NEW T \in SUBSET S, NEW x \in S \ T, T \in P PROVE T \cup {x} \in P
    <2>1. SumFunctionOnSet(f, T \cup {x}) = f[x] + SumFunctionOnSet(f, T)
      BY SumAdd
    <2> QED
      BY <1>2, <2>1
  <1> HIDE DEF P
  <1>3. S \in P
    BY <1>1, <1>2, InductionOnSubsets
  <1> QED
    BY <1>3 DEF P

\* Elements of value zero do not count.
LEMMA SumOfSupport ==
  ASSUME NEW f, NEW S, IsFiniteSet(S), NEW R \in SUBSET S, \A x \in S : f[x] \in Int, \A x \in S \ R : f[x] = 0
  PROVE  SumFunctionOnSet(f, S) = SumFunctionOnSet(f, R)
  <1> DEFINE P == {T \in SUBSET S : SumFunctionOnSet(f, T) = SumFunctionOnSet(f, T \cap R)}
  <1>1. {} \in P
    <2>1. {} \cap R = {}
      OBVIOUS
    <2> QED
      BY <2>1
  <1>2. ASSUME NEW T \in SUBSET S, NEW x \in S \ T, T \in P PROVE T \cup {x} \in P
    <2>0. T \cap R \in SUBSET S /\ x \in S \ (T \cap R) /\ IsFiniteSet(T \cap R)
      BY FS_Subset
    <2>1. SumFunctionOnSet(f, T \cup {x}) = f[x] + SumFunctionOnSet(f, T)
      BY SumAdd
    <2>2. SumFunctionOnSet(f, (T \cap R) \cup {x}) = f[x] + SumFunctionOnSet(f, T \cap R)
      BY <2>0, SumAdd
    <2>3. SumFunctionOnSet(f, T \cap R) \in Int
      BY <2>0, SumType
    <2>4. CASE x \in R
      <3>1. (T \cup {x}) \cap R = (T \cap R) \cup {x}
        BY <2>4
      <3> QED
        BY <1>2, <2>1, <2>2, <3>1
    <2>5. CASE x \notin R
      <3>1. (T \cup {x}) \cap R = T \cap R /\ f[x] = 0
        BY <2>5
      <3>2. SumFunctionOnSet(f, T) = SumFunctionOnSet(f, T \cap R)
        BY <1>2
      <3>3. SumFunctionOnSet(f, T \cup {x}) = SumFunctionOnSet(f, T \cap R)
        BY <2>1, <2>3, <3>1, <3>2
      <3> QED
        BY <3>1, <3>3
    <2> QED
      BY <2>4, <2>5
  <1> HIDE DEF P
  <1>3. S \in P
    BY <1>1, <1>2, InductionOnSubsets
  <1>4. S \cap R = R
    OBVIOUS
  <1> QED
    BY <1>3, <1>4 DEF P

\* A sum over two sets without a common element.
LEMMA SumDisjoint ==
  ASSUME NEW f, NEW A, NEW B, IsFiniteSet(A), IsFiniteSet(B), A \cap B = {}, \A x \in A \cup B : f[x] \in Int
  PROVE  SumFunctionOnSet(f, A \cup B) = SumFunctionOnSet(f, A) + SumFunctionOnSet(f, B)
  <1> DEFINE P == {T \in SUBSET B : SumFunctionOnSet(f, A \cup T) = SumFunctionOnSet(f, A) + SumFunctionOnSet(f, T)}
  <1>0. IsFiniteSet(A \cup B) /\ SumFunctionOnSet(f, A) \in Int
    BY FS_Union, SumType
  <1>1. {} \in P
    <2>1. A \cup {} = A
      OBVIOUS
    <2> QED
      BY <1>0, <2>1, SumEmpty
  <1>2. ASSUME NEW T \in SUBSET B, NEW x \in B \ T, T \in P PROVE T \cup {x} \in P
    <2>1. SumFunctionOnSet(f, T \cup {x}) = f[x] + SumFunctionOnSet(f, T)
      BY SumAdd
    <2>2. A \cup (T \cup {x}) = (A \cup T) \cup {x} /\ x \notin A \cup T
      BY <1>2
    <2>3. SumFunctionOnSet(f, (A \cup T) \cup {x}) = f[x] + SumFunctionOnSet(f, A \cup T)
      <3> DEFINE U == A \cup B
                 V == A \cup T
      <3>1. IsFiniteSet(U) /\ V \in SUBSET U /\ x \in U \ V /\ \A y \in U : f[y] \in Int
        BY <1>0, <2>2
      <3> HIDE DEF U, V
      <3>2. SumFunctionOnSet(f, V \cup {x}) = f[x] + SumFunctionOnSet(f, V)
        BY <3>1, SumAdd
      <3> QED
        BY <3>2 DEF V
    <2>4. IsFiniteSet(T)
      BY FS_Subset
    <2>5. SumFunctionOnSet(f, T) \in Int /\ f[x] \in Int
      BY <2>4, SumType
    <2>6. SumFunctionOnSet(f, A \cup T) = SumFunctionOnSet(f, A) + SumFunctionOnSet(f, T)
      BY <1>2
    <2>7. SumFunctionOnSet(f, A \cup (T \cup {x})) = SumFunctionOnSet(f, A) + SumFunctionOnSet(f, T \cup {x})
      <3>1. SumFunctionOnSet(f, A \cup (T \cup {x})) = f[x] + (SumFunctionOnSet(f, A) + SumFunctionOnSet(f, T))
        BY <2>2, <2>3, <2>6
      <3>2. \A i, j, k \in Int : i + (j + k) = j + (i + k)
        OBVIOUS
      <3>3. f[x] + (SumFunctionOnSet(f, A) + SumFunctionOnSet(f, T)) = SumFunctionOnSet(f, A) + (f[x] + SumFunctionOnSet(f, T))
        BY <1>0, <2>5, <3>2
      <3> QED
        BY <2>1, <3>1, <3>3
    <2> QED
      BY <2>7
  <1> HIDE DEF P
  <1>3. B \in P
    BY <1>1, <1>2, InductionOnSubsets
  <1> QED
    BY <1>3 DEF P

\* Part of a sum of naturals is no more than the whole.
LEMMA SumPart ==
  ASSUME NEW f, NEW S, IsFiniteSet(S), NEW R \in SUBSET S, \A x \in S : f[x] \in Nat
  PROVE  SumFunctionOnSet(f, R) <= SumFunctionOnSet(f, S)
  <1> DEFINE rest == S \ R
  <1>1. IsFiniteSet(R) /\ IsFiniteSet(rest) /\ R \cap rest = {} /\ R \cup rest = S
    BY FS_Subset
  <1> HIDE DEF rest
  <1>2. SumFunctionOnSet(f, R) \in Nat /\ SumFunctionOnSet(f, rest) \in Nat
    BY <1>1, SumType
  <1>3. SumFunctionOnSet(f, S) = SumFunctionOnSet(f, R) + SumFunctionOnSet(f, rest)
    BY <1>1, SumDisjoint
  <1> QED
    BY <1>2, <1>3

\* The same values in other places have the same sum.
LEMMA SumMoved ==
  ASSUME NEW f, NEW g, NEW p, NEW S, IsFiniteSet(S), \A x, y \in S : p[x] = p[y] => x = y,
         \A x \in S : f[x] \in Int /\ g[p[x]] = f[x]
  PROVE  SumFunctionOnSet(f, S) = SumFunctionOnSet(g, {p[x] : x \in S})
  <1> DEFINE Q(T) == {p[x] : x \in T}
             P == {T \in SUBSET S : IsFiniteSet(Q(T)) /\ SumFunctionOnSet(f, T) = SumFunctionOnSet(g, Q(T))}
  <1>1. {} \in P
    <2>1. Q({}) = {}
      OBVIOUS
    <2> QED
      BY <2>1, FS_EmptySet, SumEmpty
  <1>2. ASSUME NEW T \in SUBSET S, NEW x \in S \ T, T \in P PROVE T \cup {x} \in P
    <2>1. SumFunctionOnSet(f, T \cup {x}) = f[x] + SumFunctionOnSet(f, T)
      BY SumAdd
    <2>2. Q(T \cup {x}) = Q(T) \cup {p[x]} /\ p[x] \notin Q(T) /\ \A y \in Q(T) \cup {p[x]} : g[y] \in Int
      OBVIOUS
    <2>3. IsFiniteSet(Q(T)) /\ SumFunctionOnSet(f, T) = SumFunctionOnSet(g, Q(T))
      BY <1>2
    <2> HIDE DEF Q
    <2>4. IsFiniteSet(Q(T) \cup {p[x]})
      BY <2>3, FS_AddElement
    <2>5. Q(T) \in SUBSET (Q(T) \cup {p[x]}) /\ p[x] \in (Q(T) \cup {p[x]}) \ Q(T)
      BY <2>2
    <2>6. SumFunctionOnSet(g, Q(T) \cup {p[x]}) = g[p[x]] + SumFunctionOnSet(g, Q(T))
      BY <2>2, <2>4, <2>5, SumAdd
    <2> QED
      BY <2>1, <2>2, <2>3, <2>4, <2>6
  <1> HIDE DEF P
  <1>3. S \in P
    BY <1>1, <1>2, InductionOnSubsets
  <1> QED
    BY <1>3 DEF P
=============================================================================

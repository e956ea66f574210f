--------------------------- MODULE CheckoutProofs ---------------------------
(* Proofs about the requests at the till, for any requests, shifts, stock   *)
(* positions, stock on hand and credit limit: locks exclude each other,     *)
(* what a request has checked under its locks still holds when it commits,  *)
(* and the requests that follow the lock order never wait in a circle.      *)

EXTENDS Checkout, Sums

-----------------------------------------------------------------------------
(* Sorted keys.                                                             *)

Sorted(f, S) ==
  /\ f \in [1..Cardinality(S) -> S]
  /\ Range(f) = S
  /\ \A i, j \in DOMAIN f : i < j => f[i] < f[j]

\* A finite set of naturals that is not empty has a largest member.
LEMMA GreatestNatural ==
  ASSUME NEW S, S \subseteq Nat, IsFiniteSet(S)
  PROVE  \A T \in SUBSET S : T # {} => \E x \in T : \A y \in T : y <= x
  <1> DEFINE P == {T \in SUBSET S : T # {} => \E x \in T : \A y \in T : y <= x}
  <1>1. {} \in P OBVIOUS
  <1>2. ASSUME NEW T \in SUBSET S, NEW z \in S \ T, T \in P PROVE T \cup {z} \in P
    <2>1. CASE T = {} BY <2>1
    <2>2. CASE T # {}
      <3>1. PICK x \in T : \A y \in T : y <= x BY <1>2, <2>2
      <3>2. x \in Nat /\ z \in Nat OBVIOUS
      <3>3. CASE z <= x BY <3>1, <3>2, <3>3
      <3>4. CASE ~(z <= x) BY <3>1, <3>2, <3>4
      <3> QED BY <3>3, <3>4
    <2> QED BY <2>1, <2>2
  <1> HIDE DEF P
  <1>3. \A T \in SUBSET S : T \in P BY <1>1, <1>2, InductionOnSubsets
  <1> QED BY <1>3 DEF P

\* A finite set of naturals can be listed in order: all of it but the largest
\* member, then that one.
LEMMA SortedExists ==
  ASSUME NEW S, S \subseteq Nat, IsFiniteSet(S)
  PROVE  \E f : Sorted(f, S)
  <1> DEFINE P == {n \in Nat : \A T \in SUBSET S : Cardinality(T) = n => \E f : Sorted(f, T)}
  <1>0. \A T \in SUBSET S : IsFiniteSet(T) /\ Cardinality(T) \in Nat BY FS_Subset, FS_CardinalityType
  <1>1. 0 \in P
    <2> SUFFICES ASSUME NEW T \in SUBSET S, Cardinality(T) = 0 PROVE \E f : Sorted(f, T) OBVIOUS
    <2>1. T = {} BY <1>0, FS_EmptySet
    <2>2. Sorted([i \in 1..0 |-> 0], T) BY <2>1, FS_EmptySet DEF Sorted, Range
    <2> QED BY <2>2
  <1>2. ASSUME NEW n \in Nat, n \in P PROVE n + 1 \in P
    <2> SUFFICES ASSUME NEW T \in SUBSET S, Cardinality(T) = n + 1 PROVE \E f : Sorted(f, T) OBVIOUS
    <2>1. T # {} BY FS_EmptySet, n + 1 # 0
    <2>2. PICK z \in T : \A y \in T : y <= z BY <2>1, GreatestNatural
    <2>3. Cardinality(T \ {z}) = n
      <3>1. IsFiniteSet(T) BY <1>0
      <3>2. Cardinality(T \ {z}) = Cardinality(T) - 1 BY <2>2, <3>1, FS_RemoveElement
      <3> QED BY <3>2
    <2>4. PICK f : Sorted(f, T \ {z}) BY <1>2, <2>3
    <2>5. f \in [1..n -> T \ {z}] /\ Range(f) = T \ {z} /\ \A i, j \in 1..n : i < j => f[i] < f[j]
      BY <2>3, <2>4 DEF Sorted
    <2> DEFINE g == [i \in 1..(n + 1) |-> IF i = n + 1 THEN z ELSE f[i]]
    <2>6. g \in [1..(n + 1) -> T]
      <3> SUFFICES ASSUME NEW i \in 1..(n + 1) PROVE g[i] \in T OBVIOUS
      <3>1. CASE i = n + 1 BY <3>1
      <3>2. CASE i # n + 1
        <4>1. i \in 1..n BY <3>2
        <4> QED BY <2>5, <3>2, <4>1
      <3> QED BY <3>1, <3>2
    <2>7. \A x \in T : \E i \in 1..(n + 1) : g[i] = x
      <3> SUFFICES ASSUME NEW x \in T PROVE \E i \in 1..(n + 1) : g[i] = x OBVIOUS
      <3>1. CASE x = z BY <3>1, n + 1 \in 1..(n + 1)
      <3>2. CASE x # z
        <4>1. PICK i \in 1..n : f[i] = x BY <2>5, <3>2 DEF Range
        <4>2. i \in 1..(n + 1) /\ i # n + 1 OBVIOUS
        <4> QED BY <4>1, <4>2
      <3> QED BY <3>1, <3>2
    <2>8. ASSUME NEW i \in 1..(n + 1), NEW j \in 1..(n + 1), i < j PROVE g[i] < g[j]
      <3>1. i \in 1..n /\ i # n + 1 BY <2>8
      <3>2. g[i] = f[i] /\ f[i] \in T \ {z} /\ f[i] \in Nat /\ z \in Nat BY <2>5, <3>1
      <3>3. CASE j = n + 1 BY <2>2, <3>2, <3>3
      <3>4. CASE j # n + 1
        <4>1. j \in 1..n BY <3>4
        <4> QED BY <2>5, <2>8, <3>1, <3>2, <3>4, <4>1
      <3> QED BY <3>3, <3>4
    <2>9. Range(g) = T
      <3> HIDE DEF g
      <3> QED BY <2>6, <2>7 DEF Range
    <2> HIDE DEF g
    <2> QED BY <2>6, <2>8, <2>9 DEF Sorted
  <1> HIDE DEF P
  <1>3. \A n \in Nat : n \in P BY <1>1, <1>2, InductionOnNat
  <1> QED BY <1>0, <1>3 DEF P

\* What sorted() gives: each key once, in ascending order.
LEMMA InOrderSorts ==
  ASSUME NEW S, S \subseteq Nat, IsFiniteSet(S)
  PROVE  /\ InOrder(S) \in Seq(S) /\ Len(InOrder(S)) = Cardinality(S) /\ Range(InOrder(S)) = S
         /\ \A i, j \in DOMAIN InOrder(S) : i < j => InOrder(S)[i] < InOrder(S)[j]
  <1>1. \E f \in [1..Cardinality(S) -> S] : Range(f) = S /\ \A i, j \in DOMAIN f : i < j => f[i] < f[j]
    BY SortedExists DEF Sorted
  <1> DEFINE f == InOrder(S)
  <1>2. f \in [1..Cardinality(S) -> S] /\ Range(f) = S /\ \A i, j \in DOMAIN f : i < j => f[i] < f[j]
    BY <1>1 DEF InOrder
  <1>3. Cardinality(S) \in Nat BY FS_CardinalityType
  <1> HIDE DEF f
  <1>4. f \in Seq(S) /\ Len(f) = Cardinality(S) BY <1>2, <1>3
  <1> QED BY <1>2, <1>4 DEF f

-----------------------------------------------------------------------------
(* Programs as sequences: what stands before a step.                        *)

Tables == {"shift", "sale's shift", "line", "customer", "position", "INV", "RET", "sale", "layers", "nothing"}
Modes == {"U", "N", "K"}
Tests == {"none", "sum", "shiftOpen", "saleShiftOpen", "creditAvailable", "stockAvailable",
          "returnable", "unitLeft", "voidable", "cancellable", "tabOpen"}
Branchings == {"always", "named", "paid", "onAccount", "restores"}
Steps == [res: Tables \X Nat, mode: Modes, test: Tests, only: Branchings]
Tested(t) == {y \in Steps : y.test = t}
Locking(res) == {y \in Steps : y.res = res}

Occurs(x, s) == \E i \in DOMAIN s : s[i] = x

\* Every step of s that is in T comes with or after step x.
Guard(x, T, s) == \A i \in DOMAIN s : s[i] \in T => \E j \in 1..i : s[j] = x

\* No step of s is in T.
Free(T, s) == \A i \in DOMAIN s : s[i] \notin T

\* The tests made by s are in ts.
OnlyTests(ts, s) == \A i \in DOMAIN s : s[i].test \in ts

\* What is free of steps of a kind is guarded trivially.
LEMMA FreeGuard == \A x, T, s : Free(T, s) => Guard(x, T, s)
  BY DEF Free, Guard

\* A step occurs in a program if it occurs in a part.
LEMMA OccursIn ==
  ASSUME NEW s \in Seq(Steps), NEW u \in Seq(Steps)
  PROVE  s \o u \in Seq(Steps) /\ \A x : Occurs(x, s) \/ Occurs(x, u) => Occurs(x, s \o u)
  <1>1. s \o u \in Seq(Steps) /\ Len(s \o u) = Len(s) + Len(u) /\ Len(s) \in Nat /\ Len(u) \in Nat OBVIOUS
  <1>2. ASSUME NEW x, Occurs(x, s) PROVE Occurs(x, s \o u)
    <2>1. PICK i \in 1..Len(s) : s[i] = x BY <1>2 DEF Occurs
    <2>2. i \in DOMAIN (s \o u) /\ (s \o u)[i] = x BY <1>1, <2>1
    <2> QED BY <2>2 DEF Occurs
  <1>3. ASSUME NEW x, Occurs(x, u) PROVE Occurs(x, s \o u)
    <2>1. PICK i \in 1..Len(u) : u[i] = x BY <1>3 DEF Occurs
    <2>2. Len(s) + i \in DOMAIN (s \o u) /\ (s \o u)[Len(s) + i] = x BY <1>1, <2>1
    <2> QED BY <2>2 DEF Occurs
  <1> QED BY <1>1, <1>2, <1>3

\* A program is guarded if its first part is, and holds the guard or its second
\* part is guarded too.
LEMMA GuardIn ==
  ASSUME NEW s \in Seq(Steps), NEW u \in Seq(Steps), NEW x, NEW T,
         Guard(x, T, s), Occurs(x, s) \/ Guard(x, T, u)
  PROVE  Guard(x, T, s \o u)
  <1>1. s \o u \in Seq(Steps) /\ Len(s \o u) = Len(s) + Len(u) /\ Len(s) \in Nat /\ Len(u) \in Nat OBVIOUS
  <1> SUFFICES ASSUME NEW i \in 1..(Len(s) + Len(u)), (s \o u)[i] \in T
               PROVE  \E j \in 1..i : (s \o u)[j] = x
    BY <1>1 DEF Guard
  <1>2. CASE i <= Len(s)
    <2>1. i \in 1..Len(s) /\ s[i] \in T BY <1>1, <1>2
    <2>2. PICK j \in 1..i : s[j] = x BY <2>1 DEF Guard
    <2>3. j \in 1..Len(s) /\ (s \o u)[j] = x BY <1>1, <2>1, <2>2
    <2> QED BY <2>3
  <1>3. CASE i > Len(s)
    <2>1. i - Len(s) \in 1..Len(u) /\ u[i - Len(s)] \in T BY <1>1, <1>3
    <2>2. CASE Occurs(x, s)
      <3>1. PICK j \in 1..Len(s) : s[j] = x BY <2>2 DEF Occurs
      <3>2. j \in 1..i /\ (s \o u)[j] = x BY <1>1, <1>3, <3>1
      <3> QED BY <3>2
    <2>3. CASE Guard(x, T, u)
      <3>1. PICK j \in 1..(i - Len(s)) : u[j] = x BY <2>1, <2>3 DEF Guard
      <3>2. j \in 1..Len(u) /\ Len(s) + j \in 1..i /\ (s \o u)[Len(s) + j] = x BY <1>1, <1>3, <2>1, <3>1
      <3> QED BY <3>2
    <2> QED BY <2>2, <2>3
  <1> QED BY <1>1, <1>2, <1>3

\* What the requests of a shop may contain.
LEMMA BodyType ==
  ASSUME NEW r \in Requests
  PROVE  /\ Body[r] \in Request /\ Body[r].shift \in Shifts /\ Body[r].shift \in Nat
         /\ Body[r].lines \in Seq(Positions) /\ Body[r].cash \in Nat /\ Body[r].credit \in Nat
         /\ Body[r].op \in Ops /\ Body[r].named \in BOOLEAN
  BY CheckoutAssumption DEF Request

\* The positions a request sorts are those of its lines.
LEMMA PositionsSorted ==
  ASSUME NEW r \in Requests
  PROVE  /\ PositionsOf[r] \in Seq(Positions) /\ Range(PositionsOf[r]) = Range(Body[r].lines)
         /\ \A i, j \in DOMAIN PositionsOf[r] : i < j => PositionsOf[r][i] < PositionsOf[r][j]
  <1>1. Range(Body[r].lines) \subseteq Positions BY BodyType DEF Range
  <1>2. Range(Body[r].lines) \subseteq Nat /\ IsFiniteSet(Range(Body[r].lines))
    BY <1>1, FS_Subset, CheckoutAssumption
  <1>3. PositionsOf[r] = InOrder(Range(Body[r].lines)) BY DEF PositionsOf
  <1>4. InOrder(Range(Body[r].lines)) \in Seq(Range(Body[r].lines)) BY <1>2, InOrderSorts
  <1>5. InOrder(Range(Body[r].lines)) \in Seq(Positions) BY <1>1, <1>4
  <1> QED BY <1>2, <1>3, <1>5, InOrderSorts

\* The lines of the older sale are one per position.
LEMMA AllLinesSorted ==
  /\ AllLines \in Seq(Positions) /\ Range(AllLines) = Positions
  /\ \A i, j \in DOMAIN AllLines : i < j => AllLines[i] < AllLines[j]
  BY InOrderSorts, CheckoutAssumption DEF AllLines

\* Each of them once.
LEMMA AllLinesOnce ==
  ASSUME NEW p \in Positions
  PROVE  \E k \in DOMAIN AllLines : \A i \in DOMAIN AllLines : AllLines[i] = p <=> i = k
  <1>1. /\ AllLines \in Seq(Positions) /\ Range(AllLines) = Positions
        /\ \A i, j \in DOMAIN AllLines : i < j => AllLines[i] < AllLines[j]
    BY AllLinesSorted
  <1>2. PICK k \in DOMAIN AllLines : AllLines[k] = p BY <1>1 DEF Range
  <1>3. ASSUME NEW i \in DOMAIN AllLines, AllLines[i] = p PROVE i = k
    <2>1. i \in Nat /\ k \in Nat /\ p \in Nat BY <1>1, CheckoutAssumption
    <2>2. ~(i < k) /\ ~(k < i) BY <1>1, <1>2, <1>3, <2>1
    <2> QED BY <2>1, <2>2
  <1> QED BY <1>2, <1>3

\* A step as the handlers write it.
LEMMA StepType ==
  /\ \A res \in Tables \X Nat, mode \in Modes, test \in Tests : On(res, mode, test) \in Steps
  /\ \A res, mode, test : On(res, mode, test).test = test /\ On(res, mode, test).res = res
  /\ \A n \in Nat : /\ ShiftRow(n) \in Tables \X Nat /\ Position(n) \in Tables \X Nat
                    /\ LayersOf(n) \in Tables \X Nat /\ LineRow(n) \in Tables \X Nat
  /\ CustomerRow \in Tables \X Nat /\ TargetSale \in Tables \X Nat /\ Nothing \in Tables \X Nat
  /\ SaleShift \in Tables \X Nat /\ \A prefix \in {"INV", "RET"} : Counter(prefix) \in Tables \X Nat
  BY DEF On, Steps, Tables, Modes, Tests, Branchings, ShiftRow, Position, LayersOf, LineRow,
         CustomerRow, TargetSale, Nothing, SaleShift, Counter

\* A program of one step.
LEMMA Single ==
  ASSUME NEW x \in Steps
  PROVE  <<x>> \in Seq(Steps) /\ OnlyTests({x.test}, <<x>>) /\ Occurs(x, <<x>>)
  BY DEF OnlyTests, Occurs

\* A step that is only taken in one branch of its handler.
LEMMA SingleIf ==
  ASSUME NEW x \in Steps, NEW c \in Branchings
  PROVE  OnlyIf(c, <<x>>) \in Seq(Steps) /\ OnlyTests({x.test}, OnlyIf(c, <<x>>))
  <1> DEFINE y == [x EXCEPT !.only = c]
  <1>1. y \in Steps /\ y.test = x.test BY DEF Steps
  <1>2. OnlyIf(c, <<x>>) = <<y>> BY DEF OnlyIf
  <1> HIDE DEF y
  <1> QED BY <1>1, <1>2, Single

\* The parts of the handlers are steps, and what they test.
LEMMA Parts ==
  /\ \A s \in Shifts : /\ RequireCallerShift(s) \in Seq(Steps)
                       /\ OnlyTests({"shiftOpen"}, RequireCallerShift(s))
                       /\ Occurs(On(ShiftRow(s), "N", "shiftOpen"), RequireCallerShift(s))
  /\ AssertCreditAvailable \in Seq(Steps) /\ OnlyTests({"creditAvailable"}, AssertCreditAvailable)
  /\ Occurs(On(CustomerRow, "U", "creditAvailable"), AssertCreditAvailable)
  /\ \A prefix \in {"INV", "RET"} : NextNumber(prefix) \in Seq(Steps) /\ OnlyTests({"none"}, NextNumber(prefix))
  /\ \A t \in Tests : <<Test(t)>> \in Seq(Steps) /\ OnlyTests({t}, <<Test(t)>>) /\ Occurs(Test(t), <<Test(t)>>)
  /\ <<Lock(TargetSale, "K")>> \in Seq(Steps) /\ OnlyTests({"none"}, <<Lock(TargetSale, "K")>>)
  /\ <<Lock(CustomerRow, "K")>> \in Seq(Steps) /\ OnlyTests({"none"}, <<Lock(CustomerRow, "K")>>)
  /\ OnlyIf("named", <<Lock(CustomerRow, "U")>>) \in Seq(Steps)
  /\ OnlyTests({"none"}, OnlyIf("named", <<Lock(CustomerRow, "U")>>))
  /\ <<>> \in Seq(Steps) /\ \A ts : OnlyTests(ts, <<>>)
  <1>1. ASSUME NEW s \in Shifts
        PROVE  /\ RequireCallerShift(s) \in Seq(Steps)
               /\ OnlyTests({"shiftOpen"}, RequireCallerShift(s))
               /\ Occurs(On(ShiftRow(s), "N", "shiftOpen"), RequireCallerShift(s))
    <2>1. s \in Nat BY CheckoutAssumption
    <2>2. On(ShiftRow(s), "N", "shiftOpen") \in Steps BY <2>1 DEF On, ShiftRow, Steps, Tables, Modes, Tests, Branchings
    <2>3. On(ShiftRow(s), "N", "shiftOpen").test = "shiftOpen" BY DEF On
    <2> QED BY <2>2, <2>3 DEF RequireCallerShift, OnlyTests, Occurs
  <1>2. /\ AssertCreditAvailable \in Seq(Steps) /\ OnlyTests({"creditAvailable"}, AssertCreditAvailable)
        /\ Occurs(On(CustomerRow, "U", "creditAvailable"), AssertCreditAvailable)
    <2>2. On(CustomerRow, "U", "creditAvailable") \in Steps BY DEF On, CustomerRow, Steps, Tables, Modes, Tests, Branchings
    <2>3. On(CustomerRow, "U", "creditAvailable").test = "creditAvailable" BY DEF On
    <2> QED BY <2>2, <2>3 DEF AssertCreditAvailable, OnlyTests, Occurs
  <1>3. ASSUME NEW prefix \in {"INV", "RET"} PROVE NextNumber(prefix) \in Seq(Steps) /\ OnlyTests({"none"}, NextNumber(prefix))
    <2> DEFINE x == On(Counter(prefix), "N", "none")
    <2>0. Counter(prefix) \in Tables \X Nat /\ "N" \in Modes /\ "none" \in Tests BY StepType DEF Modes, Tests
    <2>1. x \in Steps /\ x.test = "none" BY <2>0, StepType
    <2> HIDE DEF x
    <2>2. <<x>> \in Seq(Steps) /\ OnlyTests({x.test}, <<x>>) /\ Occurs(x, <<x>>) BY <2>1, Single
    <2> QED BY <2>1, <2>2 DEF x, NextNumber, Lock
  <1>4. ASSUME NEW t \in Tests PROVE <<Test(t)>> \in Seq(Steps) /\ OnlyTests({t}, <<Test(t)>>) /\ Occurs(Test(t), <<Test(t)>>)
    <2> DEFINE x == On(Nothing, "K", t)
    <2>1. x \in Steps /\ x.test = t BY StepType DEF Modes
    <2> HIDE DEF x
    <2>2. <<x>> \in Seq(Steps) /\ OnlyTests({x.test}, <<x>>) /\ Occurs(x, <<x>>) BY <2>1, Single
    <2> QED BY <2>1, <2>2 DEF x, Test
  <1>5. <<Lock(TargetSale, "K")>> \in Seq(Steps) /\ OnlyTests({"none"}, <<Lock(TargetSale, "K")>>)
    <2> DEFINE x == On(TargetSale, "K", "none")
    <2>1. x \in Steps /\ x.test = "none" BY StepType DEF Modes, Tests
    <2> HIDE DEF x
    <2>2. <<x>> \in Seq(Steps) /\ OnlyTests({x.test}, <<x>>) /\ Occurs(x, <<x>>) BY <2>1, Single
    <2> QED BY <2>1, <2>2 DEF x, Lock
  <1>6. <<Lock(CustomerRow, "K")>> \in Seq(Steps) /\ OnlyTests({"none"}, <<Lock(CustomerRow, "K")>>)
    <2> DEFINE x == On(CustomerRow, "K", "none")
    <2>1. x \in Steps /\ x.test = "none" BY StepType DEF Modes, Tests
    <2> HIDE DEF x
    <2>2. <<x>> \in Seq(Steps) /\ OnlyTests({x.test}, <<x>>) /\ Occurs(x, <<x>>) BY <2>1, Single
    <2> QED BY <2>1, <2>2 DEF x, Lock
  <1>7. /\ OnlyIf("named", <<Lock(CustomerRow, "U")>>) \in Seq(Steps)
        /\ OnlyTests({"none"}, OnlyIf("named", <<Lock(CustomerRow, "U")>>))
    <2> DEFINE x == On(CustomerRow, "U", "none")
    <2>1. x \in Steps /\ x.test = "none" BY StepType DEF Modes, Tests
    <2> HIDE DEF x
    <2>2. OnlyIf("named", <<x>>) \in Seq(Steps) /\ OnlyTests({x.test}, OnlyIf("named", <<x>>)) BY <2>1, SingleIf DEF Branchings
    <2> QED BY <2>1, <2>2 DEF x, Lock
  <1>8. <<>> \in Seq(Steps) /\ \A ts : OnlyTests(ts, <<>>) BY DEF OnlyTests
  <1> QED BY <1>1, <1>2, <1>3, <1>4, <1>5, <1>6, <1>7, <1>8

\* A lock for each of a sequence of positions.
LEMMA LockParts ==
  ASSUME NEW keys \in Seq(Positions)
  PROVE  /\ LockStockPositions(keys) \in Seq(Steps) /\ OnlyTests({"none"}, LockStockPositions(keys))
         /\ LockLayers(keys) \in Seq(Steps) /\ OnlyTests({"none"}, LockLayers(keys))
         /\ \A p \in Range(keys) : Occurs(Lock(Position(p), "U"), LockStockPositions(keys))
  <1>1. Positions \subseteq Nat BY CheckoutAssumption
  <1>2. \A i \in DOMAIN keys : keys[i] \in Positions /\ keys[i] \in Nat
    <2>1. \A i \in DOMAIN keys : keys[i] \in Positions OBVIOUS
    <2> QED BY <1>1, <2>1
  <1>3. \A p \in Nat : /\ Lock(Position(p), "U") \in Steps /\ Lock(Position(p), "U").test = "none"
                       /\ Lock(LayersOf(p), "U") \in Steps /\ Lock(LayersOf(p), "U").test = "none"
    BY DEF Lock, On, Position, LayersOf, Steps, Tables, Modes, Tests, Branchings
  <1>4. LockStockPositions(keys) \in Seq(Steps) /\ OnlyTests({"none"}, LockStockPositions(keys))
    <2>1. LockStockPositions(keys) \in [1..Len(keys) -> Steps] /\ \A i \in 1..Len(keys) : LockStockPositions(keys)[i].test = "none"
      BY <1>2, <1>3 DEF LockStockPositions
    <2> QED BY <2>1 DEF OnlyTests
  <1>5. LockLayers(keys) \in Seq(Steps) /\ OnlyTests({"none"}, LockLayers(keys))
    <2>1. LockLayers(keys) \in [1..Len(keys) -> Steps] /\ \A i \in 1..Len(keys) : LockLayers(keys)[i].test = "none"
      BY <1>2, <1>3 DEF LockLayers
    <2> QED BY <2>1 DEF OnlyTests
  <1>6. ASSUME NEW p \in Range(keys) PROVE Occurs(Lock(Position(p), "U"), LockStockPositions(keys))
    BY DEF LockStockPositions, Occurs, Range
  <1> QED BY <1>4, <1>5, <1>6

\* The lines of the older sale are locked by their own rows.
LEMMA LineParts ==
  /\ LockSaleLines \in Seq(Steps) /\ OnlyTests({"none"}, LockSaleLines)
  /\ \A p \in Positions : Occurs(Lock(LineRow(p), "U"), LockSaleLines)
  /\ WriteTabLines \in Seq(Steps) /\ OnlyTests({"none"}, WriteTabLines)
  <1>1. Positions \subseteq Nat BY CheckoutAssumption
  <1>2. \A i \in DOMAIN AllLines : AllLines[i] \in Positions /\ AllLines[i] \in Nat
    <2>1. \A i \in DOMAIN AllLines : AllLines[i] \in Positions BY AllLinesSorted
    <2> QED BY <1>1, <2>1
  <1>3. \A p \in Nat : /\ Lock(LineRow(p), "U") \in Steps /\ Lock(LineRow(p), "U").test = "none"
                       /\ Lock(LineRow(p), "N") \in Steps /\ Lock(LineRow(p), "N").test = "none"
                       /\ Lock(LayersOf(p), "U") \in Steps /\ Lock(LayersOf(p), "U").test = "none"
    BY DEF Lock, On, LineRow, LayersOf, Steps, Tables, Modes, Tests, Branchings
  <1>4. LockSaleLines \in Seq(Steps) /\ OnlyTests({"none"}, LockSaleLines)
    BY <1>2, <1>3, AllLinesSorted DEF LockSaleLines, OnlyTests
  <1>5. \A p \in Positions : Occurs(Lock(LineRow(p), "U"), LockSaleLines)
    BY AllLinesSorted DEF LockSaleLines, Occurs, Range
  <1>6. WriteTabLines \in Seq(Steps) /\ OnlyTests({"none"}, WriteTabLines)
    <2> DEFINE n == Len(AllLines)
    <2>1. n \in Nat /\ DOMAIN AllLines = 1..n BY AllLinesSorted
    <2>2. \A i \in 1..(2 * n) : (i % 2 = 1 => (i + 1) \div 2 \in 1..n) /\ (i % 2 # 1 => i \div 2 \in 1..n) BY <2>1
    <2>3. ASSUME NEW i \in 1..(2 * n)
          PROVE  WriteTabLines[i] \in Steps /\ WriteTabLines[i].test = "none"
      <3>1. CASE i % 2 = 1
        <4>1. WriteTabLines[i] = Lock(LayersOf(AllLines[(i + 1) \div 2]), "U") BY <3>1 DEF WriteTabLines
        <4>2. AllLines[(i + 1) \div 2] \in Nat BY <1>2, <2>1, <2>2, <3>1
        <4> QED BY <1>3, <4>1, <4>2
      <3>2. CASE i % 2 # 1
        <4>1. WriteTabLines[i] = Lock(LineRow(AllLines[i \div 2]), "N") BY <3>2 DEF WriteTabLines
        <4>2. AllLines[i \div 2] \in Nat BY <1>2, <2>1, <2>2, <3>2
        <4> QED BY <1>3, <4>1, <4>2
      <3> QED BY <3>1, <3>2
    <2>4. WriteTabLines = [i \in 1..(2 * n) |-> WriteTabLines[i]] BY DEF WriteTabLines
    <2>5. WriteTabLines \in [1..(2 * n) -> Steps]
      <3> HIDE DEF n
      <3> QED BY <2>3, <2>4
    <2>6. 2 * n \in Nat BY <2>1
    <2> HIDE DEF n
    <2>7. WriteTabLines \in Seq(Steps) BY <2>5, <2>6
    <2> QED BY <2>3, <2>5, <2>7 DEF OnlyTests
  <1> QED BY <1>4, <1>5, <1>6

-----------------------------------------------------------------------------
(* The programs of the handlers: which lock stands before which test.       *)

ShiftLock(r) == On(ShiftRow(Body[r].shift), "N", "shiftOpen")
CloseLock(r) == On(ShiftRow(Body[r].shift), "U", "shiftOpen")
CreditLock == On(CustomerRow, "U", "creditAvailable")
PositionLock(p) == Lock(Position(p), "U")
LineLock(p) == Lock(LineRow(p), "U")
SaleLock(test) == On(TargetSale, "U", test)

\* A part that makes no test t keeps the guards of t, and so does one that
\* follows the guard.
LEMMA Extend ==
  ASSUME NEW s \in Seq(Steps), NEW u \in Seq(Steps), NEW x, NEW t, NEW ts, OnlyTests(ts, u),
         Guard(x, Tested(t), s), t \notin ts \/ Occurs(x, s)
  PROVE  Guard(x, Tested(t), s \o u)
  <1>1. t \notin ts => Guard(x, Tested(t), u) BY DEF OnlyTests, Guard, Tested
  <1> QED BY <1>1, GuardIn

\* A part without test t is guarded.
LEMMA NoTest ==
  ASSUME NEW s, NEW x, NEW t, NEW ts, OnlyTests(ts, s), t \notin ts
  PROVE  Guard(x, Tested(t), s)
  BY DEF OnlyTests, Guard, Tested

\* A lock that comes with its test guards it.
LEMMA OwnTest == \A x, T : Guard(x, T, <<x>>)
  BY DEF Guard

\* create_sale: shift, account and positions are locked before what is read of
\* them is checked.
LEMMA SaleFacts ==
  ASSUME NEW r \in Requests, Body[r].op = "sale"
  PROVE  /\ Program[r] \in Seq(Steps)
         /\ Occurs(ShiftLock(r), Program[r])
         /\ Guard(ShiftLock(r), Tested("shiftOpen"), Program[r])
         /\ Body[r].credit > 0 => Occurs(CreditLock, Program[r])
         /\ Guard(CreditLock, Tested("creditAvailable"), Program[r])
         /\ Occurs(Test("stockAvailable"), Program[r])
         /\ \A p \in Range(Body[r].lines) : Guard(PositionLock(p), Tested("stockAvailable"), Program[r])
  <1> DEFINE a1 == RequireCallerShift(Body[r].shift)
             a2 == When(Body[r].credit > 0, AssertCreditAvailable)
             a3 == LockStockPositions(PositionsOf[r])
             a4 == <<Test("stockAvailable")>>
             a5 == NextNumber("INV")
             a6 == LockLayers(Body[r].lines)
             a7 == When(Body[r].named /\ Body[r].credit = 0, <<Lock(CustomerRow, "K")>>)
             b2 == a1 \o a2
             b3 == b2 \o a3
             b4 == b3 \o a4
             b5 == b4 \o a5
             b6 == b5 \o a6
             b7 == b6 \o a7
  <1>0. Program[r] = b7 BY DEF Program, SaleProgram
  <1>1. /\ a1 \in Seq(Steps) /\ OnlyTests({"shiftOpen"}, a1) /\ Occurs(ShiftLock(r), a1)
        /\ Guard(ShiftLock(r), Tested("shiftOpen"), a1)
    BY BodyType, Parts, OwnTest DEF RequireCallerShift, ShiftLock
  <1>2. /\ a2 \in Seq(Steps) /\ OnlyTests({"creditAvailable"}, a2) /\ (Body[r].credit > 0 => Occurs(CreditLock, a2))
        /\ Guard(CreditLock, Tested("creditAvailable"), a2)
    <2>1. Guard(CreditLock, Tested("creditAvailable"), AssertCreditAvailable) BY OwnTest DEF AssertCreditAvailable, CreditLock
    <2>2. Guard(CreditLock, Tested("creditAvailable"), <<>>) BY DEF Guard
    <2> QED BY <2>1, <2>2, Parts DEF When, CreditLock
  <1>3. a3 \in Seq(Steps) /\ OnlyTests({"none"}, a3) /\ \A p \in Range(Body[r].lines) : Occurs(PositionLock(p), a3)
    BY PositionsSorted, LockParts DEF PositionLock
  <1>4. a4 \in Seq(Steps) /\ OnlyTests({"stockAvailable"}, a4) /\ Occurs(Test("stockAvailable"), a4)
    BY Parts DEF Tests
  <1>5. a5 \in Seq(Steps) /\ OnlyTests({"none"}, a5) BY Parts
  <1>6. a6 \in Seq(Steps) /\ OnlyTests({"none"}, a6) BY BodyType, LockParts
  <1>7. a7 \in Seq(Steps) /\ OnlyTests({"none"}, a7) BY Parts DEF When
  <1> HIDE DEF a1, a2, a3, a4, a5, a6, a7, b2, b3, b4, b5, b6, b7
  <1>t2. b2 \in Seq(Steps) /\ Occurs(ShiftLock(r), b2) /\ (Body[r].credit > 0 => Occurs(CreditLock, b2))
    BY <1>1, <1>2, OccursIn DEF b2
  <1>t3. /\ b3 \in Seq(Steps) /\ Occurs(ShiftLock(r), b3) /\ (Body[r].credit > 0 => Occurs(CreditLock, b3))
         /\ \A p \in Range(Body[r].lines) : Occurs(PositionLock(p), b3)
    BY <1>t2, <1>3, OccursIn DEF b3
  <1>t4. /\ b4 \in Seq(Steps) /\ Occurs(ShiftLock(r), b4) /\ (Body[r].credit > 0 => Occurs(CreditLock, b4))
         /\ Occurs(Test("stockAvailable"), b4)
    BY <1>t3, <1>4, OccursIn DEF b4
  <1>t5. /\ b5 \in Seq(Steps) /\ Occurs(ShiftLock(r), b5) /\ (Body[r].credit > 0 => Occurs(CreditLock, b5))
         /\ Occurs(Test("stockAvailable"), b5)
    BY <1>t4, <1>5, OccursIn DEF b5
  <1>t6. /\ b6 \in Seq(Steps) /\ Occurs(ShiftLock(r), b6) /\ (Body[r].credit > 0 => Occurs(CreditLock, b6))
         /\ Occurs(Test("stockAvailable"), b6)
    BY <1>t5, <1>6, OccursIn DEF b6
  <1>t7. /\ b7 \in Seq(Steps) /\ Occurs(ShiftLock(r), b7) /\ (Body[r].credit > 0 => Occurs(CreditLock, b7))
         /\ Occurs(Test("stockAvailable"), b7)
    BY <1>t6, <1>7, OccursIn DEF b7
  <1>8. Guard(ShiftLock(r), Tested("shiftOpen"), b7)
    <2>2. Guard(ShiftLock(r), Tested("shiftOpen"), b2) BY <1>1, <1>2, Extend DEF b2
    <2>3. Guard(ShiftLock(r), Tested("shiftOpen"), b3) BY <1>t2, <1>3, <2>2, Extend DEF b3
    <2>4. Guard(ShiftLock(r), Tested("shiftOpen"), b4) BY <1>t3, <1>4, <2>3, Extend DEF b4
    <2>5. Guard(ShiftLock(r), Tested("shiftOpen"), b5) BY <1>t4, <1>5, <2>4, Extend DEF b5
    <2>6. Guard(ShiftLock(r), Tested("shiftOpen"), b6) BY <1>t5, <1>6, <2>5, Extend DEF b6
    <2> QED BY <1>t6, <1>7, <2>6, Extend DEF b7
  <1>9. Guard(CreditLock, Tested("creditAvailable"), b7)
    <2>1. Guard(CreditLock, Tested("creditAvailable"), a1) BY <1>1, NoTest
    <2>2. Guard(CreditLock, Tested("creditAvailable"), b2) BY <1>1, <1>2, <2>1, GuardIn DEF b2
    <2>3. Guard(CreditLock, Tested("creditAvailable"), b3) BY <1>t2, <1>3, <2>2, Extend DEF b3
    <2>4. Guard(CreditLock, Tested("creditAvailable"), b4) BY <1>t3, <1>4, <2>3, Extend DEF b4
    <2>5. Guard(CreditLock, Tested("creditAvailable"), b5) BY <1>t4, <1>5, <2>4, Extend DEF b5
    <2>6. Guard(CreditLock, Tested("creditAvailable"), b6) BY <1>t5, <1>6, <2>5, Extend DEF b6
    <2> QED BY <1>t6, <1>7, <2>6, Extend DEF b7
  <1>10. ASSUME NEW p \in Range(Body[r].lines) PROVE Guard(PositionLock(p), Tested("stockAvailable"), b7)
    <2>1. Guard(PositionLock(p), Tested("stockAvailable"), a1) BY <1>1, NoTest
    <2>2. Guard(PositionLock(p), Tested("stockAvailable"), b2) BY <1>1, <1>2, <2>1, Extend DEF b2
    <2>3. Guard(PositionLock(p), Tested("stockAvailable"), b3) BY <1>t2, <1>3, <2>2, Extend DEF b3
    <2>4. Guard(PositionLock(p), Tested("stockAvailable"), b4) BY <1>t3, <1>4, <2>3, Extend DEF b4
    <2>5. Guard(PositionLock(p), Tested("stockAvailable"), b5) BY <1>t4, <1>5, <2>4, Extend DEF b5
    <2>6. Guard(PositionLock(p), Tested("stockAvailable"), b6) BY <1>t5, <1>6, <2>5, Extend DEF b6
    <2> QED BY <1>t6, <1>7, <2>6, Extend DEF b7
  <1> QED BY <1>0, <1>t7, <1>8, <1>9, <1>10

\* A program of two steps, the first of which may guard both.
LEMMA Pair ==
  ASSUME NEW x \in Steps, NEW y \in Steps
  PROVE  /\ <<x, y>> \in Seq(Steps) /\ OnlyTests({x.test, y.test}, <<x, y>>)
         /\ Occurs(x, <<x, y>>) /\ Occurs(y, <<x, y>>) /\ \A T : Guard(x, T, <<x, y>>)
  <1>1. <<x, y>> \in Seq(Steps) /\ DOMAIN <<x, y>> = 1..2 /\ <<x, y>>[1] = x /\ <<x, y>>[2] = y OBVIOUS
  <1>2. OnlyTests({x.test, y.test}, <<x, y>>) BY <1>1 DEF OnlyTests
  <1>3. Occurs(x, <<x, y>>) /\ Occurs(y, <<x, y>>) BY <1>1 DEF Occurs
  <1>4. \A T : Guard(x, T, <<x, y>>) BY <1>1 DEF Guard
  <1> QED BY <1>1, <1>2, <1>3, <1>4

\* Steps that are only taken in one branch of their handler.
LEMMA PartIf ==
  ASSUME NEW s \in Seq(Steps), NEW c \in Branchings, NEW ts, OnlyTests(ts, s)
  PROVE  OnlyIf(c, s) \in Seq(Steps) /\ OnlyTests(ts, OnlyIf(c, s))
  <1>1. \A i \in 1..Len(s) : s[i] \in Steps /\ s[i].test \in ts BY DEF OnlyTests
  <1>2. \A y \in Steps : [y EXCEPT !.only = c] \in Steps /\ [y EXCEPT !.only = c].test = y.test BY DEF Steps
  <1>3. OnlyIf(c, s) \in [1..Len(s) -> Steps] /\ \A i \in 1..Len(s) : OnlyIf(c, s)[i].test \in ts
    BY <1>1, <1>2 DEF OnlyIf
  <1> QED BY <1>3 DEF OnlyTests

\* _reverse_completed_sale_settlements makes no test.
LEMMA ReverseParts == ReverseSettlements \in Seq(Steps) /\ OnlyTests({"none"}, ReverseSettlements)
  <1>1. /\ On(SaleShift, "K", "none") \in Steps /\ On(SaleShift, "K", "none").test = "none"
        /\ On(CustomerRow, "K", "none") \in Steps /\ On(CustomerRow, "K", "none").test = "none"
    BY StepType DEF Modes, Tests
  <1> DEFINE s == OnlyIf("paid", <<Lock(SaleShift, "K")>>)
             u == OnlyIf("onAccount", <<Lock(CustomerRow, "K")>>)
  <1>2. s \in Seq(Steps) /\ OnlyTests({"none"}, s) BY <1>1, SingleIf DEF Lock, Branchings
  <1>3. u \in Seq(Steps) /\ OnlyTests({"none"}, u) BY <1>1, SingleIf DEF Lock, Branchings
  <1>4. ReverseSettlements = s \o u BY DEF ReverseSettlements
  <1> HIDE DEF s, u
  <1>5. /\ s \o u \in Seq(Steps)
        /\ \A i \in DOMAIN (s \o u) :
             (i \in DOMAIN s /\ (s \o u)[i] = s[i]) \/ (i - Len(s) \in DOMAIN u /\ (s \o u)[i] = u[i - Len(s)])
    BY <1>2, <1>3
  <1> QED BY <1>2, <1>3, <1>4, <1>5 DEF OnlyTests

\* The line a return names.
LEMMA ReturnedLine ==
  ASSUME NEW r \in Requests, Body[r].op = "return"
  PROVE  Body[r].lines[1] \in Positions /\ Range(Body[r].lines) = {Body[r].lines[1]}
  <1>1. Body[r].lines \in Seq(Positions) /\ Len(Body[r].lines) = 1 BY BodyType, CheckoutAssumption
  <1> QED BY <1>1 DEF Range

\* create_sale_return: the shift and the line are locked before what is read of
\* them is checked.
LEMMA ReturnFacts ==
  ASSUME NEW r \in Requests, Body[r].op = "return"
  PROVE  /\ Program[r] \in Seq(Steps)
         /\ Occurs(ShiftLock(r), Program[r])
         /\ Occurs(Test("returnable"), Program[r])
         /\ Occurs(Test("unitLeft"), Program[r])
         /\ Guard(ShiftLock(r), Tested("shiftOpen"), Program[r])
         /\ Guard(LineLock(Body[r].lines[1]), Tested("returnable"), Program[r])
         /\ Guard(LineLock(Body[r].lines[1]), Tested("unitLeft"), Program[r])
  <1> DEFINE a1 == RequireCallerShift(Body[r].shift)
             a2 == <<Lock(LineRow(Body[r].lines[1]), "U"), Test("returnable")>>
             a3 == OnlyIf("named", <<Lock(CustomerRow, "U")>>)
             a4 == <<Test("unitLeft")>>
             a5 == LockStockPositions(PositionsOf[r])
             a6 == NextNumber("RET")
             a7 == <<Lock(TargetSale, "K")>>
             a8 == LockLayers(Body[r].lines)
             b2 == a1 \o a2
             b3 == b2 \o a3
             b4 == b3 \o a4
             b5 == b4 \o a5
             b6 == b5 \o a6
             b7 == b6 \o a7
             b8 == b7 \o a8
  <1>0. Program[r] = b8 BY DEF Program, ReturnProgram
  <1>1. /\ a1 \in Seq(Steps)
        /\ OnlyTests({"shiftOpen"}, a1)
        /\ (Occurs(ShiftLock(r), a1))
        /\ Guard(ShiftLock(r), Tested("shiftOpen"), a1)
    BY BodyType, Parts, OwnTest DEF RequireCallerShift, ShiftLock
  <1>2. /\ a2 \in Seq(Steps)
        /\ OnlyTests({"none", "returnable"}, a2)
        /\ (Occurs(LineLock(Body[r].lines[1]), a2))
        /\ (Occurs(Test("returnable"), a2))
        /\ Guard(LineLock(Body[r].lines[1]), Tested("returnable"), a2)
    <2>1. Body[r].lines[1] \in Nat BY ReturnedLine, CheckoutAssumption
    <2>2. Lock(LineRow(Body[r].lines[1]), "U") \in Steps /\ Test("returnable") \in Steps
      BY <2>1, StepType DEF Lock, Test, Modes, Tests
    <2>3. Lock(LineRow(Body[r].lines[1]), "U").test = "none" /\ Test("returnable").test = "returnable"
      BY DEF Lock, Test, On
    <2> QED BY <2>2, <2>3, Pair DEF LineLock
  <1>3. /\ a3 \in Seq(Steps)
        /\ OnlyTests({"none"}, a3)
    BY Parts
  <1>4. /\ a4 \in Seq(Steps)
        /\ OnlyTests({"unitLeft"}, a4)
        /\ (Occurs(Test("unitLeft"), a4))
    BY Parts DEF Tests
  <1>5. /\ a5 \in Seq(Steps)
        /\ OnlyTests({"none"}, a5)
    BY PositionsSorted, LockParts
  <1>6. /\ a6 \in Seq(Steps)
        /\ OnlyTests({"none"}, a6)
    BY Parts
  <1>7. /\ a7 \in Seq(Steps)
        /\ OnlyTests({"none"}, a7)
    BY Parts
  <1>8. /\ a8 \in Seq(Steps)
        /\ OnlyTests({"none"}, a8)
    BY BodyType, LockParts
  <1> HIDE DEF a1, a2, a3, a4, a5, a6, a7, a8, b2, b3, b4, b5, b6, b7, b8
  <1>t2. /\ b2 \in Seq(Steps)
         /\ (Occurs(ShiftLock(r), b2))
         /\ (Occurs(LineLock(Body[r].lines[1]), b2))
         /\ (Occurs(Test("returnable"), b2))
    BY <1>1, <1>2, OccursIn DEF b2
  <1>t3. /\ b3 \in Seq(Steps)
         /\ (Occurs(ShiftLock(r), b3))
         /\ (Occurs(LineLock(Body[r].lines[1]), b3))
         /\ (Occurs(Test("returnable"), b3))
    BY <1>t2, <1>3, OccursIn DEF b3
  <1>t4. /\ b4 \in Seq(Steps)
         /\ (Occurs(ShiftLock(r), b4))
         /\ (Occurs(LineLock(Body[r].lines[1]), b4))
         /\ (Occurs(Test("returnable"), b4))
         /\ (Occurs(Test("unitLeft"), b4))
    BY <1>t3, <1>4, OccursIn DEF b4
  <1>t5. /\ b5 \in Seq(Steps)
         /\ (Occurs(ShiftLock(r), b5))
         /\ (Occurs(LineLock(Body[r].lines[1]), b5))
         /\ (Occurs(Test("returnable"), b5))
         /\ (Occurs(Test("unitLeft"), b5))
    BY <1>t4, <1>5, OccursIn DEF b5
  <1>t6. /\ b6 \in Seq(Steps)
         /\ (Occurs(ShiftLock(r), b6))
         /\ (Occurs(LineLock(Body[r].lines[1]), b6))
         /\ (Occurs(Test("returnable"), b6))
         /\ (Occurs(Test("unitLeft"), b6))
    BY <1>t5, <1>6, OccursIn DEF b6
  <1>t7. /\ b7 \in Seq(Steps)
         /\ (Occurs(ShiftLock(r), b7))
         /\ (Occurs(LineLock(Body[r].lines[1]), b7))
         /\ (Occurs(Test("returnable"), b7))
         /\ (Occurs(Test("unitLeft"), b7))
    BY <1>t6, <1>7, OccursIn DEF b7
  <1>t8. /\ b8 \in Seq(Steps)
         /\ (Occurs(ShiftLock(r), b8))
         /\ (Occurs(LineLock(Body[r].lines[1]), b8))
         /\ (Occurs(Test("returnable"), b8))
         /\ (Occurs(Test("unitLeft"), b8))
    BY <1>t7, <1>8, OccursIn DEF b8
  <1>g1. Guard(ShiftLock(r), Tested("shiftOpen"), b8)
    <2>2. Guard(ShiftLock(r), Tested("shiftOpen"), b2) BY <1>1, <1>2, Extend DEF b2
    <2>3. Guard(ShiftLock(r), Tested("shiftOpen"), b3) BY <1>t2, <1>3, <2>2, Extend DEF b3
    <2>4. Guard(ShiftLock(r), Tested("shiftOpen"), b4) BY <1>t3, <1>4, <2>3, Extend DEF b4
    <2>5. Guard(ShiftLock(r), Tested("shiftOpen"), b5) BY <1>t4, <1>5, <2>4, Extend DEF b5
    <2>6. Guard(ShiftLock(r), Tested("shiftOpen"), b6) BY <1>t5, <1>6, <2>5, Extend DEF b6
    <2>7. Guard(ShiftLock(r), Tested("shiftOpen"), b7) BY <1>t6, <1>7, <2>6, Extend DEF b7
    <2> QED BY <1>t7, <1>8, <2>7, Extend DEF b8
  <1>g2. Guard(LineLock(Body[r].lines[1]), Tested("returnable"), b8)
    <2>1. Guard(LineLock(Body[r].lines[1]), Tested("returnable"), a1) BY <1>1, NoTest
    <2>2. Guard(LineLock(Body[r].lines[1]), Tested("returnable"), b2) BY <1>1, <1>2, <2>1, GuardIn DEF b2
    <2>3. Guard(LineLock(Body[r].lines[1]), Tested("returnable"), b3) BY <1>t2, <1>3, <2>2, Extend DEF b3
    <2>4. Guard(LineLock(Body[r].lines[1]), Tested("returnable"), b4) BY <1>t3, <1>4, <2>3, Extend DEF b4
    <2>5. Guard(LineLock(Body[r].lines[1]), Tested("returnable"), b5) BY <1>t4, <1>5, <2>4, Extend DEF b5
    <2>6. Guard(LineLock(Body[r].lines[1]), Tested("returnable"), b6) BY <1>t5, <1>6, <2>5, Extend DEF b6
    <2>7. Guard(LineLock(Body[r].lines[1]), Tested("returnable"), b7) BY <1>t6, <1>7, <2>6, Extend DEF b7
    <2> QED BY <1>t7, <1>8, <2>7, Extend DEF b8
  <1>g3. Guard(LineLock(Body[r].lines[1]), Tested("unitLeft"), b8)
    <2>1. Guard(LineLock(Body[r].lines[1]), Tested("unitLeft"), a1) BY <1>1, NoTest
    <2>2. Guard(LineLock(Body[r].lines[1]), Tested("unitLeft"), b2) BY <1>1, <1>2, <2>1, Extend DEF b2
    <2>3. Guard(LineLock(Body[r].lines[1]), Tested("unitLeft"), b3) BY <1>t2, <1>3, <2>2, Extend DEF b3
    <2>4. Guard(LineLock(Body[r].lines[1]), Tested("unitLeft"), b4) BY <1>t3, <1>4, <2>3, Extend DEF b4
    <2>5. Guard(LineLock(Body[r].lines[1]), Tested("unitLeft"), b5) BY <1>t4, <1>5, <2>4, Extend DEF b5
    <2>6. Guard(LineLock(Body[r].lines[1]), Tested("unitLeft"), b6) BY <1>t5, <1>6, <2>5, Extend DEF b6
    <2>7. Guard(LineLock(Body[r].lines[1]), Tested("unitLeft"), b7) BY <1>t6, <1>7, <2>6, Extend DEF b7
    <2> QED BY <1>t7, <1>8, <2>7, Extend DEF b8
  <1> QED BY <1>0, <1>t8, <1>g1, <1>g2, <1>g3

\* void_sale: the lines and the sale are locked before its status is checked.
LEMMA VoidFacts ==
  ASSUME NEW r \in Requests, Body[r].op = "void"
  PROVE  /\ Program[r] \in Seq(Steps)
         /\ Occurs(SaleLock("voidable"), Program[r])
         /\ Guard(SaleLock("voidable"), Tested("voidable"), Program[r])
         /\ \A p \in Positions : Guard(LineLock(p), Tested("voidable"), Program[r])
  <1> DEFINE a1 == LockSaleLines
             a2 == <<On(TargetSale, "U", "voidable"), Test("saleShiftOpen")>>
             a3 == LockLayers(AllLines)
             a4 == ReverseSettlements
             b2 == a1 \o a2
             b3 == b2 \o a3
             b4 == b3 \o a4
  <1>0. Program[r] = b4 BY DEF Program, VoidProgram
  <1>1. /\ a1 \in Seq(Steps)
        /\ OnlyTests({"none"}, a1)
        /\ (\A p \in Positions : Occurs(LineLock(p), a1))
    BY LineParts DEF LineLock
  <1>2. /\ a2 \in Seq(Steps)
        /\ OnlyTests({"voidable", "saleShiftOpen"}, a2)
        /\ (Occurs(SaleLock("voidable"), a2))
        /\ Guard(SaleLock("voidable"), Tested("voidable"), a2)
    <2>1. SaleLock("voidable") \in Steps /\ Test("saleShiftOpen") \in Steps
      BY StepType DEF SaleLock, Test, Modes, Tests
    <2>2. SaleLock("voidable").test = "voidable" /\ Test("saleShiftOpen").test = "saleShiftOpen"
      BY DEF SaleLock, Test, On
    <2> QED BY <2>1, <2>2, Pair DEF SaleLock
  <1>3. /\ a3 \in Seq(Steps)
        /\ OnlyTests({"none"}, a3)
    BY AllLinesSorted, LockParts
  <1>4. /\ a4 \in Seq(Steps)
        /\ OnlyTests({"none"}, a4)
    BY ReverseParts
  <1> HIDE DEF a1, a2, a3, a4, b2, b3, b4
  <1>t2. /\ b2 \in Seq(Steps)
         /\ (\A p \in Positions : Occurs(LineLock(p), b2))
         /\ (Occurs(SaleLock("voidable"), b2))
    BY <1>1, <1>2, OccursIn DEF b2
  <1>t3. /\ b3 \in Seq(Steps)
         /\ (\A p \in Positions : Occurs(LineLock(p), b3))
         /\ (Occurs(SaleLock("voidable"), b3))
    BY <1>t2, <1>3, OccursIn DEF b3
  <1>t4. /\ b4 \in Seq(Steps)
         /\ (\A p \in Positions : Occurs(LineLock(p), b4))
         /\ (Occurs(SaleLock("voidable"), b4))
    BY <1>t3, <1>4, OccursIn DEF b4
  <1>g1. Guard(SaleLock("voidable"), Tested("voidable"), b4)
    <2>1. Guard(SaleLock("voidable"), Tested("voidable"), a1) BY <1>1, NoTest
    <2>2. Guard(SaleLock("voidable"), Tested("voidable"), b2) BY <1>1, <1>2, <2>1, GuardIn DEF b2
    <2>3. Guard(SaleLock("voidable"), Tested("voidable"), b3) BY <1>t2, <1>3, <2>2, Extend DEF b3
    <2> QED BY <1>t3, <1>4, <2>3, Extend DEF b4
  <1>g2. ASSUME NEW p \in Positions PROVE Guard(LineLock(p), Tested("voidable"), b4)
    <2>1. Guard(LineLock(p), Tested("voidable"), a1) BY <1>1, NoTest
    <2>2. Guard(LineLock(p), Tested("voidable"), b2) BY <1>1, <1>2, <2>1, Extend DEF b2
    <2>3. Guard(LineLock(p), Tested("voidable"), b3) BY <1>t2, <1>3, <2>2, Extend DEF b3
    <2> QED BY <1>t3, <1>4, <2>3, Extend DEF b4
  <1> QED BY <1>0, <1>t4, <1>g1, <1>g2

\* cancel_sale: the same.
LEMMA CancelFacts ==
  ASSUME NEW r \in Requests, Body[r].op = "cancel"
  PROVE  /\ Program[r] \in Seq(Steps)
         /\ Occurs(SaleLock("cancellable"), Program[r])
         /\ Guard(SaleLock("cancellable"), Tested("cancellable"), Program[r])
         /\ \A p \in Positions : Guard(LineLock(p), Tested("cancellable"), Program[r])
  <1> DEFINE a1 == LockSaleLines
             a2 == <<On(TargetSale, "U", "cancellable")>>
             a3 == OnlyIf("restores", LockLayers(AllLines))
             a4 == ReverseSettlements
             b2 == a1 \o a2
             b3 == b2 \o a3
             b4 == b3 \o a4
  <1>0. Program[r] = b4 BY DEF Program, CancelProgram
  <1>1. /\ a1 \in Seq(Steps)
        /\ OnlyTests({"none"}, a1)
        /\ (\A p \in Positions : Occurs(LineLock(p), a1))
    BY LineParts DEF LineLock
  <1>2. /\ a2 \in Seq(Steps)
        /\ OnlyTests({"cancellable"}, a2)
        /\ (Occurs(SaleLock("cancellable"), a2))
        /\ Guard(SaleLock("cancellable"), Tested("cancellable"), a2)
    <2>1. SaleLock("cancellable") \in Steps /\ SaleLock("cancellable").test = "cancellable"
      BY StepType DEF SaleLock, Modes, Tests
    <2> QED BY <2>1, Single, OwnTest DEF SaleLock
  <1>3. /\ a3 \in Seq(Steps)
        /\ OnlyTests({"none"}, a3)
    BY AllLinesSorted, LockParts, PartIf DEF Branchings
  <1>4. /\ a4 \in Seq(Steps)
        /\ OnlyTests({"none"}, a4)
    BY ReverseParts
  <1> HIDE DEF a1, a2, a3, a4, b2, b3, b4
  <1>t2. /\ b2 \in Seq(Steps)
         /\ (\A p \in Positions : Occurs(LineLock(p), b2))
         /\ (Occurs(SaleLock("cancellable"), b2))
    BY <1>1, <1>2, OccursIn DEF b2
  <1>t3. /\ b3 \in Seq(Steps)
         /\ (\A p \in Positions : Occurs(LineLock(p), b3))
         /\ (Occurs(SaleLock("cancellable"), b3))
    BY <1>t2, <1>3, OccursIn DEF b3
  <1>t4. /\ b4 \in Seq(Steps)
         /\ (\A p \in Positions : Occurs(LineLock(p), b4))
         /\ (Occurs(SaleLock("cancellable"), b4))
    BY <1>t3, <1>4, OccursIn DEF b4
  <1>g1. Guard(SaleLock("cancellable"), Tested("cancellable"), b4)
    <2>1. Guard(SaleLock("cancellable"), Tested("cancellable"), a1) BY <1>1, NoTest
    <2>2. Guard(SaleLock("cancellable"), Tested("cancellable"), b2) BY <1>1, <1>2, <2>1, GuardIn DEF b2
    <2>3. Guard(SaleLock("cancellable"), Tested("cancellable"), b3) BY <1>t2, <1>3, <2>2, Extend DEF b3
    <2> QED BY <1>t3, <1>4, <2>3, Extend DEF b4
  <1>g2. ASSUME NEW p \in Positions PROVE Guard(LineLock(p), Tested("cancellable"), b4)
    <2>1. Guard(LineLock(p), Tested("cancellable"), a1) BY <1>1, NoTest
    <2>2. Guard(LineLock(p), Tested("cancellable"), b2) BY <1>1, <1>2, <2>1, Extend DEF b2
    <2>3. Guard(LineLock(p), Tested("cancellable"), b3) BY <1>t2, <1>3, <2>2, Extend DEF b3
    <2> QED BY <1>t3, <1>4, <2>3, Extend DEF b4
  <1> QED BY <1>0, <1>t4, <1>g1, <1>g2

\* complete_tab: sale, shift, account and positions are locked before what is
\* read of them is checked.
LEMMA TabFacts ==
  ASSUME NEW r \in Requests, Body[r].op = "tab"
  PROVE  /\ Program[r] \in Seq(Steps)
         /\ Occurs(SaleLock("tabOpen"), Program[r])
         /\ Occurs(ShiftLock(r), Program[r])
         /\ Body[r].credit > 0 => Occurs(CreditLock, Program[r])
         /\ Occurs(Test("stockAvailable"), Program[r])
         /\ Guard(SaleLock("tabOpen"), Tested("tabOpen"), Program[r])
         /\ Guard(ShiftLock(r), Tested("shiftOpen"), Program[r])
         /\ Guard(CreditLock, Tested("creditAvailable"), Program[r])
         /\ \A p \in Positions : Guard(PositionLock(p), Tested("stockAvailable"), Program[r])
  <1> DEFINE a1 == <<On(TargetSale, "U", "tabOpen")>>
             a2 == RequireCallerShift(Body[r].shift)
             a3 == When(Body[r].credit > 0, AssertCreditAvailable)
             a4 == LockStockPositions(AllLines)
             a5 == <<Test("stockAvailable")>>
             a6 == WriteTabLines
             b2 == a1 \o a2
             b3 == b2 \o a3
             b4 == b3 \o a4
             b5 == b4 \o a5
             b6 == b5 \o a6
  <1>0. Program[r] = b6 BY DEF Program, TabProgram
  <1>1. /\ a1 \in Seq(Steps)
        /\ OnlyTests({"tabOpen"}, a1)
        /\ (Occurs(SaleLock("tabOpen"), a1))
        /\ Guard(SaleLock("tabOpen"), Tested("tabOpen"), a1)
    <2>1. SaleLock("tabOpen") \in Steps /\ SaleLock("tabOpen").test = "tabOpen"
      BY StepType DEF SaleLock, Modes, Tests
    <2> QED BY <2>1, Single, OwnTest DEF SaleLock
  <1>2. /\ a2 \in Seq(Steps)
        /\ OnlyTests({"shiftOpen"}, a2)
        /\ (Occurs(ShiftLock(r), a2))
        /\ Guard(ShiftLock(r), Tested("shiftOpen"), a2)
    BY BodyType, Parts, OwnTest DEF RequireCallerShift, ShiftLock
  <1>3. /\ a3 \in Seq(Steps)
        /\ OnlyTests({"creditAvailable"}, a3)
        /\ (Body[r].credit > 0 => Occurs(CreditLock, a3))
        /\ Guard(CreditLock, Tested("creditAvailable"), a3)
    <2>1. Guard(CreditLock, Tested("creditAvailable"), AssertCreditAvailable) BY OwnTest DEF AssertCreditAvailable, CreditLock
    <2>2. Guard(CreditLock, Tested("creditAvailable"), <<>>) BY DEF Guard
    <2> QED BY <2>1, <2>2, Parts DEF When, CreditLock
  <1>4. /\ a4 \in Seq(Steps)
        /\ OnlyTests({"none"}, a4)
        /\ (\A p \in Positions : Occurs(PositionLock(p), a4))
    BY AllLinesSorted, LockParts DEF PositionLock
  <1>5. /\ a5 \in Seq(Steps)
        /\ OnlyTests({"stockAvailable"}, a5)
        /\ (Occurs(Test("stockAvailable"), a5))
    BY Parts DEF Tests
  <1>6. /\ a6 \in Seq(Steps)
        /\ OnlyTests({"none"}, a6)
    BY LineParts
  <1> HIDE DEF a1, a2, a3, a4, a5, a6, b2, b3, b4, b5, b6
  <1>t2. /\ b2 \in Seq(Steps)
         /\ (Occurs(SaleLock("tabOpen"), b2))
         /\ (Occurs(ShiftLock(r), b2))
    BY <1>1, <1>2, OccursIn DEF b2
  <1>t3. /\ b3 \in Seq(Steps)
         /\ (Occurs(SaleLock("tabOpen"), b3))
         /\ (Occurs(ShiftLock(r), b3))
         /\ (Body[r].credit > 0 => Occurs(CreditLock, b3))
    BY <1>t2, <1>3, OccursIn DEF b3
  <1>t4. /\ b4 \in Seq(Steps)
         /\ (Occurs(SaleLock("tabOpen"), b4))
         /\ (Occurs(ShiftLock(r), b4))
         /\ (Body[r].credit > 0 => Occurs(CreditLock, b4))
         /\ (\A p \in Positions : Occurs(PositionLock(p), b4))
    BY <1>t3, <1>4, OccursIn DEF b4
  <1>t5. /\ b5 \in Seq(Steps)
         /\ (Occurs(SaleLock("tabOpen"), b5))
         /\ (Occurs(ShiftLock(r), b5))
         /\ (Body[r].credit > 0 => Occurs(CreditLock, b5))
         /\ (\A p \in Positions : Occurs(PositionLock(p), b5))
         /\ (Occurs(Test("stockAvailable"), b5))
    BY <1>t4, <1>5, OccursIn DEF b5
  <1>t6. /\ b6 \in Seq(Steps)
         /\ (Occurs(SaleLock("tabOpen"), b6))
         /\ (Occurs(ShiftLock(r), b6))
         /\ (Body[r].credit > 0 => Occurs(CreditLock, b6))
         /\ (\A p \in Positions : Occurs(PositionLock(p), b6))
         /\ (Occurs(Test("stockAvailable"), b6))
    BY <1>t5, <1>6, OccursIn DEF b6
  <1>g1. Guard(SaleLock("tabOpen"), Tested("tabOpen"), b6)
    <2>2. Guard(SaleLock("tabOpen"), Tested("tabOpen"), b2) BY <1>1, <1>2, Extend DEF b2
    <2>3. Guard(SaleLock("tabOpen"), Tested("tabOpen"), b3) BY <1>t2, <1>3, <2>2, Extend DEF b3
    <2>4. Guard(SaleLock("tabOpen"), Tested("tabOpen"), b4) BY <1>t3, <1>4, <2>3, Extend DEF b4
    <2>5. Guard(SaleLock("tabOpen"), Tested("tabOpen"), b5) BY <1>t4, <1>5, <2>4, Extend DEF b5
    <2> QED BY <1>t5, <1>6, <2>5, Extend DEF b6
  <1>g2. Guard(ShiftLock(r), Tested("shiftOpen"), b6)
    <2>1. Guard(ShiftLock(r), Tested("shiftOpen"), a1) BY <1>1, NoTest
    <2>2. Guard(ShiftLock(r), Tested("shiftOpen"), b2) BY <1>1, <1>2, <2>1, GuardIn DEF b2
    <2>3. Guard(ShiftLock(r), Tested("shiftOpen"), b3) BY <1>t2, <1>3, <2>2, Extend DEF b3
    <2>4. Guard(ShiftLock(r), Tested("shiftOpen"), b4) BY <1>t3, <1>4, <2>3, Extend DEF b4
    <2>5. Guard(ShiftLock(r), Tested("shiftOpen"), b5) BY <1>t4, <1>5, <2>4, Extend DEF b5
    <2> QED BY <1>t5, <1>6, <2>5, Extend DEF b6
  <1>g3. Guard(CreditLock, Tested("creditAvailable"), b6)
    <2>1. Guard(CreditLock, Tested("creditAvailable"), a1) BY <1>1, NoTest
    <2>2. Guard(CreditLock, Tested("creditAvailable"), b2) BY <1>1, <1>2, <2>1, Extend DEF b2
    <2>3. Guard(CreditLock, Tested("creditAvailable"), b3) BY <1>t2, <1>3, <2>2, GuardIn DEF b3
    <2>4. Guard(CreditLock, Tested("creditAvailable"), b4) BY <1>t3, <1>4, <2>3, Extend DEF b4
    <2>5. Guard(CreditLock, Tested("creditAvailable"), b5) BY <1>t4, <1>5, <2>4, Extend DEF b5
    <2> QED BY <1>t5, <1>6, <2>5, Extend DEF b6
  <1>g4. ASSUME NEW p \in Positions PROVE Guard(PositionLock(p), Tested("stockAvailable"), b6)
    <2>1. Guard(PositionLock(p), Tested("stockAvailable"), a1) BY <1>1, NoTest
    <2>2. Guard(PositionLock(p), Tested("stockAvailable"), b2) BY <1>1, <1>2, <2>1, Extend DEF b2
    <2>3. Guard(PositionLock(p), Tested("stockAvailable"), b3) BY <1>t2, <1>3, <2>2, Extend DEF b3
    <2>4. Guard(PositionLock(p), Tested("stockAvailable"), b4) BY <1>t3, <1>4, <2>3, Extend DEF b4
    <2>5. Guard(PositionLock(p), Tested("stockAvailable"), b5) BY <1>t4, <1>5, <2>4, Extend DEF b5
    <2> QED BY <1>t5, <1>6, <2>5, Extend DEF b6
  <1> QED BY <1>0, <1>t6, <1>g1, <1>g2, <1>g3, <1>g4

\* close_shift: the shift is locked before its transactions are added up.
LEMMA CloseFacts ==
  ASSUME NEW r \in Requests, Body[r].op = "close"
  PROVE  /\ Program[r] \in Seq(Steps) /\ Occurs(CloseLock(r), Program[r]) /\ Occurs(Test("sum"), Program[r])
         /\ \A t \in Tests : Guard(CloseLock(r), Tested(t), Program[r])
  <1>1. Program[r] = <<CloseLock(r), Test("sum")>> BY DEF Program, CloseProgram, CloseLock
  <1>2. CloseLock(r) \in Steps /\ Test("sum") \in Steps BY BodyType, StepType DEF CloseLock, Test, Modes, Tests
  <1> QED BY <1>1, <1>2, Pair

\* add_cash_movement
LEMMA MoveFacts ==
  ASSUME NEW r \in Requests, Body[r].op = "move"
  PROVE  /\ Program[r] \in Seq(Steps) /\ Occurs(ShiftLock(r), Program[r])
         /\ Guard(ShiftLock(r), Tested("shiftOpen"), Program[r])
  <1>1. Program[r] = <<ShiftLock(r)>> BY DEF Program, MoveProgram, RequireCallerShift, ShiftLock
  <1>2. ShiftLock(r) \in Steps BY BodyType, StepType DEF ShiftLock, Modes, Tests
  <1> QED BY <1>1, <1>2, Single, OwnTest

\* record_customer_payment
LEMMA PayFacts ==
  ASSUME NEW r \in Requests, Body[r].op = "pay"
  PROVE  Program[r] \in Seq(Steps)
  <1>1. Program[r] = <<Test("shiftOpen"), Lock(CustomerRow, "K"), Lock(ShiftRow(Body[r].shift), "K")>>
    BY DEF Program, PayProgram
  <1>2. Test("shiftOpen") \in Steps /\ Lock(CustomerRow, "K") \in Steps /\ Lock(ShiftRow(Body[r].shift), "K") \in Steps
    BY BodyType, StepType DEF Lock, Test, Modes, Tests
  <1> QED BY <1>1, <1>2

\* Every program is a sequence of steps.
LEMMA ProgramType == \A r \in Requests : Program[r] \in Seq(Steps)
  BY BodyType, SaleFacts, ReturnFacts, VoidFacts, CancelFacts, TabFacts, CloseFacts, PayFacts, MoveFacts DEF Ops
-----------------------------------------------------------------------------
(* The lock table.                                                          *)

Has(r, res, mode) == [by |-> r, res |-> res, mode |-> mode] \in held
Locks == [by: Requests, res: Tables \X Nat, mode: Modes]
Phases == {"new", "running", "committed", "rolled_back"}

LockType ==
  /\ phase \in [Requests -> Phases] /\ pc \in [Requests -> Nat \ {0}] /\ held \subseteq Locks
  /\ \A r \in Requests : phase[r] # "running" => pc[r] = 1

\* No two requests hold locks that exclude each other.
Exclusive == \A l, m \in held : l.by # m.by /\ l.res = m.res => ~Conflict(l.mode, m.mode)

\* A request holds the locks of the steps it has taken.
Holding ==
  \A r \in Requests : \A i \in DOMAIN Program[r] :
    LET step == Program[r][i] IN
    i < pc[r] /\ step.only = "always" /\ step.res \notin {Nothing, SaleShift} => Has(r, step.res, step.mode)

\* Every lock comes from a step that a running request has taken.
Origin ==
  \A l \in held :
    /\ phase[l.by] = "running" /\ l.res # Nothing
    /\ \E i \in DOMAIN Program[l.by] :
         /\ i < pc[l.by] /\ Program[l.by][i].mode = l.mode
         /\ Program[l.by][i].res \in {l.res, SaleShift}

LockInv == LockType /\ Exclusive /\ Holding /\ Origin

\* The step a request has reached.
LEMMA CurrentStep ==
  ASSUME NEW r \in Requests, pc[r] \in Nat, pc[r] \in DOMAIN Program[r], sale.shift \in Nat
  PROVE  LET step == Program[r][pc[r]] IN
         /\ step \in Steps
         /\ Current(r) \in [res: Tables \X Nat, mode: Modes, test: Tests, only: Branchings]
         /\ Current(r).res # Nothing => Current(r).mode = step.mode
         /\ Current(r).res # Nothing => Current(r).res = step.res \/ step.res = SaleShift
         /\ step.only = "always" => Current(r).mode = step.mode /\ Current(r).test = step.test
         /\ step.only = "always" /\ step.res # SaleShift => Current(r).res = step.res
  <1> DEFINE step == Program[r][pc[r]]
  <1>1. step \in Steps BY ProgramType
  <1>2. Test("none") \in Steps /\ Test("none").res = Nothing
    BY StepType DEF Test, Modes, Tests
  <1>3. ShiftRow(sale.shift) \in Tables \X Nat BY StepType
  <1>4. Current(r) = IF ~Applies(step.only) THEN Test("none")
                     ELSE [step EXCEPT !.res = IF @ = SaleShift THEN ShiftRow(sale.shift) ELSE @]
    BY DEF Current
  <1>5. Applies("always") BY DEF Applies
  <1> HIDE DEF step
  <1>6. CASE ~Applies(step.only)
    <2>1. Current(r) = Test("none") BY <1>4, <1>6
    <2>2. step.only # "always" BY <1>5, <1>6
    <2> QED BY <1>1, <1>2, <2>1, <2>2 DEF step, Steps
  <1>7. CASE Applies(step.only)
    <2> DEFINE x == IF step.res = SaleShift THEN ShiftRow(sale.shift) ELSE step.res
    <2>1. Current(r) = [step EXCEPT !.res = x] BY <1>4, <1>7
    <2>2. x \in Tables \X Nat /\ (step.res # SaleShift => x = step.res) BY <1>1, <1>3 DEF Steps
    <2> HIDE DEF x
    <2>3. /\ Current(r) \in Steps /\ Current(r).res = x /\ Current(r).mode = step.mode
          /\ Current(r).test = step.test
      BY <1>1, <2>1, <2>2 DEF Steps
    <2> QED BY <1>1, <2>2, <2>3 DEF step, Steps
  <1> QED BY <1>6, <1>7

\* A request that goes on locks what nobody else keeps from it.
LEMMA LocksOfStep ==
  ASSUME LockInv, sale.shift \in Nat, NEW r \in Requests, Step(r)
  PROVE  LockInv'
  <1>1. /\ phase[r] = "running" /\ pc[r] <= Len(Program[r]) /\ pc[r] \in Nat
        /\ phase' = phase /\ pc' = [pc EXCEPT ![r] = @ + 1]
    BY DEF Step, Ready, LockInv, LockType
  <1> DEFINE step == Program[r][pc[r]]
             now == Current(r)
             lock == [by |-> r, res |-> now.res, mode |-> now.mode]
  <1>2. held' = IF now.res = Nothing THEN held ELSE held \cup {lock} BY DEF Step
  <1>3. pc' \in [Requests -> Nat \ {0}] /\ pc'[r] = pc[r] + 1 /\ \A q \in Requests \ {r} : pc'[q] = pc[q]
    BY <1>1 DEF LockInv, LockType
  <1>4. held \subseteq held' BY <1>2
  <1>5. pc[r] \in DOMAIN Program[r] /\ Program[r] \in Seq(Steps) BY <1>1, ProgramType DEF LockInv, LockType
  <1>6. /\ step \in Steps
        /\ now \in [res: Tables \X Nat, mode: Modes, test: Tests, only: Branchings]
        /\ now.res # Nothing => now.mode = step.mode /\ (now.res = step.res \/ step.res = SaleShift)
        /\ step.only = "always" => now.mode = step.mode
        /\ step.only = "always" /\ step.res # SaleShift => now.res = step.res
    BY <1>1, <1>5, CurrentStep
  <1>7. \A l \in held : l.by # r /\ l.res = now.res => ~Conflict(l.mode, now.mode)
    BY DEF Step, Blocked, Blockers
  <1> HIDE DEF step, now
  <1>8. lock \in Locks /\ lock.by = r /\ lock.res = now.res /\ lock.mode = now.mode BY <1>6 DEF Locks
  <1> HIDE DEF lock
  <1>9. LockType' BY <1>1, <1>2, <1>3, <1>8 DEF LockInv, LockType
  <1>10. Exclusive'
    <2> SUFFICES ASSUME NEW l \in held', NEW m \in held', l.by # m.by, l.res = m.res PROVE ~Conflict(l.mode, m.mode)
      BY DEF Exclusive
    <2>1. CASE l \in held /\ m \in held BY <2>1 DEF LockInv, Exclusive
    <2>2. CASE l = lock /\ m \in held BY <1>7, <1>8, <2>2 DEF Conflict
    <2>3. CASE l \in held /\ m = lock BY <1>7, <1>8, <2>3
    <2> QED BY <1>2, <2>1, <2>2, <2>3
  <1>11. Holding'
    <2> SUFFICES ASSUME NEW q \in Requests, NEW i \in DOMAIN Program[q], i < pc'[q], Program[q][i].only = "always",
                        Program[q][i].res \notin {Nothing, SaleShift}
                 PROVE  [by |-> q, res |-> Program[q][i].res, mode |-> Program[q][i].mode] \in held'
      BY DEF Holding, Has
    <2>1. i \in Nat BY ProgramType
    <2>2. CASE i < pc[q] BY <1>4, <2>2 DEF LockInv, Holding, Has
    <2>3. CASE ~(i < pc[q])
      <3>1. q = r /\ i = pc[r] BY <1>1, <1>3, <2>1, <2>3 DEF LockInv, LockType
      <3>2. Program[q][i] = step BY <3>1 DEF step
      <3>3. now.res # Nothing /\ lock = [by |-> q, res |-> step.res, mode |-> step.mode] BY <1>6, <3>1, <3>2 DEF lock
      <3> QED BY <1>2, <3>2, <3>3
    <2> QED BY <2>2, <2>3
  <1>12. Origin'
    <2> SUFFICES ASSUME NEW l \in held'
                 PROVE  /\ phase[l.by] = "running" /\ l.res # Nothing
                        /\ \E i \in DOMAIN Program[l.by] :
                             /\ i < pc'[l.by] /\ Program[l.by][i].mode = l.mode
                             /\ Program[l.by][i].res \in {l.res, SaleShift}
      BY <1>1 DEF Origin
    <2>1. CASE l \in held
      <3>1. PICK i \in DOMAIN Program[l.by] : /\ i < pc[l.by] /\ Program[l.by][i].mode = l.mode
                                              /\ Program[l.by][i].res \in {l.res, SaleShift}
        BY <2>1 DEF LockInv, Origin
      <3>2. l.by \in Requests BY <2>1 DEF LockInv, LockType, Locks
      <3>3. i \in Nat /\ pc[l.by] \in Nat /\ pc'[l.by] \in Nat /\ pc'[l.by] >= pc[l.by]
        BY <1>1, <1>3, <3>2, ProgramType DEF LockInv, LockType
      <3>4. i < pc'[l.by] BY <3>1, <3>3
      <3> QED BY <2>1, <3>1, <3>4 DEF LockInv, Origin
    <2>2. CASE l = lock /\ now.res # Nothing
      <3>1. pc[r] < pc'[r] BY <1>1, <1>3
      <3>2. Program[r][pc[r]] = step BY DEF step
      <3> QED BY <1>1, <1>5, <1>6, <1>8, <2>2, <3>1, <3>2
    <2> QED BY <1>2, <2>1, <2>2
  <1> QED BY <1>9, <1>10, <1>11, <1>12 DEF LockInv

\* The end of a transaction frees its locks and no others.
LEMMA LocksOfEnd ==
  ASSUME LockInv, NEW r \in Requests, NEW how \in {"committed", "rolled_back"}, End(r, how)
  PROVE  LockInv'
  <1>1. /\ phase' = [phase EXCEPT ![r] = how] /\ pc' = [pc EXCEPT ![r] = 1]
        /\ held' = {l \in held : l.by # r}
    BY DEF End, Mine
  <1>2. /\ pc' \in [Requests -> Nat \ {0}] /\ pc'[r] = 1 /\ \A q \in Requests \ {r} : pc'[q] = pc[q]
        /\ phase' \in [Requests -> Phases] /\ phase'[r] = how /\ \A q \in Requests \ {r} : phase'[q] = phase[q]
    BY <1>1 DEF LockInv, LockType, Phases
  <1>3. LockType' BY <1>1, <1>2 DEF LockInv, LockType
  <1>4. Exclusive' BY <1>1 DEF LockInv, Exclusive
  <1>5. Holding'
    <2> SUFFICES ASSUME NEW q \in Requests, NEW i \in DOMAIN Program[q], i < pc'[q], Program[q][i].only = "always",
                        Program[q][i].res \notin {Nothing, SaleShift}
                 PROVE  [by |-> q, res |-> Program[q][i].res, mode |-> Program[q][i].mode] \in held'
      BY DEF Holding, Has
    <2>1. q # r BY <1>2, ProgramType
    <2>2. [by |-> q, res |-> Program[q][i].res, mode |-> Program[q][i].mode] \in held
      BY <1>2, <2>1 DEF LockInv, Holding, Has
    <2> QED BY <1>1, <2>1, <2>2
  <1>6. Origin'
    <2> SUFFICES ASSUME NEW l \in held' PROVE l.by \in Requests \ {r} /\ l \in held
      BY <1>2 DEF LockInv, Origin
    <2> QED BY <1>1 DEF LockInv, LockType, Locks
  <1> QED BY <1>3, <1>4, <1>5, <1>6 DEF LockInv

\* A request that is sent holds nothing yet.
LEMMA LocksOfStart ==
  ASSUME LockInv, NEW r \in Requests, Start(r)
  PROVE  LockInv'
  <1>1. phase' = [phase EXCEPT ![r] = "running"] /\ UNCHANGED <<pc, held>> BY DEF Start
  <1>2. phase' \in [Requests -> Phases] /\ phase'[r] = "running" /\ \A q \in Requests \ {r} : phase'[q] = phase[q]
    BY <1>1 DEF LockInv, LockType, Phases
  <1>3. LockType' /\ Exclusive' BY <1>1, <1>2 DEF LockInv, LockType, Exclusive
  <1>4. Holding' BY <1>1 DEF LockInv, Holding, Has
  <1>5. Origin'
    <2> SUFFICES ASSUME NEW l \in held PROVE phase'[l.by] = "running"
      BY <1>1 DEF LockInv, Origin
    <2>1. l.by \in Requests /\ phase[l.by] = "running" BY DEF LockInv, LockType, Locks, Origin
    <2> QED BY <1>2, <2>1
  <1> QED BY <1>3, <1>4, <1>5 DEF LockInv

-----------------------------------------------------------------------------
(* What a request has checked.                                              *)

\* Request r has made test t.
Passed(r, t) ==
  \E i \in DOMAIN Program[r] : i < pc[r] /\ Program[r][i].test = t /\ Program[r][i].only = "always"

\* The tests that a handler makes under a lock.
Watched(op, t) ==
  \/ t = "shiftOpen" /\ op \in {"sale", "return", "tab", "move", "close"}
  \/ t \in {"creditAvailable", "stockAvailable"} /\ op \in {"sale", "tab"}
  \/ t \in {"returnable", "unitLeft"} /\ op = "return"
  \/ t = "voidable" /\ op = "void"
  \/ t = "cancellable" /\ op = "cancel"
  \/ t = "tabOpen" /\ op = "tab"

\* What was checked under a lock still holds.
Checked == \A r \in Requests, t \in Tests : Watched(Body[r].op, t) /\ Passed(r, t) => Holds(t, r)

\* What a closing request has added up is still the drawer's content.
Summed ==
  \A r \in Requests :
    Body[r].op = "close" /\ Passed(r, "sum") => summed[r].till = shift[Body[r].shift].drawer.till

ShiftRows == [status: {"open", "closed"}, drawer: Drawer, expected: Drawer]

DataType ==
  /\ summed \in [Requests -> Drawer] /\ shift \in [Shifts -> ShiftRows]
  /\ owed \in Int /\ stock \in [Positions -> Int] /\ onLines \in [Positions -> Int]
  /\ sale \in SaleRow

\* A tab is held until it is completed.
TabHeld ==
  /\ sale.status = "held" => sale.dineIn
  /\ sale.dineIn => sale.status # "partially_paid"

CheckoutInv ==
  /\ LockInv /\ DataType /\ TabHeld /\ Checked /\ Summed
  /\ NoOversell /\ WithinCreditLimit /\ TillReconciles

\* The lock that guards a test is held once the test is made.
LEMMA LockedOnce ==
  ASSUME LockInv, NEW r \in Requests, NEW x, NEW t, Guard(x, Tested(t), Program[r]), Passed(r, t),
         x.only = "always", x.res \notin {Nothing, SaleShift}
  PROVE  Has(r, x.res, x.mode)
  <1>1. PICK i \in DOMAIN Program[r] : i < pc[r] /\ Program[r][i].test = t BY DEF Passed
  <1>2. Program[r] \in Seq(Steps) /\ pc[r] \in Nat BY ProgramType DEF LockInv, LockType
  <1>3. Program[r][i] \in Tested(t) BY <1>1, <1>2 DEF Tested
  <1>4. PICK j \in 1..i : Program[r][j] = x BY <1>3 DEF Guard
  <1>5. j \in DOMAIN Program[r] /\ j < pc[r] BY <1>1, <1>2
  <1> QED BY <1>4, <1>5 DEF LockInv, Holding

\* At its end a request holds all its locks and has made all its tests.
LEMMA LockedAtEnd ==
  ASSUME LockInv, NEW r \in Requests, pc[r] > Len(Program[r]), NEW x, Occurs(x, Program[r]), x.only = "always"
  PROVE  Passed(r, x.test) /\ (x.res \notin {Nothing, SaleShift} => Has(r, x.res, x.mode))
  <1>1. PICK i \in DOMAIN Program[r] : Program[r][i] = x BY DEF Occurs
  <1>2. Program[r] \in Seq(Steps) /\ pc[r] \in Nat BY ProgramType DEF LockInv, LockType
  <1>3. i < pc[r] BY <1>1, <1>2
  <1> QED BY <1>1, <1>3 DEF LockInv, Holding, Passed

\* What the locks are on. Rows have names of their own.
LEMMA LockFields ==
  /\ \A r : /\ ShiftLock(r).res = ShiftRow(Body[r].shift) /\ ShiftLock(r).mode = "N" /\ ShiftLock(r).test = "shiftOpen"
            /\ ShiftLock(r).only = "always" /\ ShiftLock(r).res \notin {Nothing, SaleShift}
            /\ CloseLock(r).res = ShiftRow(Body[r].shift) /\ CloseLock(r).mode = "U" /\ CloseLock(r).test = "shiftOpen"
            /\ CloseLock(r).only = "always" /\ CloseLock(r).res \notin {Nothing, SaleShift}
  /\ CreditLock.res = CustomerRow /\ CreditLock.mode = "U" /\ CreditLock.test = "creditAvailable"
  /\ CreditLock.only = "always" /\ CreditLock.res \notin {Nothing, SaleShift}
  /\ \A p : /\ PositionLock(p).res = Position(p) /\ PositionLock(p).mode = "U" /\ PositionLock(p).test = "none"
            /\ PositionLock(p).only = "always" /\ PositionLock(p).res \notin {Nothing, SaleShift}
            /\ LineLock(p).res = LineRow(p) /\ LineLock(p).mode = "U" /\ LineLock(p).test = "none"
            /\ LineLock(p).only = "always" /\ LineLock(p).res \notin {Nothing, SaleShift}
  /\ \A t : /\ SaleLock(t).res = TargetSale /\ SaleLock(t).mode = "U" /\ SaleLock(t).test = t
            /\ SaleLock(t).only = "always" /\ SaleLock(t).res \notin {Nothing, SaleShift}
            /\ Test(t).test = t /\ Test(t).only = "always"
  BY DEF ShiftLock, CloseLock, CreditLock, PositionLock, LineLock, SaleLock, Test, Lock, On,
         ShiftRow, CustomerRow, Position, LineRow, TargetSale, Nothing, SaleShift

\* The units a request asks for.
LEMMA DemandFacts ==
  ASSUME NEW r \in Requests, NEW p \in Positions
  PROVE  /\ Demand(r, p) \in Nat
         /\ Demand(r, p) > 0 => p \in Range(Demanded(r))
         /\ Body[r].op = "tab" => Demand(r, p) = 1
  <1> DEFINE D == {i \in DOMAIN Demanded(r) : Demanded(r)[i] = p}
  <1>1. Demanded(r) \in Seq(Positions) BY BodyType, AllLinesSorted DEF Demanded
  <1>2. DOMAIN Demanded(r) = 1..Len(Demanded(r)) /\ Len(Demanded(r)) \in Nat BY <1>1
  <1>3. IsFiniteSet(DOMAIN Demanded(r)) BY <1>2, FS_Interval
  <1>4. IsFiniteSet(D) /\ Cardinality(D) \in Nat BY <1>3, FS_Subset, FS_CardinalityType
  <1>5. Demand(r, p) = Cardinality(D) BY DEF Demand
  <1>6. Cardinality(D) > 0 => p \in Range(Demanded(r))
    <2>1. Cardinality(D) > 0 => D # {} BY FS_EmptySet
    <2> QED BY <2>1 DEF Range
  <1>7. ASSUME Body[r].op = "tab" PROVE Cardinality(D) = 1
    <2>1. Demanded(r) = AllLines BY <1>7 DEF Demanded
    <2>2. PICK k \in DOMAIN AllLines : \A i \in DOMAIN AllLines : AllLines[i] = p <=> i = k BY AllLinesOnce
    <2>3. D = {k} BY <2>1, <2>2
    <2> HIDE DEF D
    <2> QED BY <2>3, FS_Singleton
  <1> QED BY <1>4, <1>5, <1>6, <1>7

\* Which locks stand behind what a request has checked.
LEMMA LocksOfChecks ==
  ASSUME LockInv, NEW r \in Requests
  PROVE  /\ Watched(Body[r].op, "shiftOpen") /\ Passed(r, "shiftOpen")
              => Has(r, ShiftRow(Body[r].shift), "N") \/ Has(r, ShiftRow(Body[r].shift), "U")
         /\ Watched(Body[r].op, "creditAvailable") /\ Passed(r, "creditAvailable") => Has(r, CustomerRow, "U")
         /\ Watched(Body[r].op, "stockAvailable") /\ Passed(r, "stockAvailable")
              => \A p \in Range(Demanded(r)) : Has(r, Position(p), "U")
         /\ Body[r].op = "return" /\ (Passed(r, "returnable") \/ Passed(r, "unitLeft"))
              => Has(r, LineRow(Body[r].lines[1]), "U")
         /\ Body[r].op = "void" /\ Passed(r, "voidable")
              => Has(r, TargetSale, "U") /\ \A p \in Positions : Has(r, LineRow(p), "U")
         /\ Body[r].op = "cancel" /\ Passed(r, "cancellable")
              => Has(r, TargetSale, "U") /\ \A p \in Positions : Has(r, LineRow(p), "U")
         /\ Body[r].op = "tab" /\ Passed(r, "tabOpen") => Has(r, TargetSale, "U")
         /\ Body[r].op = "close" /\ Passed(r, "sum") => Has(r, ShiftRow(Body[r].shift), "U")
  <1>1. ASSUME Watched(Body[r].op, "shiftOpen"), Passed(r, "shiftOpen")
        PROVE  Has(r, ShiftRow(Body[r].shift), "N") \/ Has(r, ShiftRow(Body[r].shift), "U")
    <2>1. CASE Guard(ShiftLock(r), Tested("shiftOpen"), Program[r])
      BY <1>1, <2>1, LockedOnce, LockFields
    <2>2. CASE Guard(CloseLock(r), Tested("shiftOpen"), Program[r])
      BY <1>1, <2>2, LockedOnce, LockFields
    <2> QED BY <1>1, <2>1, <2>2, SaleFacts, ReturnFacts, TabFacts, MoveFacts, CloseFacts DEF Watched, Tests
  <1>2. ASSUME Watched(Body[r].op, "creditAvailable"), Passed(r, "creditAvailable") PROVE Has(r, CustomerRow, "U")
    <2>1. Guard(CreditLock, Tested("creditAvailable"), Program[r]) BY <1>2, SaleFacts, TabFacts DEF Watched
    <2> QED BY <1>2, <2>1, LockedOnce, LockFields
  <1>3. ASSUME Watched(Body[r].op, "stockAvailable"), Passed(r, "stockAvailable"), NEW p \in Range(Demanded(r))
        PROVE  Has(r, Position(p), "U")
    <2>1. CASE Body[r].op = "sale"
      <3>1. Guard(PositionLock(p), Tested("stockAvailable"), Program[r]) BY <2>1, SaleFacts DEF Demanded
      <3> QED BY <1>3, <3>1, LockedOnce, LockFields
    <2>2. CASE Body[r].op = "tab"
      <3>1. Guard(PositionLock(p), Tested("stockAvailable"), Program[r]) BY <2>2, TabFacts, AllLinesSorted DEF Demanded
      <3> QED BY <1>3, <3>1, LockedOnce, LockFields
    <2> QED BY <1>3, <2>1, <2>2 DEF Watched
  <1>4. ASSUME Body[r].op = "return", Passed(r, "returnable") \/ Passed(r, "unitLeft")
        PROVE  Has(r, LineRow(Body[r].lines[1]), "U")
    <2> DEFINE x == LineLock(Body[r].lines[1])
    <2>1. /\ Guard(x, Tested("returnable"), Program[r]) /\ Guard(x, Tested("unitLeft"), Program[r])
      BY <1>4, ReturnFacts
    <2>2. x.only = "always" /\ x.res \notin {Nothing, SaleShift} /\ x.res = LineRow(Body[r].lines[1]) /\ x.mode = "U"
      BY LockFields
    <2> HIDE DEF x
    <2> QED BY <1>4, <2>1, <2>2, LockedOnce
  <1>5. ASSUME NEW t \in {"voidable", "cancellable"}, Watched(Body[r].op, t), Passed(r, t)
        PROVE  Has(r, TargetSale, "U") /\ \A p \in Positions : Has(r, LineRow(p), "U")
    <2>1. Guard(SaleLock(t), Tested(t), Program[r]) BY <1>5, VoidFacts, CancelFacts DEF Watched
    <2>2. \A p \in Positions : Guard(LineLock(p), Tested(t), Program[r]) BY <1>5, VoidFacts, CancelFacts DEF Watched
    <2>3. Has(r, TargetSale, "U") BY <1>5, <2>1, LockedOnce, LockFields
    <2>4. ASSUME NEW p \in Positions PROVE Has(r, LineRow(p), "U") BY <1>5, <2>2, LockedOnce, LockFields
    <2> QED BY <2>3, <2>4
  <1>6. ASSUME Body[r].op = "tab", Passed(r, "tabOpen") PROVE Has(r, TargetSale, "U")
    BY <1>6, TabFacts, LockedOnce, LockFields
  <1>7. ASSUME Body[r].op = "close", Passed(r, "sum") PROVE Has(r, ShiftRow(Body[r].shift), "U")
    <2>1. Guard(CloseLock(r), Tested("sum"), Program[r]) BY <1>7, CloseFacts DEF Tests
    <2> QED BY <1>7, <2>1, LockedOnce, LockFields
  <1> QED BY <1>1, <1>2, <1>3, <1>4, <1>5, <1>6, <1>7 DEF Watched

\* Two requests never hold locks on a row that exclude each other.
LEMMA LocksExclude ==
  ASSUME LockInv, NEW r \in Requests, NEW q \in Requests, q # r, NEW res, NEW m, NEW n, Has(r, res, m), Has(q, res, n)
  PROVE  ~Conflict(m, n)
  BY DEF LockInv, Exclusive, Has

\* What the end of request r changes, it has locked.
Effect(r) ==
  /\ \A s \in Shifts : shift'[s].status # shift[s].status => Has(r, ShiftRow(s), "U")
  /\ \A s \in Shifts : shift'[s].drawer.till # shift[s].drawer.till =>
       /\ shift[s].status = "open"
       /\ Has(r, ShiftRow(s), "N") \/ Has(r, ShiftRow(s), "U")
  /\ owed' > owed => Has(r, CustomerRow, "U")
  /\ \A p \in Positions : stock'[p] < stock[p] => Has(r, Position(p), "U")
  /\ \A p \in Positions : sale'.returned[p] # sale.returned[p] => Has(r, LineRow(p), "U")
  /\ sale'.status # sale.status =>
       /\ Has(r, TargetSale, "U")
       /\ sale.status \in {"partially_paid", "completed"} => \A p \in Positions : Has(r, LineRow(p), "U")
  /\ sale'.dineIn = sale.dineIn

\* When a request ends, what the others have checked still holds.
LEMMA ChecksKept ==
  ASSUME LockInv, DataType, Checked, Summed, DataType', NEW r \in Requests, NEW how, End(r, how), Effect(r)
  PROVE  Checked' /\ Summed'
  <1>1. pc' = [pc EXCEPT ![r] = 1] /\ summed' = [summed EXCEPT ![r] = NoDrawer] BY DEF End
  <1>2. \A q \in Requests : \A t : Passed(q, t)' => q # r /\ Passed(q, t)
    <2> SUFFICES ASSUME NEW q \in Requests, NEW t, Passed(q, t)' PROVE q # r /\ Passed(q, t) OBVIOUS
    <2>1. PICK i \in DOMAIN Program[q] : i < pc'[q] /\ Program[q][i].test = t /\ Program[q][i].only = "always"
      BY DEF Passed
    <2>2. i \in Nat \ {0} /\ pc \in [Requests -> Nat \ {0}] BY ProgramType DEF LockInv, LockType
    <2>3. q # r /\ pc'[q] = pc[q] BY <1>1, <2>1, <2>2
    <2> QED BY <2>1, <2>3 DEF Passed
  <1>3. ASSUME NEW q \in Requests, q # r, NEW t \in Tests, Watched(Body[q].op, t), Passed(q, t)
        PROVE  Holds(t, q)'
    <2>0. Holds(t, q) BY <1>3 DEF Checked
    <2>b. Body[q].shift \in Shifts BY BodyType
    <2>1. CASE t = "shiftOpen"
      <3>1. Has(q, ShiftRow(Body[q].shift), "N") \/ Has(q, ShiftRow(Body[q].shift), "U")
        BY <1>3, <2>1, LocksOfChecks
      <3>2. ~Has(r, ShiftRow(Body[q].shift), "U")
        BY <1>3, <3>1, LocksExclude DEF Conflict
      <3>3. shift'[Body[q].shift].status = shift[Body[q].shift].status BY <2>b, <3>2 DEF Effect
      <3> QED BY <2>0, <2>1, <3>3 DEF Holds
    <2>2. CASE t = "creditAvailable"
      <3>1. Has(q, CustomerRow, "U") BY <1>3, <2>2, LocksOfChecks
      <3>2. ~Has(r, CustomerRow, "U") BY <1>3, <3>1, LocksExclude DEF Conflict
      <3>3. owed' <= owed /\ owed \in Int /\ owed' \in Int BY <3>2 DEF Effect, DataType
      <3>4. Body[q].credit \in Nat /\ CreditLimit \in Nat BY BodyType, CheckoutAssumption
      <3>5. CreditLimit = 0 \/ owed + Body[q].credit <= CreditLimit BY <2>0, <2>2 DEF Holds
      <3>6. CreditLimit = 0 \/ owed' + Body[q].credit <= CreditLimit BY <3>3, <3>4, <3>5
      <3> QED BY <2>2, <3>6 DEF Holds
    <2>3. CASE t = "stockAvailable"
      <3>1. StockAvailable(q) BY <2>0, <2>3 DEF Holds
      <3>2. ASSUME NEW p \in Positions PROVE Demand(q, p) = 0 \/ stock'[p] >= Demand(q, p)
        <4>1. Demand(q, p) \in Nat /\ (Demand(q, p) > 0 => p \in Range(Demanded(q))) BY DemandFacts
        <4>2. CASE Demand(q, p) > 0
          <5>1. Has(q, Position(p), "U") BY <1>3, <2>3, <4>1, <4>2, LocksOfChecks
          <5>2. ~Has(r, Position(p), "U") BY <1>3, <5>1, LocksExclude DEF Conflict
          <5>3. stock'[p] >= stock[p] BY <5>2 DEF Effect, DataType
          <5>4. stock[p] \in Int /\ stock'[p] \in Int BY DEF DataType
          <5> QED BY <3>1, <4>1, <4>2, <5>3, <5>4 DEF StockAvailable
        <4> QED BY <4>1, <4>2
      <3> QED BY <2>3, <3>2 DEF Holds, StockAvailable, Demand, Demanded
    <2>4. CASE t = "returnable"
      <3>0. Body[q].op = "return" /\ Body[q].lines[1] \in Positions BY <1>3, <2>4, ReturnedLine DEF Watched
      <3>1. Has(q, LineRow(Body[q].lines[1]), "U") BY <1>3, <2>4, <3>0, LocksOfChecks
      <3>2. ~Has(r, LineRow(Body[q].lines[1]), "U") BY <1>3, <3>1, LocksExclude DEF Conflict
      <3>3. sale.status \in {"partially_paid", "completed"} BY <2>0, <2>4 DEF Holds
      <3>4. sale'.status = sale.status BY <3>0, <3>2, <3>3 DEF Effect
      <3> QED BY <2>4, <3>3, <3>4 DEF Holds
    <2>5. CASE t = "unitLeft"
      <3>0. Body[q].op = "return" /\ Body[q].lines[1] \in Positions BY <1>3, <2>5, ReturnedLine DEF Watched
      <3>1. Has(q, LineRow(Body[q].lines[1]), "U") BY <1>3, <2>5, <3>0, LocksOfChecks
      <3>2. ~Has(r, LineRow(Body[q].lines[1]), "U") BY <1>3, <3>1, LocksExclude DEF Conflict
      <3>3. sale'.returned[Body[q].lines[1]] = sale.returned[Body[q].lines[1]] BY <3>0, <3>2 DEF Effect
      <3> QED BY <2>0, <2>5, <3>3 DEF Holds
    <2>6. CASE t \in {"voidable", "cancellable"}
      <3>1. Has(q, TargetSale, "U") /\ \A p \in Positions : Has(q, LineRow(p), "U")
        BY <1>3, <2>6, LocksOfChecks DEF Watched
      <3>2. ~Has(r, TargetSale, "U") /\ \A p \in Positions : ~Has(r, LineRow(p), "U")
        BY <1>3, <3>1, LocksExclude DEF Conflict
      <3>3. sale'.status = sale.status /\ \A p \in Positions : sale'.returned[p] = sale.returned[p]
        BY <3>2 DEF Effect
      <3> QED BY <2>0, <2>6, <3>3 DEF Holds
    <2>7. CASE t = "tabOpen"
      <3>1. Has(q, TargetSale, "U") BY <1>3, <2>7, LocksOfChecks DEF Watched
      <3>2. ~Has(r, TargetSale, "U") BY <1>3, <3>1, LocksExclude DEF Conflict
      <3>3. sale'.status = sale.status /\ sale'.dineIn = sale.dineIn BY <3>2 DEF Effect
      <3> QED BY <2>0, <2>7, <3>3 DEF Holds
    <2> QED BY <1>3, <2>1, <2>2, <2>3, <2>4, <2>5, <2>6, <2>7 DEF Watched
  <1>4. Checked' BY <1>2, <1>3 DEF Checked
  <1>5. Summed'
    <2> SUFFICES ASSUME NEW q \in Requests, q # r, Body[q].op = "close", Passed(q, "sum")
                 PROVE  summed'[q].till = shift'[Body[q].shift].drawer.till
      BY <1>2 DEF Summed
    <2>1. Has(q, ShiftRow(Body[q].shift), "U") BY LocksOfChecks
    <2>2. ~Has(r, ShiftRow(Body[q].shift), "U") /\ ~Has(r, ShiftRow(Body[q].shift), "N")
      BY <2>1, LocksExclude DEF Conflict
    <2>3. shift'[Body[q].shift].drawer.till = shift[Body[q].shift].drawer.till BY <2>2, BodyType DEF Effect
    <2>4. summed'[q] = summed[q] BY <1>1 DEF DataType
    <2> QED BY <2>3, <2>4 DEF Summed
  <1> QED BY <1>4, <1>5

\* A request that takes a step has checked what it tests.
LEMMA ChecksOfStep ==
  ASSUME CheckoutInv, NEW r \in Requests, Step(r)
  PROVE  CheckoutInv'
  <1>1. /\ phase[r] = "running" /\ pc[r] <= Len(Program[r]) /\ UNCHANGED <<shift, owed, stock, sale, onLines>>
        /\ pc' = [pc EXCEPT ![r] = @ + 1] /\ Holds(Current(r).test, r)
        /\ summed' = IF Current(r).test = "sum" THEN [summed EXCEPT ![r] = shift[Body[r].shift].drawer] ELSE summed
    BY DEF Step, Ready, db
  <1>2. sale.shift \in Nat BY CheckoutAssumption DEF CheckoutInv, DataType, SaleRow
  <1>3. LockInv' BY <1>2, LocksOfStep DEF CheckoutInv
  <1>4. pc[r] \in DOMAIN Program[r] /\ pc[r] \in Nat BY <1>1, ProgramType DEF CheckoutInv, LockInv, LockType
  <1>5. Program[r][pc[r]].only = "always" => Current(r).test = Program[r][pc[r]].test BY <1>2, <1>4, CurrentStep
  <1>6. DataType'
    <2>1. shift[Body[r].shift].drawer \in Drawer BY BodyType DEF CheckoutInv, DataType, ShiftRows
    <2>2. summed' \in [Requests -> Drawer] BY <1>1, <2>1 DEF CheckoutInv, DataType
    <2> QED BY <1>1, <2>2 DEF CheckoutInv, DataType
  <1>7. ASSUME NEW q \in Requests, NEW t, Passed(q, t)', ~Passed(q, t)
        PROVE  q = r /\ Current(r).test = t
    <2>1. PICK i \in DOMAIN Program[q] : i < pc'[q] /\ Program[q][i].test = t /\ Program[q][i].only = "always"
      BY <1>7 DEF Passed
    <2>2. ~(i < pc[q]) /\ i \in Nat /\ pc \in [Requests -> Nat \ {0}]
      BY <1>7, <2>1, ProgramType DEF Passed, CheckoutInv, LockInv, LockType
    <2>3. q = r /\ i = pc[r] BY <1>1, <2>1, <2>2
    <2> QED BY <1>5, <2>1, <2>3
  <1>8. \A q \in Requests : \A t : Holds(t, q) => Holds(t, q)'
    BY <1>1, ZenonT(60) DEF Holds, StockAvailable, Demand, Demanded
  <1>9. Checked' BY <1>1, <1>7, <1>8 DEF Checked, CheckoutInv
  <1>10. Summed'
    <2> SUFFICES ASSUME NEW q \in Requests, Body[q].op = "close", Passed(q, "sum")'
                 PROVE  summed'[q].till = shift[Body[q].shift].drawer.till
      BY <1>1 DEF Summed
    <2>1. CASE Current(r).test = "sum" /\ q = r BY <1>1, <2>1 DEF CheckoutInv, DataType
    <2>2. CASE ~(Current(r).test = "sum" /\ q = r)
      <3>1. Passed(q, "sum") /\ summed'[q] = summed[q] BY <1>1, <1>7, <2>2 DEF CheckoutInv, DataType
      <3> QED BY <3>1 DEF CheckoutInv, Summed
    <2> QED BY <2>1, <2>2
  <1>11. (TabHeld /\ NoOversell /\ WithinCreditLimit /\ TillReconciles)'
    BY <1>1 DEF CheckoutInv, TabHeld, NoOversell, WithinCreditLimit, TillReconciles
  <1> QED BY <1>3, <1>6, <1>9, <1>10, <1>11 DEF CheckoutInv

-----------------------------------------------------------------------------
(* The end of a request.                                                    *)

\* What a request that ends owes the invariant.
LEMMA EndKeeps ==
  ASSUME CheckoutInv, NEW r \in Requests, NEW how \in {"committed", "rolled_back"}, End(r, how), Effect(r),
         DataType', (TabHeld /\ NoOversell /\ WithinCreditLimit /\ TillReconciles)'
  PROVE  CheckoutInv'
  <1>1. LockInv' BY LocksOfEnd DEF CheckoutInv
  <1>2. Checked' /\ Summed' BY ChecksKept DEF CheckoutInv
  <1> QED BY <1>1, <1>2 DEF CheckoutInv

\* A rollback changes nothing but the locks.
LEMMA RollbackKeeps ==
  ASSUME CheckoutInv, NEW r \in Requests, End(r, "rolled_back"), UNCHANGED db
  PROVE  CheckoutInv'
  <1>1. UNCHANGED <<shift, owed, stock, sale, onLines>> BY DEF db
  <1>2. Effect(r) BY <1>1 DEF Effect, CheckoutInv, DataType
  <1>3. DataType' BY <1>1 DEF End, CheckoutInv, DataType, NoDrawer, Drawer
  <1>4. (TabHeld /\ NoOversell /\ WithinCreditLimit /\ TillReconciles)'
    BY <1>1 DEF CheckoutInv, TabHeld, NoOversell, WithinCreditLimit, TillReconciles
  <1> QED BY <1>2, <1>3, <1>4, EndKeeps

\* A posting moves one side of one drawer.
LEMMA PostMoves ==
  ASSUME DataType, NEW s \in Shifts, NEW part \in {"till", "other"}, NEW n \in Int, Post(s, part, n)
  PROVE  /\ shift' \in [Shifts -> ShiftRows]
         /\ \A u \in Shifts : /\ shift'[u].status = shift[u].status /\ shift'[u].expected = shift[u].expected
                              /\ u # s \/ part = "other" => shift'[u].drawer.till = shift[u].drawer.till
  <1>1. shift[s] \in ShiftRows /\ shift[s].drawer \in Drawer BY DEF DataType, ShiftRows
  <1> DEFINE d == [shift[s].drawer EXCEPT ![part] = @ + n]
             row == [shift[s] EXCEPT !.drawer = d]
  <1>2. d \in Drawer
    <2>1. CASE part = "till" BY <1>1, <2>1 DEF Drawer
    <2>2. CASE part = "other" BY <1>1, <2>2 DEF Drawer
    <2> QED BY <2>1, <2>2
  <1>3. part = "other" => d.till = shift[s].drawer.till BY <1>1 DEF Drawer
  <1>4. shift' = [shift EXCEPT ![s] = row] BY DEF Post
  <1> HIDE DEF d
  <1>5. /\ row \in ShiftRows /\ row.status = shift[s].status /\ row.expected = shift[s].expected /\ row.drawer = d
    BY <1>1, <1>2 DEF ShiftRows
  <1> HIDE DEF row
  <1> QED BY <1>3, <1>4, <1>5 DEF DataType

\* What a request that commits has locked and checked.
LEMMA AtCommit ==
  ASSUME CheckoutInv, NEW r \in Requests, pc[r] > Len(Program[r])
  PROVE  /\ Body[r].op \in {"sale", "return", "tab", "move"} =>
              Has(r, ShiftRow(Body[r].shift), "N") /\ shift[Body[r].shift].status = "open"
         /\ Body[r].op \in {"sale", "tab"} /\ Body[r].credit > 0 =>
              Has(r, CustomerRow, "U") /\ (CreditLimit = 0 \/ owed + Body[r].credit <= CreditLimit)
         /\ Body[r].op \in {"sale", "tab"} =>
              StockAvailable(r) /\ \A p \in Positions : Demand(r, p) > 0 => Has(r, Position(p), "U")
         /\ Body[r].op = "return" =>
              /\ Has(r, LineRow(Body[r].lines[1]), "U")
              /\ sale.status \in {"partially_paid", "completed"} /\ sale.returned[Body[r].lines[1]] = 0
         /\ Body[r].op = "void" =>
              /\ Has(r, TargetSale, "U") /\ \A p \in Positions : Has(r, LineRow(p), "U")
              /\ sale.status = "completed" /\ \A p \in Positions : sale.returned[p] = 0
         /\ Body[r].op = "cancel" =>
              /\ Has(r, TargetSale, "U") /\ \A p \in Positions : Has(r, LineRow(p), "U")
              /\ sale.status \notin {"completed", "voided"} /\ \A p \in Positions : sale.returned[p] = 0
         /\ Body[r].op = "tab" =>
              Has(r, TargetSale, "U") /\ sale.dineIn /\ sale.status \in {"held", "partially_paid"}
         /\ Body[r].op = "close" =>
              /\ Has(r, ShiftRow(Body[r].shift), "U") /\ shift[Body[r].shift].status = "open"
              /\ summed[r].till = shift[Body[r].shift].drawer.till
  <1>1. LockInv /\ Checked /\ Summed BY DEF CheckoutInv
  <1>2. ASSUME Body[r].op \in {"sale", "return", "tab", "move"}
        PROVE  Has(r, ShiftRow(Body[r].shift), "N") /\ shift[Body[r].shift].status = "open"
    <2>1. Occurs(ShiftLock(r), Program[r]) BY <1>2, SaleFacts, ReturnFacts, TabFacts, MoveFacts
    <2>2. Passed(r, "shiftOpen") /\ Has(r, ShiftRow(Body[r].shift), "N") BY <1>1, <2>1, LockedAtEnd, LockFields
    <2>3. Holds("shiftOpen", r) BY <1>1, <1>2, <2>2 DEF Checked, Watched, Tests
    <2> QED BY <2>2, <2>3 DEF Holds
  <1>3. ASSUME Body[r].op \in {"sale", "tab"}, Body[r].credit > 0
        PROVE  Has(r, CustomerRow, "U") /\ (CreditLimit = 0 \/ owed + Body[r].credit <= CreditLimit)
    <2>1. Occurs(CreditLock, Program[r]) BY <1>3, SaleFacts, TabFacts
    <2>2. Passed(r, "creditAvailable") /\ Has(r, CustomerRow, "U") BY <1>1, <2>1, LockedAtEnd, LockFields
    <2>3. Holds("creditAvailable", r) BY <1>1, <1>3, <2>2 DEF Checked, Watched, Tests
    <2> QED BY <2>2, <2>3 DEF Holds
  <1>4. ASSUME Body[r].op \in {"sale", "tab"}
        PROVE  StockAvailable(r) /\ \A p \in Positions : Demand(r, p) > 0 => Has(r, Position(p), "U")
    <2>1. Occurs(Test("stockAvailable"), Program[r]) BY <1>4, SaleFacts, TabFacts
    <2>2. Passed(r, "stockAvailable") BY <1>1, <2>1, LockedAtEnd, LockFields
    <2>3. Watched(Body[r].op, "stockAvailable") BY <1>4 DEF Watched
    <2>4. Holds("stockAvailable", r) BY <1>1, <2>2, <2>3 DEF Checked, Tests
    <2>5. \A p \in Range(Demanded(r)) : Has(r, Position(p), "U") BY <1>1, <2>2, <2>3, LocksOfChecks
    <2> QED BY <2>4, <2>5, DemandFacts DEF Holds
  <1>5. ASSUME Body[r].op = "return"
        PROVE  /\ Has(r, LineRow(Body[r].lines[1]), "U")
               /\ sale.status \in {"partially_paid", "completed"} /\ sale.returned[Body[r].lines[1]] = 0
    <2>1. Passed(r, "returnable") /\ Passed(r, "unitLeft") BY <1>1, <1>5, ReturnFacts, LockedAtEnd, LockFields
    <2>2. Holds("returnable", r) /\ Holds("unitLeft", r) BY <1>1, <1>5, <2>1 DEF Checked, Watched, Tests
    <2>3. Has(r, LineRow(Body[r].lines[1]), "U") BY <1>1, <1>5, <2>1, LocksOfChecks
    <2> QED BY <2>2, <2>3 DEF Holds
  <1>6. ASSUME Body[r].op = "void"
        PROVE  /\ Has(r, TargetSale, "U") /\ \A p \in Positions : Has(r, LineRow(p), "U")
               /\ sale.status = "completed" /\ \A p \in Positions : sale.returned[p] = 0
    <2>1. Passed(r, "voidable") BY <1>1, <1>6, VoidFacts, LockedAtEnd, LockFields
    <2>2. Holds("voidable", r) BY <1>1, <1>6, <2>1 DEF Checked, Watched, Tests
    <2>3. Has(r, TargetSale, "U") /\ \A p \in Positions : Has(r, LineRow(p), "U") BY <1>1, <1>6, <2>1, LocksOfChecks
    <2> QED BY <2>2, <2>3 DEF Holds
  <1>7. ASSUME Body[r].op = "cancel"
        PROVE  /\ Has(r, TargetSale, "U") /\ \A p \in Positions : Has(r, LineRow(p), "U")
               /\ sale.status \notin {"completed", "voided"} /\ \A p \in Positions : sale.returned[p] = 0
    <2>1. Passed(r, "cancellable") BY <1>1, <1>7, CancelFacts, LockedAtEnd, LockFields
    <2>2. Holds("cancellable", r) BY <1>1, <1>7, <2>1 DEF Checked, Watched, Tests
    <2>3. Has(r, TargetSale, "U") /\ \A p \in Positions : Has(r, LineRow(p), "U") BY <1>1, <1>7, <2>1, LocksOfChecks
    <2> QED BY <2>2, <2>3 DEF Holds
  <1>8. ASSUME Body[r].op = "tab"
        PROVE  Has(r, TargetSale, "U") /\ sale.dineIn /\ sale.status \in {"held", "partially_paid"}
    <2>1. Passed(r, "tabOpen") BY <1>1, <1>8, TabFacts, LockedAtEnd, LockFields
    <2>2. Holds("tabOpen", r) BY <1>1, <1>8, <2>1 DEF Checked, Watched, Tests
    <2>3. Has(r, TargetSale, "U") BY <1>1, <1>8, <2>1, LocksOfChecks
    <2> QED BY <2>2, <2>3 DEF Holds
  <1>9. ASSUME Body[r].op = "close"
        PROVE  /\ Has(r, ShiftRow(Body[r].shift), "U") /\ shift[Body[r].shift].status = "open"
               /\ summed[r].till = shift[Body[r].shift].drawer.till
    <2>1. Passed(r, "shiftOpen") /\ Passed(r, "sum") BY <1>1, <1>9, CloseFacts, LockedAtEnd, LockFields
    <2>2. Holds("shiftOpen", r) BY <1>1, <1>9, <2>1 DEF Checked, Watched, Tests
    <2>3. Has(r, ShiftRow(Body[r].shift), "U") BY <1>1, <1>9, <2>1, LocksOfChecks
    <2> QED BY <1>1, <1>9, <2>1, <2>2, <2>3 DEF Holds, Summed
  <1> QED BY <1>2, <1>3, <1>4, <1>5, <1>6, <1>7, <1>8, <1>9

\* The commits, one by one: what each writes, it has locked, and what it has
\* checked keeps the balances within their limits.  A sale takes what it has
\* checked is there.
LEMMA CommitSaleKeeps == ASSUME CheckoutInv, NEW r \in Requests, CommitSale(r) PROVE CheckoutInv'
  <1>1. /\ Body[r].op = "sale" /\ pc[r] > Len(Program[r]) /\ End(r, "committed")
        /\ stock' = [p \in Positions |-> stock[p] - Demand(r, p)] /\ owed' = owed + Body[r].credit
        /\ Post(Body[r].shift, "till", Body[r].cash) /\ sale' = sale /\ onLines' = onLines
    BY DEF CommitSale, Commits
  <1>2. Body[r].shift \in Shifts /\ Body[r].cash \in Int /\ Body[r].credit \in Nat BY BodyType
  <1>3. DataType BY DEF CheckoutInv
  <1>4. \A p \in Positions : Demand(r, p) \in Nat BY DemandFacts
  <1>5. /\ shift' \in [Shifts -> ShiftRows]
        /\ \A u \in Shifts : /\ shift'[u].status = shift[u].status /\ shift'[u].expected = shift[u].expected
                             /\ u # Body[r].shift => shift'[u].drawer.till = shift[u].drawer.till
    BY <1>1, <1>2, <1>3, PostMoves
  <1>6. DataType'
    <2>1. summed' \in [Requests -> Drawer] BY <1>1, <1>3 DEF End, DataType, NoDrawer, Drawer
    <2>2. stock' \in [Positions -> Int] /\ owed' \in Int BY <1>1, <1>2, <1>3, <1>4 DEF DataType
    <2> QED BY <1>1, <1>3, <1>5, <2>1, <2>2 DEF DataType
  <1>7. /\ Has(r, ShiftRow(Body[r].shift), "N") /\ shift[Body[r].shift].status = "open"
        /\ Body[r].credit > 0 => Has(r, CustomerRow, "U") /\ (CreditLimit = 0 \/ owed + Body[r].credit <= CreditLimit)
        /\ StockAvailable(r) /\ \A p \in Positions : Demand(r, p) > 0 => Has(r, Position(p), "U")
    BY <1>1, AtCommit
  <1>8. Effect(r)
    <2>1. owed' > owed => Has(r, CustomerRow, "U") BY <1>1, <1>2, <1>3, <1>7 DEF DataType
    <2>2. \A p \in Positions : stock'[p] < stock[p] => Has(r, Position(p), "U") BY <1>1, <1>3, <1>4, <1>7 DEF DataType
    <2> QED BY <1>1, <1>5, <1>7, <2>1, <2>2 DEF Effect
  <1>9. NoOversell'
    <2> SUFFICES ASSUME NEW p \in Positions PROVE stock[p] - Demand(r, p) >= 0 BY <1>1 DEF NoOversell
    <2> QED BY <1>3, <1>4, <1>7 DEF StockAvailable, CheckoutInv, NoOversell, DataType
  <1>10. WithinCreditLimit' BY <1>1, <1>2, <1>3, <1>7, CheckoutAssumption DEF CheckoutInv, WithinCreditLimit, DataType
  <1>11. TillReconciles' BY <1>5, <1>7 DEF CheckoutInv, TillReconciles
  <1>12. TabHeld' BY <1>1 DEF CheckoutInv, TabHeld
  <1> QED BY <1>1, <1>6, <1>8, <1>9, <1>10, <1>11, <1>12, EndKeeps

\* A return gives one unit of one line back.
LEMMA CommitReturnKeeps == ASSUME CheckoutInv, NEW r \in Requests, CommitReturn(r) PROVE CheckoutInv'
  <1> DEFINE p == Body[r].lines[1]
  <1>1. /\ Body[r].op = "return" /\ pc[r] > Len(Program[r]) /\ End(r, "committed")
        /\ stock' = [stock EXCEPT ![p] = @ + 1] /\ onLines' = [onLines EXCEPT ![p] = @ - 1]
        /\ sale' = [sale EXCEPT !.returned[p] = @ + 1] /\ owed' = owed - Body[r].credit
        /\ Post(Body[r].shift, "till", -Body[r].cash)
    BY DEF CommitReturn, Commits
  <1>2. Body[r].shift \in Shifts /\ -Body[r].cash \in Int /\ Body[r].credit \in Nat BY BodyType
  <1>3. DataType BY DEF CheckoutInv
  <1>4. p \in Positions BY <1>1, ReturnedLine
  <1>5. /\ shift' \in [Shifts -> ShiftRows]
        /\ \A u \in Shifts : /\ shift'[u].status = shift[u].status /\ shift'[u].expected = shift[u].expected
                             /\ u # Body[r].shift => shift'[u].drawer.till = shift[u].drawer.till
    BY <1>1, <1>2, <1>3, PostMoves
  <1>7. /\ Has(r, ShiftRow(Body[r].shift), "N") /\ shift[Body[r].shift].status = "open"
        /\ Has(r, LineRow(p), "U") /\ sale.returned[p] = 0
    BY <1>1, AtCommit
  <1> HIDE DEF p
  <1>a. /\ sale' \in SaleRow /\ sale'.status = sale.status /\ sale'.dineIn = sale.dineIn
        /\ \A q \in Positions \ {p} : sale'.returned[q] = sale.returned[q]
    <2> DEFINE back == [sale.returned EXCEPT ![p] = @ + 1]
    <2>1. sale \in SaleRow /\ sale.returned \in [Positions -> 0..1] BY <1>3 DEF DataType, SaleRow
    <2>2. back \in [Positions -> 0..1] /\ \A q \in Positions \ {p} : back[q] = sale.returned[q] BY <1>4, <1>7, <2>1
    <2>3. sale' = [sale EXCEPT !.returned = back] BY <1>1
    <2> HIDE DEF back
    <2> QED BY <2>1, <2>2, <2>3 DEF SaleRow
  <1>6. DataType'
    <2>1. summed' \in [Requests -> Drawer] BY <1>1, <1>3 DEF End, DataType, NoDrawer, Drawer
    <2>2. stock' \in [Positions -> Int] BY <1>1, <1>3, <1>4 DEF DataType
    <2>3. onLines' \in [Positions -> Int] BY <1>1, <1>3, <1>4 DEF DataType
    <2>4. owed' \in Int BY <1>1, <1>2, <1>3 DEF DataType
    <2> QED BY <1>3, <1>5, <1>a, <2>1, <2>2, <2>3, <2>4 DEF DataType
  <1>b. owed' <= owed /\ \A q \in Positions : stock'[q] >= stock[q] BY <1>1, <1>2, <1>3 DEF DataType
  <1>8. Effect(r)
    <2>1. ~(owed' > owed) /\ \A q \in Positions : ~(stock'[q] < stock[q]) BY <1>3, <1>6, <1>b DEF DataType
    <2> QED BY <1>5, <1>7, <1>a, <2>1 DEF Effect
  <1>9. NoOversell' BY <1>3, <1>6, <1>b DEF CheckoutInv, NoOversell, DataType
  <1>10. WithinCreditLimit' BY <1>3, <1>6, <1>b, CheckoutAssumption DEF CheckoutInv, WithinCreditLimit, DataType
  <1>11. TillReconciles' BY <1>5, <1>7 DEF CheckoutInv, TillReconciles
  <1>12. TabHeld' BY <1>a DEF CheckoutInv, TabHeld
  <1> QED BY <1>1, <1>6, <1>8, <1>9, <1>10, <1>11, <1>12, EndKeeps

\* What a void and a cancel write.
LEMMA ReversalKeeps ==
  ASSUME CheckoutInv, NEW r \in Requests, pc[r] > Len(Program[r]), End(r, "committed"),
         Body[r].op \in {"void", "cancel"},
         NEW status \in {"voided", "cancelled"}, sale' = [sale EXCEPT !.status = status],
         PutBack \/ UNCHANGED <<stock, onLines>>,
         owed' = owed - sale.credit, Post(sale.shift, "other", -sale.cash)
  PROVE  CheckoutInv'
  <1>1. DataType BY DEF CheckoutInv
  <1>2. sale \in SaleRow /\ sale.shift \in Shifts /\ -sale.cash \in Int /\ sale.credit \in Nat BY <1>1 DEF DataType, SaleRow
  <1>3. /\ sale' \in SaleRow /\ sale'.status = status /\ sale'.dineIn = sale.dineIn /\ sale'.returned = sale.returned
    BY <1>2 DEF SaleRow
  <1>4. /\ shift' \in [Shifts -> ShiftRows]
        /\ \A u \in Shifts : /\ shift'[u].status = shift[u].status /\ shift'[u].expected = shift[u].expected
                             /\ shift'[u].drawer.till = shift[u].drawer.till
    BY <1>1, <1>2, PostMoves
  <1>5. /\ stock' \in [Positions -> Int] /\ onLines' \in [Positions -> Int]
        /\ \A p \in Positions : stock'[p] >= stock[p]
    BY <1>1 DEF PutBack, DataType
  <1>6. owed' \in Int /\ owed' <= owed BY <1>1, <1>2 DEF DataType
  <1>7. Has(r, TargetSale, "U") /\ \A p \in Positions : Has(r, LineRow(p), "U") BY AtCommit
  <1>8. DataType'
    <2>1. summed' \in [Requests -> Drawer] BY <1>1 DEF End, DataType, NoDrawer, Drawer
    <2> QED BY <1>3, <1>4, <1>5, <1>6, <2>1 DEF DataType
  <1>9. Effect(r)
    <2>1. ~(owed' > owed) /\ \A q \in Positions : ~(stock'[q] < stock[q]) BY <1>1, <1>5, <1>6 DEF DataType
    <2> QED BY <1>3, <1>4, <1>7, <2>1 DEF Effect
  <1>10. NoOversell' BY <1>1, <1>5 DEF CheckoutInv, NoOversell, DataType
  <1>11. WithinCreditLimit' BY <1>1, <1>6, CheckoutAssumption DEF CheckoutInv, WithinCreditLimit, DataType
  <1>12. TillReconciles' BY <1>4 DEF CheckoutInv, TillReconciles
  <1>13. TabHeld' BY <1>3 DEF TabHeld
  <1> QED BY <1>8, <1>9, <1>10, <1>11, <1>12, <1>13, EndKeeps

\* A tab takes its units when it is completed.
LEMMA CommitTabKeeps == ASSUME CheckoutInv, NEW r \in Requests, CommitTab(r) PROVE CheckoutInv'
  <1>1. /\ Body[r].op = "tab" /\ pc[r] > Len(Program[r]) /\ End(r, "committed")
        /\ stock' = [p \in Positions |-> stock[p] - 1] /\ onLines' = [p \in Positions |-> onLines[p] + 1]
        /\ sale' = [sale EXCEPT !.status = "completed", !.shift = Body[r].shift,
                                !.cash = @ + Body[r].cash, !.credit = @ + Body[r].credit]
        /\ owed' = owed + Body[r].credit /\ Post(Body[r].shift, "till", Body[r].cash)
    BY DEF CommitTab, Commits
  <1>2. Body[r].shift \in Shifts /\ Body[r].cash \in Nat /\ Body[r].cash \in Int /\ Body[r].credit \in Nat BY BodyType
  <1>3. DataType /\ TabHeld BY DEF CheckoutInv
  <1>4. \A p \in Positions : Demand(r, p) = 1 BY <1>1, DemandFacts
  <1>5. /\ shift' \in [Shifts -> ShiftRows]
        /\ \A u \in Shifts : /\ shift'[u].status = shift[u].status /\ shift'[u].expected = shift[u].expected
                             /\ u # Body[r].shift => shift'[u].drawer.till = shift[u].drawer.till
    BY <1>1, <1>2, <1>3, PostMoves
  <1>6. /\ sale' \in SaleRow /\ sale'.status = "completed" /\ sale'.dineIn = sale.dineIn /\ sale'.returned = sale.returned
    <2> DEFINE cash == sale.cash + Body[r].cash
               credit == sale.credit + Body[r].credit
    <2>1. sale \in SaleRow /\ cash \in Nat /\ credit \in Nat BY <1>2, <1>3 DEF DataType, SaleRow
    <2>2. sale' = [sale EXCEPT !.status = "completed", !.shift = Body[r].shift, !.cash = cash, !.credit = credit]
      BY <1>1
    <2> HIDE DEF cash, credit
    <2>3. sale' = [sale EXCEPT !.status = "completed", !.shift = sale'.shift, !.cash = sale'.cash, !.credit = sale'.credit]
          /\ sale'.shift \in Shifts /\ sale'.cash \in Nat /\ sale'.credit \in Nat
      BY <1>2, <2>1, <2>2 DEF SaleRow
    <2> QED BY <2>1, <2>3 DEF SaleRow
  <1>7. DataType'
    <2>1. summed' \in [Requests -> Drawer] BY <1>1, <1>3 DEF End, DataType, NoDrawer, Drawer
    <2>2. stock' \in [Positions -> Int] /\ onLines' \in [Positions -> Int] /\ owed' \in Int BY <1>1, <1>2, <1>3 DEF DataType
    <2> QED BY <1>5, <1>6, <2>1, <2>2 DEF DataType
  <1>8. /\ Has(r, ShiftRow(Body[r].shift), "N") /\ shift[Body[r].shift].status = "open"
        /\ Body[r].credit > 0 => Has(r, CustomerRow, "U") /\ (CreditLimit = 0 \/ owed + Body[r].credit <= CreditLimit)
        /\ StockAvailable(r) /\ \A p \in Positions : Has(r, Position(p), "U")
        /\ Has(r, TargetSale, "U") /\ sale.dineIn /\ sale.status \in {"held", "partially_paid"}
    BY <1>1, <1>4, AtCommit
  <1>9. sale.status = "held" BY <1>3, <1>8 DEF TabHeld
  <1>10. Effect(r)
    <2>1. owed' > owed => Has(r, CustomerRow, "U") BY <1>1, <1>2, <1>3, <1>8 DEF DataType
    <2> QED BY <1>5, <1>6, <1>8, <1>9, <2>1 DEF Effect
  <1>11. NoOversell'
    <2> SUFFICES ASSUME NEW p \in Positions PROVE stock[p] - 1 >= 0 BY <1>1 DEF NoOversell
    <2> QED BY <1>3, <1>4, <1>8 DEF StockAvailable, DataType
  <1>12. WithinCreditLimit' BY <1>1, <1>2, <1>3, <1>8, CheckoutAssumption DEF CheckoutInv, WithinCreditLimit, DataType
  <1>13. TillReconciles' BY <1>5, <1>8 DEF CheckoutInv, TillReconciles
  <1>14. TabHeld' BY <1>6 DEF TabHeld
  <1> QED BY <1>1, <1>7, <1>10, <1>11, <1>12, <1>13, <1>14, EndKeeps

\* A close writes what it has added up.
LEMMA CommitCloseKeeps == ASSUME CheckoutInv, NEW r \in Requests, CommitClose(r) PROVE CheckoutInv'
  <1> DEFINE s == Body[r].shift
             row == [shift[s] EXCEPT !.status = "closed", !.expected = summed[r]]
  <1>1. /\ Body[r].op = "close" /\ pc[r] > Len(Program[r]) /\ End(r, "committed")
        /\ shift' = [shift EXCEPT ![s] = row] /\ UNCHANGED <<owed, stock, sale, onLines>>
    BY DEF CommitClose, Commits
  <1>2. s \in Shifts BY BodyType
  <1>3. DataType BY DEF CheckoutInv
  <1>4. /\ Has(r, ShiftRow(s), "U") /\ summed[r].till = shift[s].drawer.till
    BY <1>1, AtCommit
  <1>5. /\ row \in ShiftRows /\ row.drawer = shift[s].drawer /\ row.expected = summed[r]
    BY <1>2, <1>3 DEF DataType, ShiftRows
  <1> HIDE DEF s, row
  <1>6. /\ shift' \in [Shifts -> ShiftRows] /\ shift'[s] = row /\ \A u \in Shifts \ {s} : shift'[u] = shift[u]
    BY <1>1, <1>2, <1>3, <1>5 DEF DataType
  <1>7. DataType'
    <2>1. summed' \in [Requests -> Drawer] BY <1>1, <1>3 DEF End, DataType, NoDrawer, Drawer
    <2> QED BY <1>1, <1>3, <1>6, <2>1 DEF DataType
  <1>8. Effect(r) BY <1>1, <1>3, <1>4, <1>5, <1>6 DEF Effect, DataType
  <1>9. TillReconciles' BY <1>4, <1>5, <1>6 DEF CheckoutInv, TillReconciles
  <1>10. (TabHeld /\ NoOversell /\ WithinCreditLimit)' BY <1>1 DEF CheckoutInv, TabHeld, NoOversell, WithinCreditLimit
  <1> QED BY <1>1, <1>7, <1>8, <1>9, <1>10, EndKeeps

\* A payment and a cash movement post to one drawer.
LEMMA CashKeeps ==
  ASSUME CheckoutInv, NEW r \in Requests, CommitPay(r) \/ CommitMove(r)
  PROVE  CheckoutInv'
  <1>1. /\ pc[r] > Len(Program[r]) /\ End(r, "committed") /\ UNCHANGED <<stock, sale, onLines>>
        /\ \/ Body[r].op = "pay" /\ owed' = owed - Body[r].cash /\ Post(Body[r].shift, "other", Body[r].cash)
           \/ Body[r].op = "move" /\ owed' = owed /\ Post(Body[r].shift, "till", Body[r].cash)
    BY DEF CommitPay, CommitMove, Commits
  <1>2. Body[r].shift \in Shifts /\ Body[r].cash \in Nat /\ Body[r].cash \in Int BY BodyType
  <1>3. DataType BY DEF CheckoutInv
  <1>4. Body[r].op = "move" => Has(r, ShiftRow(Body[r].shift), "N") /\ shift[Body[r].shift].status = "open"
    BY <1>1, AtCommit
  <1>5. /\ shift' \in [Shifts -> ShiftRows]
        /\ \A u \in Shifts : /\ shift'[u].status = shift[u].status /\ shift'[u].expected = shift[u].expected
                             /\ u # Body[r].shift \/ Body[r].op # "move" => shift'[u].drawer.till = shift[u].drawer.till
    BY <1>1, <1>2, <1>3, PostMoves
  <1>6. owed' \in Int /\ owed' <= owed BY <1>1, <1>2, <1>3 DEF DataType
  <1>7. DataType'
    <2>1. summed' \in [Requests -> Drawer] BY <1>1, <1>3 DEF End, DataType, NoDrawer, Drawer
    <2> QED BY <1>1, <1>3, <1>5, <1>6, <2>1 DEF DataType
  <1>8. Effect(r)
    <2>1. ~(owed' > owed) /\ \A q \in Positions : ~(stock'[q] < stock[q]) BY <1>1, <1>3, <1>6 DEF DataType
    <2> QED BY <1>1, <1>4, <1>5, <2>1 DEF Effect
  <1>9. TillReconciles' BY <1>4, <1>5 DEF CheckoutInv, TillReconciles
  <1>10. WithinCreditLimit' BY <1>3, <1>6, CheckoutAssumption DEF CheckoutInv, WithinCreditLimit, DataType
  <1>11. (TabHeld /\ NoOversell)' BY <1>1 DEF CheckoutInv, TabHeld, NoOversell
  <1> QED BY <1>1, <1>7, <1>8, <1>9, <1>10, <1>11, EndKeeps

\* A request that is sent changes no table and no lock.
LEMMA StartKeeps == ASSUME CheckoutInv, NEW r \in Requests, Start(r) PROVE CheckoutInv'
  <1>1. UNCHANGED <<pc, held, summed, shift, owed, stock, sale, onLines>> BY DEF Start, db
  <1>2. LockInv' BY LocksOfStart DEF CheckoutInv
  <1>3. \A q \in Requests : \A t : Passed(q, t)' <=> Passed(q, t) BY <1>1 DEF Passed
  <1>4. \A q \in Requests : \A t : Holds(t, q) => Holds(t, q)'
    BY <1>1, ZenonT(60) DEF Holds, StockAvailable, Demand, Demanded
  <1>5. Checked' BY <1>3, <1>4 DEF CheckoutInv, Checked
  <1>6. Summed' BY <1>1, <1>3 DEF CheckoutInv, Summed
  <1>7. (DataType /\ TabHeld /\ NoOversell /\ WithinCreditLimit /\ TillReconciles)'
    BY <1>1 DEF CheckoutInv, DataType, TabHeld, NoOversell, WithinCreditLimit, TillReconciles
  <1> QED BY <1>2, <1>5, <1>6, <1>7 DEF CheckoutInv

\* Whatever a request commits, the invariant stands.
LEMMA CommitKeeps == ASSUME CheckoutInv, NEW r \in Requests, Commit(r) PROVE CheckoutInv'
  <1>1. CASE CommitSale(r) BY <1>1, CommitSaleKeeps
  <1>2. CASE CommitReturn(r) BY <1>2, CommitReturnKeeps
  <1>3. CASE CommitVoid(r)
    <2>1. /\ Body[r].op \in {"void", "cancel"} /\ pc[r] > Len(Program[r]) /\ End(r, "committed")
          /\ PutBack \/ UNCHANGED <<stock, onLines>>
          /\ sale' = [sale EXCEPT !.status = "voided"]
          /\ owed' = owed - sale.credit /\ Post(sale.shift, "other", -sale.cash)
      BY <1>3 DEF CommitVoid, Commits
    <2> QED BY <2>1, ReversalKeeps
  <1>4. CASE CommitCancel(r)
    <2>1. /\ Body[r].op \in {"void", "cancel"} /\ pc[r] > Len(Program[r]) /\ End(r, "committed")
          /\ PutBack \/ UNCHANGED <<stock, onLines>>
          /\ sale' = [sale EXCEPT !.status = "cancelled"]
          /\ owed' = owed - sale.credit /\ Post(sale.shift, "other", -sale.cash)
      BY <1>4 DEF CommitCancel, Commits
    <2> QED BY <2>1, ReversalKeeps
  <1>5. CASE CommitTab(r) BY <1>5, CommitTabKeeps
  <1>6. CASE CommitClose(r) BY <1>6, CommitCloseKeeps
  <1>7. CASE CommitPay(r) BY <1>7, CashKeeps
  <1>8. CASE CommitMove(r) BY <1>8, CashKeeps
  <1> QED BY <1>1, <1>2, <1>3, <1>4, <1>5, <1>6, <1>7, <1>8 DEF Commit

-----------------------------------------------------------------------------
(* The theorems. *)

\* The invariant holds before any request is sent.
LEMMA CheckoutInvInit == Init => CheckoutInv
  <1> SUFFICES ASSUME Init PROVE CheckoutInv OBVIOUS
  <1>1. /\ phase = [r \in Requests |-> "new"] /\ pc = [r \in Requests |-> 1] /\ held = {}
        /\ summed = [r \in Requests |-> NoDrawer] /\ sale \in FirstSale
        /\ owed = sale.credit /\ stock = StockOnHand
        /\ onLines = [p \in Positions |-> IF sale.status = "held" THEN 0 ELSE 1]
    BY DEF Init
  <1>2. /\ sale \in SaleRow /\ sale.cash \in Nat /\ sale.credit \in Nat
        /\ sale.status \in {"held", "partially_paid", "completed"} /\ (sale.dineIn <=> sale.status = "held")
        /\ CreditLimit > 0 => sale.credit <= CreditLimit
    BY <1>1, CheckoutAssumption DEF SaleRow
  <1>3. NoDrawer \in Drawer BY DEF NoDrawer, Drawer
  <1>4. LockInv
    <2>1. LockType BY <1>1 DEF LockType, Phases
    <2>2. Holding
      <3> SUFFICES ASSUME NEW r \in Requests, NEW i \in DOMAIN Program[r] PROVE ~(i < pc[r]) BY DEF Holding
      <3> QED BY <1>1, ProgramType
    <2> QED BY <1>1, <2>1, <2>2 DEF LockInv, Exclusive, Origin
  <1>5. \A r \in Requests : \A t : ~Passed(r, t) BY <1>1, ProgramType DEF Passed
  <1>6. /\ shift \in [Shifts -> ShiftRows] /\ \A s \in Shifts : shift[s].status = "open"
    <2> DEFINE first(s) == IF s = sale.shift THEN sale.cash ELSE 0
               drawer(s) == [till |-> first(s), other |-> 0]
               row(s) == [status |-> "open", drawer |-> drawer(s), expected |-> NoDrawer]
    <2>1. \A s \in Shifts : first(s) \in Int BY <1>2
    <2>2. shift = [s \in Shifts |-> row(s)] BY DEF Init
    <2> HIDE DEF first
    <2>3. \A s \in Shifts : drawer(s) \in Drawer BY <2>1 DEF Drawer
    <2> HIDE DEF drawer
    <2>4. \A s \in Shifts : row(s) \in ShiftRows /\ row(s).status = "open" BY <1>3, <2>3 DEF ShiftRows
    <2> QED BY <2>2, <2>4
  <1>7. DataType
    <2>1. summed \in [Requests -> Drawer] BY <1>1, <1>3
    <2>2. stock \in [Positions -> Int] /\ owed \in Int BY <1>1, <1>2, CheckoutAssumption
    <2>3. onLines \in [Positions -> Int] BY <1>1
    <2> QED BY <1>2, <1>6, <2>1, <2>2, <2>3 DEF DataType
  <1>8. NoOversell BY <1>1, CheckoutAssumption DEF NoOversell
  <1>9. WithinCreditLimit BY <1>1, <1>2 DEF WithinCreditLimit
  <1>10. TillReconciles BY <1>6 DEF TillReconciles
  <1> QED BY <1>2, <1>4, <1>5, <1>7, <1>8, <1>9, <1>10 DEF CheckoutInv, TabHeld, Checked, Summed

\* Every step keeps it.
LEMMA CheckoutInvInductive == CheckoutInv /\ [Next]_vars => CheckoutInv'
  <1> SUFFICES ASSUME CheckoutInv, [Next]_vars PROVE CheckoutInv' OBVIOUS
  <1>1. CASE UNCHANGED vars
    <2>1. UNCHANGED <<phase, pc, held, summed, shift, owed, stock, sale, onLines>> BY <1>1 DEF vars
    <2>2. LockInv' BY <2>1 DEF CheckoutInv, LockInv, LockType, Exclusive, Holding, Origin, Has
    <2>3. \A q \in Requests : \A t : Passed(q, t)' <=> Passed(q, t) BY <2>1 DEF Passed
    <2>4. \A q \in Requests : \A t : Holds(t, q) => Holds(t, q)'
      BY <2>1, ZenonT(60) DEF Holds, StockAvailable, Demand, Demanded
    <2>5. Checked' BY <2>3, <2>4 DEF CheckoutInv, Checked
    <2>6. Summed' BY <2>1, <2>3 DEF CheckoutInv, Summed
    <2>7. (DataType /\ TabHeld /\ NoOversell /\ WithinCreditLimit /\ TillReconciles)'
      BY <2>1 DEF CheckoutInv, DataType, TabHeld, NoOversell, WithinCreditLimit, TillReconciles
    <2> QED BY <2>2, <2>5, <2>6, <2>7 DEF CheckoutInv
  <1>2. ASSUME NEW r \in Requests, Start(r) PROVE CheckoutInv' BY <1>2, StartKeeps
  <1>3. ASSUME NEW r \in Requests, Step(r) PROVE CheckoutInv' BY <1>3, ChecksOfStep
  <1>4. ASSUME NEW r \in Requests, Reject(r) PROVE CheckoutInv' BY <1>4, RollbackKeeps DEF Reject
  <1>5. ASSUME NEW r \in Requests, DeadlockAbort(r) PROVE CheckoutInv' BY <1>5, RollbackKeeps DEF DeadlockAbort
  <1>6. ASSUME NEW r \in Requests, Commit(r) PROVE CheckoutInv' BY <1>6, CommitKeeps
  <1>7. ASSUME NEW r \in Requests, Fail(r) PROVE CheckoutInv' BY <1>7, RollbackKeeps DEF Fail
  <1> QED BY <1>1, <1>2, <1>3, <1>4, <1>5, <1>6, <1>7 DEF Next, Handle

\* The invariant holds always.
LEMMA CheckoutAlways == Spec => []CheckoutInv
  BY CheckoutInvInit, CheckoutInvInductive, PTL DEF Spec

\* Sales and tabs of any number of clients, in any interleaving, never take
\* more units of a position than there are (lock_stock_positions).
THEOREM StockNeverOversold == Spec => []NoOversell
  <1>1. CheckoutInv => NoOversell BY DEF CheckoutInv
  <1> QED BY <1>1, CheckoutAlways, PTL

\* Sales and tabs on account never take the balance over the limit
\* (assert_credit_available).
THEOREM CreditAlwaysWithinLimit == Spec => []WithinCreditLimit
  <1>1. CheckoutInv => WithinCreditLimit BY DEF CheckoutInv
  <1> QED BY <1>1, CheckoutAlways, PTL

\* What require_caller_shift has let into a drawer is in the expected cash of
\* the closed shift (close_shift).
THEOREM TillAlwaysReconciles == Spec => []TillReconciles
  <1>1. CheckoutInv => TillReconciles BY DEF CheckoutInv
  <1> QED BY <1>1, CheckoutAlways, PTL

-----------------------------------------------------------------------------
(* A sale is reversed once. *)

\* A second cancel of a cancelled sale puts its units back again; here a sale
\* is cancelled by one request only.
OneCancel == \A r, q \in Requests : Body[r].op = "cancel" /\ Body[q].op = "cancel" => r = q

\* What stands behind the units on the lines: no line of an open tab is
\* returned, and a cancelled sale has seen its cancel.
ReversalInv ==
  /\ OneReversal
  /\ sale.status = "held" => \A p \in Positions : sale.returned[p] = 0
  /\ sale.status = "cancelled" => \E r \in Requests : Body[r].op = "cancel" /\ phase[r] = "committed"

\* A commit leaves each line with the units the sale's status says.
LEMMA ReversalCommit ==
  ASSUME OneCancel, CheckoutInv, ReversalInv, NEW r \in Requests, Commit(r)
  PROVE  ReversalInv'
  <1>1. /\ phase[r] = "running" /\ pc[r] > Len(Program[r]) /\ phase' = [phase EXCEPT ![r] = "committed"]
    BY DEF Commit, CommitSale, CommitReturn, CommitVoid, CommitCancel, CommitTab, CommitClose, CommitPay,
           CommitMove, Commits, Running, End
  <1>2. phase \in [Requests -> Phases] BY DEF CheckoutInv, LockInv, LockType
  <1>3. \A q \in Requests : phase[q] = "committed" => phase'[q] = "committed" BY <1>1, <1>2
  <1>4. /\ sale.status \in {"held", "partially_paid", "completed", "cancelled", "voided"}
        /\ sale \in SaleRow /\ sale.returned \in [Positions -> 0..1] /\ onLines \in [Positions -> Int] /\ TabHeld
    BY DEF CheckoutInv, DataType, SaleRow
  <1>5. CASE UNCHANGED <<sale, onLines>> BY <1>3, <1>5 DEF ReversalInv, OneReversal
  <1>6. CASE CommitReturn(r)
    <2> DEFINE p == Body[r].lines[1]
    <2>1. /\ Body[r].op = "return" /\ onLines' = [onLines EXCEPT ![p] = @ - 1]
          /\ sale' = [sale EXCEPT !.returned[p] = @ + 1]
      BY <1>6 DEF CommitReturn, Commits
    <2>2. p \in Positions BY <2>1, ReturnedLine
    <2>3. sale.status \in {"partially_paid", "completed"} /\ sale.returned[p] = 0 BY <1>1, <2>1, AtCommit
    <2> HIDE DEF p
    <2>4. /\ sale'.status = sale.status
          /\ sale'.returned[p] = 1 /\ \A q \in Positions \ {p} : sale'.returned[q] = sale.returned[q]
      <3> DEFINE back == [sale.returned EXCEPT ![p] = @ + 1]
      <3>1. sale' = [sale EXCEPT !.returned = back] BY <2>1
      <3>2. back[p] = 1 /\ \A q \in Positions \ {p} : back[q] = sale.returned[q] BY <1>4, <2>2, <2>3
      <3> HIDE DEF back
      <3>3. sale'.status = sale.status /\ sale'.returned = back BY <1>4, <3>1 DEF SaleRow
      <3> QED BY <3>2, <3>3
    <2>5. onLines'[p] = onLines[p] - 1 /\ \A q \in Positions \ {p} : onLines'[q] = onLines[q] BY <1>4, <2>1, <2>2
    <2>6. ASSUME NEW q \in Positions PROVE onLines'[q] = 1 - sale'.returned[q]
      <3>1. onLines[q] = 1 - sale.returned[q] BY <2>3 DEF ReversalInv, OneReversal
      <3> QED BY <2>2, <2>3, <2>4, <2>5, <3>1
    <2> QED BY <2>3, <2>4, <2>6 DEF ReversalInv, OneReversal
  <1>7. CASE CommitVoid(r)
    <2>1. /\ Body[r].op = "void" /\ onLines' = [p \in Positions |-> onLines[p] - 1]
          /\ sale' = [sale EXCEPT !.status = "voided"]
      BY <1>7 DEF CommitVoid, Commits, PutBack
    <2>2. sale.status = "completed" /\ \A p \in Positions : sale.returned[p] = 0 BY <1>1, <2>1, AtCommit
    <2>3. sale'.status = "voided" BY <1>4, <2>1 DEF SaleRow
    <2>4. \A p \in Positions : onLines[p] = 1 BY <2>2 DEF ReversalInv, OneReversal
    <2> QED BY <2>1, <2>3, <2>4 DEF ReversalInv, OneReversal
  <1>8. CASE CommitCancel(r)
    <2>1. /\ Body[r].op = "cancel" /\ sale' = [sale EXCEPT !.status = "cancelled"]
          /\ IF SkipRestore THEN onLines' = onLines ELSE onLines' = [p \in Positions |-> onLines[p] - 1]
      BY <1>8 DEF CommitCancel, Commits, PutBack
    <2>2. sale.status \notin {"completed", "voided"} /\ \A p \in Positions : sale.returned[p] = 0
      BY <1>1, <2>1, AtCommit
    <2>3. sale'.status = "cancelled" BY <1>4, <2>1 DEF SaleRow
    <2>4. phase'[r] = "committed" BY <1>1, <1>2
    <2>5. sale.status # "cancelled"
      <3> SUFFICES ASSUME sale.status = "cancelled" PROVE FALSE OBVIOUS
      <3>1. PICK q \in Requests : Body[q].op = "cancel" /\ phase[q] = "committed" BY DEF ReversalInv
      <3> QED BY <1>1, <2>1, <3>1 DEF OneCancel
    <2>6. sale.status = "held" \/ sale.status = "partially_paid" BY <1>4, <2>2, <2>5
    <2>7. \A p \in Positions : onLines'[p] = 0
      <3>1. CASE sale.status = "held"
        <4>1. SkipRestore BY <1>4, <3>1 DEF SkipRestore, TabHeld
        <4> QED BY <2>1, <3>1, <4>1 DEF ReversalInv, OneReversal
      <3>2. CASE sale.status = "partially_paid"
        <4>1. ~SkipRestore BY <1>4, <3>2 DEF SkipRestore, TabHeld
        <4>2. \A p \in Positions : onLines[p] = 1 BY <2>2, <3>2 DEF ReversalInv, OneReversal
        <4> QED BY <2>1, <4>1, <4>2
      <3> QED BY <2>6, <3>1, <3>2
    <2> QED BY <2>1, <2>3, <2>4, <2>7 DEF ReversalInv, OneReversal
  <1>9. CASE CommitTab(r)
    <2>1. /\ Body[r].op = "tab" /\ onLines' = [p \in Positions |-> onLines[p] + 1]
          /\ sale' = [sale EXCEPT !.status = "completed", !.shift = Body[r].shift,
                                  !.cash = @ + Body[r].cash, !.credit = @ + Body[r].credit]
      BY <1>9 DEF CommitTab, Commits
    <2>2. sale.status = "held" BY <1>1, <1>4, <2>1, AtCommit DEF TabHeld
    <2>3. sale'.status = "completed" /\ sale'.returned = sale.returned BY <1>4, <2>1 DEF SaleRow
    <2>4. \A p \in Positions : onLines[p] = 0 /\ sale.returned[p] = 0 BY <2>2 DEF ReversalInv, OneReversal
    <2> QED BY <2>1, <2>3, <2>4 DEF ReversalInv, OneReversal
  <1> QED BY <1>5, <1>6, <1>7, <1>8, <1>9 DEF Commit, CommitSale, CommitClose, CommitPay, CommitMove

\* A request that ends was running.
LEMMA CyclesRun == \A w \in Cycles : w[1] \in Requests /\ phase[w[1]] = "running"
  <1> SUFFICES ASSUME NEW w \in Cycles PROVE w[1] \in Requests /\ phase[w[1]] = "running" OBVIOUS
  <1> DEFINE waiting == {r \in Running : Ready(r) /\ Blocked(r)}
  <1>1. PICK n \in 2..Cardinality(waiting) : w \in [1..n -> waiting] BY DEF Cycles
  <1>2. w[1] \in Running BY <1>1
  <1> QED BY <1>2 DEF Running

\* Returns, voids, cancels and tab completions of one sale, in any race, leave
\* each of its lines with the units its status says it has out of stock, if the
\* sale is cancelled by one request only (_lock_sale_lines_for_update).
THEOREM SaleAlwaysReversedOnce == ASSUME OneCancel PROVE Spec => []OneReversal
  <1>1. Init => ReversalInv
    <2> SUFFICES ASSUME Init PROVE ReversalInv OBVIOUS
    <2>1. sale \in FirstSale /\ onLines = [p \in Positions |-> IF sale.status = "held" THEN 0 ELSE 1] BY DEF Init
    <2>2. sale.status \in {"held", "partially_paid", "completed"} /\ \A p \in Positions : sale.returned[p] = 0
      BY <2>1, CheckoutAssumption
    <2> QED BY <2>1, <2>2 DEF ReversalInv, OneReversal
  <1>2. CheckoutInv /\ ReversalInv /\ [Next]_vars => ReversalInv'
    <2> SUFFICES ASSUME CheckoutInv, ReversalInv, [Next]_vars PROVE ReversalInv' OBVIOUS
    <2>1. ASSUME UNCHANGED <<sale, onLines>>,
                 \A q \in Requests : phase[q] = "committed" => phase'[q] = "committed"
          PROVE  ReversalInv'
      BY <2>1 DEF ReversalInv, OneReversal
    <2>2. phase \in [Requests -> Phases] BY DEF CheckoutInv, LockInv, LockType
    <2>3. ASSUME NEW r \in Requests, NEW how \in Phases, phase[r] # "committed",
                 phase' = [phase EXCEPT ![r] = how], UNCHANGED db
          PROVE  ReversalInv'
      <3>1. \A q \in Requests : phase[q] = "committed" => phase'[q] = "committed" BY <2>2, <2>3
      <3> QED BY <2>1, <2>3, <3>1 DEF db
    <2>4. CASE UNCHANGED vars BY <2>1, <2>4 DEF vars
    <2>5. ASSUME NEW r \in Requests, Start(r) PROVE ReversalInv' BY <2>3, <2>5 DEF Start, Phases
    <2>6. ASSUME NEW r \in Requests, Step(r) PROVE ReversalInv' BY <2>1, <2>6 DEF Step, db
    <2>7. ASSUME NEW r \in Requests, Reject(r) PROVE ReversalInv' BY <2>3, <2>7 DEF Reject, Ready, End, Phases
    <2>8. ASSUME NEW r \in Requests, DeadlockAbort(r) PROVE ReversalInv'
      BY <2>3, <2>8, CyclesRun DEF DeadlockAbort, End, Phases
    <2>9. ASSUME NEW r \in Requests, Fail(r) PROVE ReversalInv' BY <2>3, <2>9 DEF Fail, Running, End, Phases
    <2>10. ASSUME NEW r \in Requests, Commit(r) PROVE ReversalInv' BY <2>10, ReversalCommit
    <2> QED BY <2>4, <2>5, <2>6, <2>7, <2>8, <2>9, <2>10 DEF Next, Handle
  <1>3. ReversalInv => OneReversal BY DEF ReversalInv
  <1> QED BY <1>1, <1>2, <1>3, CheckoutAlways, PTL DEF Spec

-----------------------------------------------------------------------------
(* The order of the locks.                                                  *)

\* The order in which the handlers lock: shift, line, customer, positions by
\* key, number, sale, layers.  Layers are locked in any order.
Height(res) ==
  CASE res[1] = "shift" -> 0 [] res[1] = "line" -> 1 [] res[1] = "customer" -> 2 [] res[1] = "position" -> 3
    [] res[1] \in {"INV", "RET"} -> 4 [] res[1] = "sale" -> 5 [] res[1] = "layers" -> 6 [] OTHER -> 7

Above(a, b) ==
  \/ Height(a) < Height(b)
  \/ Height(a) = 3 /\ Height(b) = 3 /\ a[2] < b[2]
  \/ Height(a) = 6 /\ Height(b) = 6

\* The locks of s are taken in that order.
Climbs(s) == \A i, j \in DOMAIN s : i < j /\ s[i].res # Nothing /\ s[j].res # Nothing => Above(s[i].res, s[j].res)
Under(h, s) == \A i \in DOMAIN s : s[i].res # Nothing => Height(s[i].res) < h
Level(h, s) == \A i \in DOMAIN s : s[i].res # Nothing => Height(s[i].res) = h

\* A height is a number.
LEMMA HeightType == \A s \in Seq(Steps) : \A i \in DOMAIN s : Height(s[i].res) \in Nat
  BY DEF Height

\* A program that climbs still does with a part of the next level.
LEMMA ClimbOn ==
  ASSUME NEW s \in Seq(Steps), NEW u \in Seq(Steps), NEW h \in Nat, NEW k \in Nat, k <= h,
         Climbs(s), Under(k, s), Climbs(u), Level(h, u)
  PROVE  s \o u \in Seq(Steps) /\ Climbs(s \o u) /\ Under(h + 1, s \o u)
  <1>1. s \o u \in Seq(Steps) /\ Len(s \o u) = Len(s) + Len(u) /\ Len(s) \in Nat /\ Len(u) \in Nat OBVIOUS
  <1>3. \A i \in DOMAIN s : s[i].res # Nothing => Height(s[i].res) \in Nat /\ Height(s[i].res) < h
    <2> SUFFICES ASSUME NEW i \in DOMAIN s, s[i].res # Nothing PROVE Height(s[i].res) \in Nat /\ Height(s[i].res) < h
      OBVIOUS
    <2>1. Height(s[i].res) \in Nat BY HeightType
    <2>2. Height(s[i].res) < k BY DEF Under
    <2> QED BY <2>1, <2>2
  <1>4. \A i \in 1..Len(s \o u) : \/ i \in DOMAIN s /\ (s \o u)[i] = s[i]
                                  \/ i > Len(s) /\ i - Len(s) \in DOMAIN u /\ (s \o u)[i] = u[i - Len(s)]
    BY <1>1
  <1>5. Climbs(s \o u)
    <2> SUFFICES ASSUME NEW i \in 1..Len(s \o u), NEW j \in 1..Len(s \o u), i < j,
                        (s \o u)[i].res # Nothing, (s \o u)[j].res # Nothing
                 PROVE  Above((s \o u)[i].res, (s \o u)[j].res)
      BY <1>1 DEF Climbs
    <2>1. CASE j \in DOMAIN s /\ (s \o u)[j] = s[j]
      <3>1. i \in DOMAIN s /\ (s \o u)[i] = s[i] BY <1>1, <1>4, <2>1
      <3> QED BY <2>1, <3>1 DEF Climbs
    <2>2. CASE j > Len(s) /\ j - Len(s) \in DOMAIN u /\ (s \o u)[j] = u[j - Len(s)]
      <3>1. Height((s \o u)[j].res) = h BY <2>2 DEF Level
      <3>2. CASE i \in DOMAIN s /\ (s \o u)[i] = s[i] BY <1>3, <3>1, <3>2 DEF Above
      <3>3. CASE i > Len(s) /\ i - Len(s) \in DOMAIN u /\ (s \o u)[i] = u[i - Len(s)]
        <4>1. i - Len(s) < j - Len(s) BY <1>1
        <4> QED BY <2>2, <3>3, <4>1 DEF Climbs
      <3> QED BY <1>4, <3>2, <3>3
    <2> QED BY <1>4, <2>1, <2>2
  <1>6. Under(h + 1, s \o u)
    <2> SUFFICES ASSUME NEW i \in 1..Len(s \o u), (s \o u)[i].res # Nothing PROVE Height((s \o u)[i].res) < h + 1
      BY <1>1 DEF Under
    <2>1. CASE i \in DOMAIN s /\ (s \o u)[i] = s[i] BY <1>3, <2>1
    <2>2. CASE i > Len(s) /\ i - Len(s) \in DOMAIN u /\ (s \o u)[i] = u[i - Len(s)]
      <3>1. Height((s \o u)[i].res) = h BY <2>2 DEF Level
      <3> QED BY <3>1
    <2> QED BY <1>4, <2>1, <2>2
  <1> QED BY <1>1, <1>5, <1>6

\* The heights of the rows.
LEMMA Heights ==
  /\ \A n \in Nat : /\ Height(ShiftRow(n)) = 0 /\ Height(LineRow(n)) = 1 /\ Height(Position(n)) = 3
                    /\ Height(LayersOf(n)) = 6
  /\ Height(CustomerRow) = 2 /\ Height(TargetSale) = 5 /\ Height(SaleShift) = 7
  /\ \A prefix \in {"INV", "RET"} : Height(Counter(prefix)) = 4
  BY DEF Height, ShiftRow, LineRow, Position, LayersOf, CustomerRow, TargetSale, SaleShift, Counter

\* The steps that lock them.
LEMMA LockSteps ==
  /\ \A n \in Nat : On(ShiftRow(n), "N", "shiftOpen") \in Steps /\ On(ShiftRow(n), "N", "shiftOpen").res = ShiftRow(n)
  /\ \A n \in Nat : Lock(LineRow(n), "U") \in Steps /\ Lock(LineRow(n), "U").res = LineRow(n)
  /\ On(CustomerRow, "U", "creditAvailable") \in Steps /\ On(CustomerRow, "U", "creditAvailable").res = CustomerRow
  /\ Lock(CustomerRow, "U") \in Steps /\ Lock(CustomerRow, "U").res = CustomerRow
  /\ Lock(TargetSale, "K") \in Steps /\ Lock(TargetSale, "K").res = TargetSale
  /\ \A prefix \in {"INV", "RET"} : Lock(Counter(prefix), "N") \in Steps /\ Lock(Counter(prefix), "N").res = Counter(prefix)
  <1>1. \A res \in Tables \X Nat : \A mode \in Modes : \A test \in Tests : On(res, mode, test) \in Steps /\ On(res, mode, test).res = res
    BY StepType
  <1>2. "U" \in Modes /\ "N" \in Modes /\ "K" \in Modes /\ "none" \in Tests /\ "shiftOpen" \in Tests /\ "creditAvailable" \in Tests
    BY DEF Modes, Tests
  <1>3. \A res \in Tables \X Nat : \A mode \in Modes : Lock(res, mode) \in Steps /\ Lock(res, mode).res = res
    BY <1>1, <1>2 DEF Lock
  <1>4. \A n \in Nat : ShiftRow(n) \in Tables \X Nat /\ LineRow(n) \in Tables \X Nat
    BY StepType
  <1>5. CustomerRow \in Tables \X Nat /\ TargetSale \in Tables \X Nat /\ \A prefix \in {"INV", "RET"} : Counter(prefix) \in Tables \X Nat
    BY StepType
  <1>6. \A n \in Nat : On(ShiftRow(n), "N", "shiftOpen") \in Steps /\ On(ShiftRow(n), "N", "shiftOpen").res = ShiftRow(n)
    BY <1>1, <1>2, <1>4
  <1>7. \A n \in Nat : Lock(LineRow(n), "U") \in Steps /\ Lock(LineRow(n), "U").res = LineRow(n)
    BY <1>2, <1>3, <1>4
  <1>8. On(CustomerRow, "U", "creditAvailable") \in Steps /\ On(CustomerRow, "U", "creditAvailable").res = CustomerRow
    BY <1>1, <1>2, <1>5
  <1>9. /\ Lock(CustomerRow, "U") \in Steps /\ Lock(CustomerRow, "U").res = CustomerRow
        /\ Lock(TargetSale, "K") \in Steps /\ Lock(TargetSale, "K").res = TargetSale
    BY <1>2, <1>3, <1>5
  <1>10. \A prefix \in {"INV", "RET"} : Lock(Counter(prefix), "N") \in Steps /\ Lock(Counter(prefix), "N").res = Counter(prefix)
    BY <1>2, <1>3, <1>5
  <1> QED BY <1>6, <1>7, <1>8, <1>9, <1>10

\* A step alone, and no step, climb.
LEMMA ClimbSingle ==
  /\ \A x \in Steps : Climbs(<<x>>) /\ \A h \in Nat : (x.res # Nothing => Height(x.res) = h) => Level(h, <<x>>)
  /\ Climbs(<<>>) /\ \A h \in Nat : Level(h, <<>>) /\ Under(h, <<>>)
  BY DEF Climbs, Level, Under

\* Positions in ascending order climb, and so do layers in any order.
LEMMA ClimbParts ==
  ASSUME NEW keys \in Seq(Positions)
  PROVE  /\ Climbs(LockLayers(keys)) /\ Level(6, LockLayers(keys))
         /\ Level(3, LockStockPositions(keys))
         /\ (\A i, j \in DOMAIN keys : i < j => keys[i] < keys[j]) => Climbs(LockStockPositions(keys))
  <1>1. \A i \in DOMAIN keys : keys[i] \in Nat
    <2>1. \A i \in DOMAIN keys : keys[i] \in Positions OBVIOUS
    <2> QED BY <2>1, CheckoutAssumption
  <1>2. DOMAIN LockLayers(keys) = DOMAIN keys /\ \A i \in DOMAIN keys : LockLayers(keys)[i].res = LayersOf(keys[i])
    BY DEF LockLayers, Lock, On
  <1>3. /\ DOMAIN LockStockPositions(keys) = DOMAIN keys
        /\ \A i \in DOMAIN keys : LockStockPositions(keys)[i].res = Position(keys[i])
    BY DEF LockStockPositions, Lock, On
  <1>4. Climbs(LockLayers(keys)) /\ Level(6, LockLayers(keys))
    BY <1>1, <1>2, Heights DEF Climbs, Level, Above
  <1>5. Level(3, LockStockPositions(keys)) BY <1>1, <1>3, Heights DEF Level
  <1>6. \A n \in Nat : Position(n)[2] = n BY DEF Position
  <1>7. ASSUME \A i, j \in DOMAIN keys : i < j => keys[i] < keys[j] PROVE Climbs(LockStockPositions(keys))
    BY <1>1, <1>3, <1>6, <1>7, Heights DEF Climbs, Above
  <1> QED BY <1>4, <1>5, <1>7

\* The layers locked at the end are those of the lines.
LEMMA LayersLast ==
  ASSUME NEW s \in Seq(Steps), Under(6, s), NEW keys \in Seq(Positions), NEW n \in Nat,
         NEW i \in DOMAIN (s \o LockLayers(keys)), (s \o LockLayers(keys))[i].res = LayersOf(n)
  PROVE  n \in Range(keys)
  <1> DEFINE u == LockLayers(keys)
  <1>1. u \in Seq(Steps) BY LockParts
  <1>2. DOMAIN u = DOMAIN keys /\ \A k \in DOMAIN keys : u[k].res = LayersOf(keys[k])
    BY DEF LockLayers, Lock, On
  <1> HIDE DEF u
  <1>3. \/ i \in DOMAIN s /\ (s \o u)[i] = s[i]
        \/ i - Len(s) \in DOMAIN u /\ (s \o u)[i] = u[i - Len(s)]
    BY <1>1 DEF u
  <1>4. LayersOf(n) # Nothing /\ Height(LayersOf(n)) = 6 BY Heights DEF LayersOf, Nothing
  <1>5. CASE i \in DOMAIN s /\ (s \o u)[i] = s[i] BY <1>4, <1>5 DEF Under, u
  <1>6. CASE i - Len(s) \in DOMAIN u /\ (s \o u)[i] = u[i - Len(s)]
    <2>1. LayersOf(keys[i - Len(s)]) = LayersOf(n) BY <1>2, <1>6 DEF u
    <2>2. keys[i - Len(s)] = n BY <2>1 DEF LayersOf
    <2> QED BY <1>2, <1>6, <2>2 DEF Range
  <1> QED BY <1>3, <1>5, <1>6

\* A test takes no lock.
LEMMA ClimbTest ==
  ASSUME NEW s \in Seq(Steps), NEW t \in Tests, NEW k \in Nat, Climbs(s), Under(k, s)
  PROVE  s \o <<Test(t)>> \in Seq(Steps) /\ Climbs(s \o <<Test(t)>>) /\ Under(k, s \o <<Test(t)>>)
  <1> DEFINE x == Test(t)
  <1>1. x \in Steps /\ x.res = Nothing BY StepType DEF Test, Modes
  <1> HIDE DEF x
  <1>2. /\ s \o <<x>> \in Seq(Steps) /\ Len(s \o <<x>>) = Len(s) + 1
        /\ \A i \in DOMAIN (s \o <<x>>) : (i \in DOMAIN s /\ (s \o <<x>>)[i] = s[i]) \/ (s \o <<x>>)[i] = x
    BY <1>1
  <1>3. Climbs(s \o <<x>>) /\ Under(k, s \o <<x>>) BY <1>1, <1>2 DEF Climbs, Under
  <1> QED BY <1>2, <1>3 DEF x

\* create_sale climbs, unless it names the customer and pays cash.
LEMMA SaleClimbs ==
  ASSUME NEW r \in Requests, Body[r].op = "sale", ~OutOfOrder(r)
  PROVE  /\ Climbs(Program[r]) /\ Under(7, Program[r])
         /\ \A p \in Range(Body[r].lines) : Occurs(PositionLock(p), Program[r])
         /\ \A i \in DOMAIN Program[r], n \in Nat : Program[r][i].res = LayersOf(n) => n \in Range(Body[r].lines)
  <1> DEFINE a1 == RequireCallerShift(Body[r].shift)
             a2 == When(Body[r].credit > 0, AssertCreditAvailable)
             a3 == LockStockPositions(PositionsOf[r])
             a4 == <<Test("stockAvailable")>>
             a5 == NextNumber("INV")
             a6 == LockLayers(Body[r].lines)
             b2 == a1 \o a2
             b3 == b2 \o a3
             b4 == b3 \o a4
             b5 == b4 \o a5
             b6 == b5 \o a6
  <1>1. a1 \in Seq(Steps) /\ Climbs(a1) /\ Level(0, a1)
    <2>1. On(ShiftRow(Body[r].shift), "N", "shiftOpen") \in Steps /\ On(ShiftRow(Body[r].shift), "N", "shiftOpen").res = ShiftRow(Body[r].shift)
      BY BodyType, LockSteps
    <2>2. Height(ShiftRow(Body[r].shift)) = 0 BY BodyType, Heights
    <2> QED BY <2>1, <2>2, ClimbSingle DEF RequireCallerShift
  <1>2. a2 \in Seq(Steps) /\ Climbs(a2) /\ Level(2, a2)
    <2>1. On(CustomerRow, "U", "creditAvailable") \in Steps /\ On(CustomerRow, "U", "creditAvailable").res = CustomerRow
      BY LockSteps
    <2>2. <<>> \in Seq(Steps) BY Parts
    <2> QED BY <2>1, <2>2, Heights, ClimbSingle DEF When, AssertCreditAvailable
  <1>3. /\ a3 \in Seq(Steps) /\ Climbs(a3) /\ Level(3, a3)
        /\ \A p \in Range(Body[r].lines) : Occurs(PositionLock(p), a3)
    BY PositionsSorted, LockParts, ClimbParts DEF PositionLock
  <1>4. a4 \in Seq(Steps) BY Parts DEF Tests
  <1>5. a5 \in Seq(Steps) /\ Climbs(a5) /\ Level(4, a5)
    <2>1. Lock(Counter("INV"), "N") \in Steps /\ Lock(Counter("INV"), "N").res = Counter("INV")
      BY LockSteps
    <2> QED BY <2>1, Heights, ClimbSingle DEF NextNumber
  <1>6. a6 \in Seq(Steps) /\ Climbs(a6) /\ Level(6, a6) BY BodyType, LockParts, ClimbParts
  <1>7. Program[r] = b6
    <2>1. ~(Body[r].named /\ Body[r].credit = 0) BY DEF OutOfOrder
    <2>2. Program[r] = b6 \o <<>> BY <2>1 DEF Program, SaleProgram, When
    <2> HIDE DEF a1, a2, a3, a4, a5, a6
    <2>3. b6 \in Seq(Steps) BY <1>1, <1>2, <1>3, <1>4, <1>5, <1>6
    <2> HIDE DEF b6
    <2> QED BY <2>2, <2>3
  <1> HIDE DEF a1, a2, a3, a4, a5, b2, b3, b4, b5, b6
  <1>t1. Under(1, a1) BY <1>1 DEF Under, Level
  <1>t2. b2 \in Seq(Steps) /\ Climbs(b2) /\ Under(3, b2) BY <1>1, <1>2, <1>t1, ClimbOn, 2 + 1 = 3 DEF b2
  <1>t3. /\ b3 \in Seq(Steps) /\ Climbs(b3) /\ Under(4, b3)
         /\ \A p \in Range(Body[r].lines) : Occurs(PositionLock(p), b3)
    BY <1>t2, <1>3, ClimbOn, OccursIn, 3 + 1 = 4 DEF b3
  <1>t4. /\ b4 \in Seq(Steps) /\ Climbs(b4) /\ Under(4, b4)
         /\ \A p \in Range(Body[r].lines) : Occurs(PositionLock(p), b4)
    <2>1. "stockAvailable" \in Tests BY DEF Tests
    <2>2. Climbs(b4) /\ Under(4, b4) BY <1>t3, <2>1, ClimbTest DEF b4, a4
    <2> QED BY <1>t3, <1>4, <2>2, OccursIn DEF b4
  <1>t5. /\ b5 \in Seq(Steps) /\ Climbs(b5) /\ Under(5, b5)
         /\ \A p \in Range(Body[r].lines) : Occurs(PositionLock(p), b5)
    BY <1>t4, <1>5, OccursIn, ClimbOn, 4 + 1 = 5 DEF b5
  <1>t6. /\ b6 \in Seq(Steps) /\ Climbs(b6) /\ Under(7, b6)
         /\ \A p \in Range(Body[r].lines) : Occurs(PositionLock(p), b6)
    BY <1>t5, <1>6, OccursIn, ClimbOn, 6 + 1 = 7 DEF b6
  <1>8. ASSUME NEW i \in DOMAIN b6, NEW n \in Nat, b6[i].res = LayersOf(n) PROVE n \in Range(Body[r].lines)
    <2>1. Under(6, b5)
      <3>1. \A k \in DOMAIN b5 : b5[k].res # Nothing => Height(b5[k].res) \in Nat /\ Height(b5[k].res) < 5
        BY <1>t5, HeightType DEF Under
      <3> QED BY <3>1 DEF Under
    <2>2. b6 = b5 \o LockLayers(Body[r].lines) BY DEF b6, a6
    <2> QED BY <1>8, <1>t5, <2>1, <2>2, BodyType, LayersLast
  <1> QED BY <1>t6, <1>7, <1>8

\* create_sale_return climbs.
LEMMA ReturnClimbs ==
  ASSUME NEW r \in Requests, Body[r].op = "return"
  PROVE  /\ Climbs(Program[r]) /\ Under(7, Program[r])
         /\ \A p \in Range(Body[r].lines) : Occurs(PositionLock(p), Program[r])
         /\ \A i \in DOMAIN Program[r], n \in Nat : Program[r][i].res = LayersOf(n) => n \in Range(Body[r].lines)
  <1> DEFINE x == Lock(LineRow(Body[r].lines[1]), "U")
             a1 == RequireCallerShift(Body[r].shift)
             a2 == <<x, Test("returnable")>>
             a3 == OnlyIf("named", <<Lock(CustomerRow, "U")>>)
             a4 == <<Test("unitLeft")>>
             a5 == LockStockPositions(PositionsOf[r])
             a6 == NextNumber("RET")
             a7 == <<Lock(TargetSale, "K")>>
             a8 == LockLayers(Body[r].lines)
             b2 == a1 \o a2
             b3 == b2 \o a3
             b4 == b3 \o a4
             b5 == b4 \o a5
             b6 == b5 \o a6
             b7 == b6 \o a7
             b8 == b7 \o a8
  <1> HIDE DEF x
  <1>1. a1 \in Seq(Steps) /\ Climbs(a1) /\ Level(0, a1)
    <2>1. /\ On(ShiftRow(Body[r].shift), "N", "shiftOpen") \in Steps
          /\ On(ShiftRow(Body[r].shift), "N", "shiftOpen").res = ShiftRow(Body[r].shift)
      BY BodyType, LockSteps
    <2>2. Height(ShiftRow(Body[r].shift)) = 0 BY BodyType, Heights
    <2> QED BY <2>1, <2>2, ClimbSingle DEF RequireCallerShift
  <1>2. a2 \in Seq(Steps) /\ Climbs(a2) /\ Level(1, a2)
    <2>1. Body[r].lines[1] \in Nat BY ReturnedLine, CheckoutAssumption
    <2>2. x \in Steps /\ x.res = LineRow(Body[r].lines[1]) BY <2>1, LockSteps DEF x
    <2>3. Test("returnable") \in Steps /\ Test("returnable").res = Nothing BY StepType DEF Test, Modes, Tests
    <2>4. Height(x.res) = 1 BY <2>1, <2>2, Heights
    <2>5. <<x>> \in Seq(Steps) /\ Climbs(<<x>>) /\ Level(1, <<x>>) /\ Under(2, <<x>>)
      BY <2>2, <2>4, ClimbSingle DEF Under
    <2>6. a2 = <<x>> \o <<Test("returnable")>> BY <2>2, <2>3
    <2>7. a2 \in Seq(Steps) /\ DOMAIN a2 = 1 .. 2 /\ a2[1] = x /\ a2[2] = Test("returnable") BY <2>2, <2>3
    <2>8. "returnable" \in Tests BY DEF Tests
    <2>9. Climbs(a2) BY <2>5, <2>6, <2>8, ClimbTest
    <2>10. Level(1, a2) BY <2>3, <2>4, <2>7 DEF Level
    <2> QED BY <2>7, <2>9, <2>10
  <1>3. a3 \in Seq(Steps) /\ Climbs(a3) /\ Level(2, a3)
    <2> DEFINE y == [Lock(CustomerRow, "U") EXCEPT !.only = "named"]
    <2>1. y \in Steps /\ y.res = CustomerRow
      <3>1. Lock(CustomerRow, "U") \in Steps /\ Lock(CustomerRow, "U").res = CustomerRow
        BY LockSteps
      <3> QED BY <3>1 DEF Steps, Branchings
    <2>2. a3 = <<y>> BY DEF OnlyIf
    <2> HIDE DEF y
    <2>3. Climbs(<<y>>) /\ Level(2, <<y>>) BY <2>1, Heights, ClimbSingle
    <2>4. <<y>> \in Seq(Steps) BY <2>1
    <2> HIDE DEF a3
    <2> QED BY <2>2, <2>3, <2>4
  <1>4. a4 \in Seq(Steps) BY Parts DEF Tests
  <1>5. /\ a5 \in Seq(Steps) /\ Climbs(a5) /\ Level(3, a5)
        /\ \A p \in Range(Body[r].lines) : Occurs(PositionLock(p), a5)
    BY PositionsSorted, LockParts, ClimbParts DEF PositionLock
  <1>6. a6 \in Seq(Steps) /\ Climbs(a6) /\ Level(4, a6)
    <2>1. Lock(Counter("RET"), "N") \in Steps /\ Lock(Counter("RET"), "N").res = Counter("RET")
      BY LockSteps
    <2> QED BY <2>1, Heights, ClimbSingle DEF NextNumber
  <1>7. a7 \in Seq(Steps) /\ Climbs(a7) /\ Level(5, a7)
    <2>1. Lock(TargetSale, "K") \in Steps /\ Lock(TargetSale, "K").res = TargetSale
      BY LockSteps
    <2> QED BY <2>1, Heights, ClimbSingle
  <1>8. a8 \in Seq(Steps) /\ Climbs(a8) /\ Level(6, a8) BY BodyType, LockParts, ClimbParts
  <1>9. Program[r] = b8 BY DEF Program, ReturnProgram, x
  <1> HIDE DEF a1, a2, a3, a4, a5, a6, a7, a8, b2, b3, b4, b5, b6, b7, b8
  <1>t1. Under(1, a1) BY <1>1 DEF Under, Level
  <1>t2. b2 \in Seq(Steps) /\ Climbs(b2) /\ Under(2, b2) BY <1>1, <1>2, <1>t1, ClimbOn, 1 + 1 = 2 DEF b2
  <1>t3. b3 \in Seq(Steps) /\ Climbs(b3) /\ Under(3, b3) BY <1>t2, <1>3, ClimbOn, 2 + 1 = 3 DEF b3
  <1>t4. b4 \in Seq(Steps) /\ Climbs(b4) /\ Under(3, b4)
    <2>1. "unitLeft" \in Tests BY DEF Tests
    <2> QED BY <1>t3, <2>1, ClimbTest DEF b4, a4
  <1>t5. /\ b5 \in Seq(Steps) /\ Climbs(b5) /\ Under(4, b5)
         /\ \A p \in Range(Body[r].lines) : Occurs(PositionLock(p), b5)
    BY <1>t4, <1>5, OccursIn, ClimbOn, 3 + 1 = 4 DEF b5
  <1>t6. /\ b6 \in Seq(Steps) /\ Climbs(b6) /\ Under(5, b6)
         /\ \A p \in Range(Body[r].lines) : Occurs(PositionLock(p), b6)
    BY <1>t5, <1>6, OccursIn, ClimbOn, 4 + 1 = 5 DEF b6
  <1>t7. /\ b7 \in Seq(Steps) /\ Climbs(b7) /\ Under(6, b7)
         /\ \A p \in Range(Body[r].lines) : Occurs(PositionLock(p), b7)
    BY <1>t6, <1>7, OccursIn, ClimbOn, 5 + 1 = 6 DEF b7
  <1>t8. /\ b8 \in Seq(Steps) /\ Climbs(b8) /\ Under(7, b8)
         /\ \A p \in Range(Body[r].lines) : Occurs(PositionLock(p), b8)
    BY <1>t7, <1>8, OccursIn, ClimbOn, 6 + 1 = 7 DEF b8
  <1>10. ASSUME NEW i \in DOMAIN b8, NEW n \in Nat, b8[i].res = LayersOf(n) PROVE n \in Range(Body[r].lines)
    <2>1. b8 = b7 \o LockLayers(Body[r].lines) BY DEF b8, a8
    <2> QED BY <1>10, <1>t7, <2>1, BodyType, LayersLast
  <1> QED BY <1>t8, <1>9, <1>10

\* The requests that climb.
Climbers == {r \in Requests : Body[r].op \in {"sale", "return"} /\ ~OutOfOrder(r)}

\* Before a climber locks layers, it has locked their position, and its shift
\* only to post to it.
LEMMA ClimberFacts ==
  ASSUME NEW r \in Climbers
  PROVE  /\ Program[r] \in Seq(Steps) /\ Climbs(Program[r])
         /\ \A i \in DOMAIN Program[r] : Program[r][i].res # SaleShift
         /\ \A i \in DOMAIN Program[r] : \A n \in Nat : Program[r][i].res = ShiftRow(n) => Program[r][i].mode = "N"
         /\ \A i \in DOMAIN Program[r] : \A n \in Nat : Program[r][i].res = LayersOf(n) =>
              \E k \in DOMAIN Program[r] : k < i /\ Program[r][k] = PositionLock(n)
  <1> DEFINE s == Program[r]
  <1>1. /\ r \in Requests /\ s \in Seq(Steps) /\ Climbs(s) /\ Under(7, s) /\ Occurs(ShiftLock(r), s)
        /\ \A p \in Range(Body[r].lines) : Occurs(PositionLock(p), s)
        /\ \A i \in DOMAIN s, n \in Nat : s[i].res = LayersOf(n) => n \in Range(Body[r].lines)
    BY SaleClimbs, ReturnClimbs, SaleFacts, ReturnFacts DEF Climbers
  <1> HIDE DEF s
  <1>2. ASSUME NEW i \in DOMAIN s PROVE s[i].res # SaleShift
    <2>1. SaleShift # Nothing /\ Height(SaleShift) = 7 BY Heights DEF SaleShift, Nothing
    <2> QED BY <1>1, <2>1 DEF Under
  <1>3. ASSUME NEW i \in DOMAIN s, NEW n \in Nat, s[i].res = ShiftRow(n) PROVE s[i].mode = "N"
    <2>1. PICK k \in DOMAIN s : s[k] = ShiftLock(r) BY <1>1 DEF Occurs
    <2>2. ShiftLock(r).mode = "N" /\ ShiftLock(r).res = ShiftRow(Body[r].shift) BY DEF ShiftLock, On
    <2>3. Body[r].shift \in Nat BY <1>1, BodyType
    <2>4. \A m \in Nat : ShiftRow(m) # Nothing /\ Height(ShiftRow(m)) = 0 BY Heights DEF ShiftRow, Nothing
    <2>5. ~Above(s[i].res, s[k].res) /\ ~Above(s[k].res, s[i].res) BY <1>3, <2>1, <2>2, <2>3, <2>4 DEF Above
    <2>6. s[i].res # Nothing /\ s[k].res # Nothing BY <1>3, <2>1, <2>2, <2>3, <2>4
    <2>7. i \in Nat /\ k \in Nat BY <1>1
    <2>8. ~(i < k) /\ ~(k < i) BY <1>1, <2>5, <2>6 DEF Climbs
    <2> QED BY <2>1, <2>2, <2>7, <2>8
  <1>4. ASSUME NEW i \in DOMAIN s, NEW n \in Nat, s[i].res = LayersOf(n)
        PROVE  \E k \in DOMAIN s : k < i /\ s[k] = PositionLock(n)
    <2>1. PICK k \in DOMAIN s : s[k] = PositionLock(n) BY <1>1, <1>4 DEF Occurs
    <2>2. PositionLock(n).res = Position(n) BY DEF PositionLock, Lock, On
    <2>3. /\ Position(n) # Nothing /\ LayersOf(n) # Nothing /\ Position(n) # LayersOf(n)
          /\ Height(Position(n)) = 3 /\ Height(LayersOf(n)) = 6
      BY Heights DEF Position, LayersOf, Nothing
    <2>4. ~Above(s[i].res, s[k].res) BY <1>4, <2>1, <2>2, <2>3 DEF Above
    <2>5. ~(i < k) BY <1>1, <1>4, <2>1, <2>2, <2>3, <2>4 DEF Climbs
    <2>6. i # k BY <1>4, <2>1, <2>2, <2>3
    <2>7. i \in Nat /\ k \in Nat BY <1>1
    <2> QED BY <2>1, <2>5, <2>6, <2>7
  <1> QED BY <1>1, <1>2, <1>3, <1>4 DEF s

\* A climber that holds a lock and waits, waits for one further up.
LEMMA WaitsAbove ==
  ASSUME LockInv, sale.shift \in Nat, NEW r \in Climbers, NEW l \in held, l.by = r, Ready(r), Current(r).res # Nothing
  PROVE  /\ Above(l.res, Current(r).res)
         /\ \A n \in Nat : l.res = ShiftRow(n) => l.mode = "N"
         /\ \A n \in Nat : l.res = LayersOf(n) => Has(r, Position(n), "U")
         /\ \A n \in Nat : Current(r).res = LayersOf(n) => Has(r, Position(n), "U")
  <1> DEFINE s == Program[r]
  <1>0. r \in Requests BY DEF Climbers
  <1>1. /\ s \in Seq(Steps) /\ Climbs(s)
        /\ \A i \in DOMAIN s : s[i].res # SaleShift
        /\ \A i \in DOMAIN s : \A n \in Nat : s[i].res = ShiftRow(n) => s[i].mode = "N"
        /\ \A i \in DOMAIN s : \A n \in Nat : s[i].res = LayersOf(n) => \E k \in DOMAIN s : k < i /\ s[k] = PositionLock(n)
    BY ClimberFacts
  <1>2. pc[r] \in Nat /\ pc[r] <= Len(s) /\ pc[r] \in DOMAIN s
    <2>1. pc[r] \in Nat \ {0} BY <1>0 DEF LockInv, LockType
    <2>2. pc[r] <= Len(s) BY DEF Ready
    <2> HIDE DEF s
    <2> QED BY <1>1, <2>1, <2>2
  <1>3. Current(r).res = s[pc[r]].res
    <2>1. Current(r).res = s[pc[r]].res \/ s[pc[r]].res = SaleShift BY <1>0, <1>2, CurrentStep
    <2> QED BY <1>1, <1>2, <2>1
  <1>4. PICK i \in DOMAIN s : i < pc[r] /\ s[i].mode = l.mode /\ s[i].res = l.res
    <2>1. PICK i \in DOMAIN s : i < pc[r] /\ s[i].mode = l.mode /\ s[i].res \in {l.res, SaleShift}
      BY DEF LockInv, Origin
    <2> QED BY <1>1, <2>1
  <1>5. l.res # Nothing BY DEF LockInv, Origin
  <1>6. Holding BY DEF LockInv
  <1> HIDE DEF s
  <1>7. Above(l.res, Current(r).res) BY <1>1, <1>2, <1>3, <1>4, <1>5 DEF Climbs
  <1>8. ASSUME NEW n \in Nat, NEW j \in DOMAIN s, j <= pc[r], s[j].res = LayersOf(n) PROVE Has(r, Position(n), "U")
    <2>1. PICK k \in DOMAIN s : k < j /\ s[k] = PositionLock(n) BY <1>1, <1>8
    <2>2. j \in Nat /\ k \in Nat /\ k < pc[r] BY <1>1, <1>2, <1>8, <2>1
    <2>3. /\ PositionLock(n).res = Position(n) /\ PositionLock(n).mode = "U" /\ PositionLock(n).only = "always"
          /\ Position(n) # Nothing /\ Position(n) # SaleShift
      BY DEF PositionLock, Lock, On, Position, Nothing, SaleShift
    <2> QED BY <1>0, <1>6, <2>1, <2>2, <2>3 DEF Holding, s
  <1>9. i \in Nat /\ i <= pc[r] /\ pc[r] <= pc[r] BY <1>1, <1>2, <1>4
  <1>10. \A n \in Nat : l.res = LayersOf(n) => Has(r, Position(n), "U") BY <1>4, <1>8, <1>9
  <1>11. \A n \in Nat : Current(r).res = LayersOf(n) => Has(r, Position(n), "U") BY <1>2, <1>3, <1>8, <1>9
  <1> QED BY <1>1, <1>4, <1>7, <1>10, <1>11

\* A request that holds a lock, waits, and is not out of order is a climber, or
\* a customer's payment that waits for its shift.
LEMMA Waiters ==
  ASSUME LockInv, sale.shift \in Nat, NEW r \in Requests, ~OutOfOrder(r), NEW l \in held, l.by = r, Ready(r),
         Current(r).res # Nothing
  PROVE  \/ r \in Climbers
         \/ /\ Body[r].op = "pay" /\ Current(r).mode = "K" /\ l.mode = "K"
            /\ Current(r).res = ShiftRow(Body[r].shift)
  <1>1. Body[r].op \in Ops BY BodyType
  <1>2. PICK i \in DOMAIN Program[r] : i < pc[r] /\ Program[r][i].mode = l.mode /\ Program[r][i].res \in {l.res, SaleShift}
    BY DEF LockInv, Origin
  <1>3. l.res # Nothing BY DEF LockInv, Origin
  <1>4. Program[r] \in Seq(Steps) /\ pc[r] \in Nat /\ i \in Nat /\ i >= 1 /\ pc[r] <= Len(Program[r]) /\ pc[r] \in DOMAIN Program[r]
    <2>1. Program[r] \in Seq(Steps) BY ProgramType
    <2>2. pc[r] \in Nat \ {0} BY DEF LockInv, LockType
    <2>3. pc[r] <= Len(Program[r]) BY DEF Ready
    <2> QED BY <1>2, <2>1, <2>2, <2>3
  <1>5. CASE Body[r].op = "move"
    <2>1. Program[r] = <<ShiftLock(r)>> BY <1>5 DEF Program, MoveProgram, RequireCallerShift, ShiftLock
    <2>2. Len(Program[r]) = 1 BY <2>1
    <2> QED BY <1>2, <1>4, <2>2
  <1>6. CASE Body[r].op = "close"
    <2>1. Program[r] = <<CloseLock(r), Test("sum")>> BY <1>6 DEF Program, CloseProgram, CloseLock
    <2>2. Len(Program[r]) = 2 /\ Program[r][2] = Test("sum") BY <2>1
    <2>3. pc[r] = 2 BY <1>2, <1>4, <2>2
    <2>4. Test("sum").res = Nothing /\ Test("sum").only = "always" /\ Nothing # SaleShift BY DEF Test, On, Nothing, SaleShift
    <2>5. Current(r).res = Nothing BY <1>4, <2>2, <2>3, <2>4, CurrentStep
    <2> QED BY <2>5
  <1>7. CASE Body[r].op = "pay"
    <2>1. Program[r] = <<Test("shiftOpen"), Lock(CustomerRow, "K"), Lock(ShiftRow(Body[r].shift), "K")>>
      BY <1>7 DEF Program, PayProgram
    <2>2. /\ Len(Program[r]) = 3 /\ Program[r][1] = Test("shiftOpen") /\ Program[r][2] = Lock(CustomerRow, "K")
          /\ Program[r][3] = Lock(ShiftRow(Body[r].shift), "K")
      BY <2>1
    <2>3. Test("shiftOpen").res = Nothing /\ Nothing # SaleShift BY DEF Test, On, Nothing, SaleShift
    <2>4. i # 1 BY <1>2, <1>3, <2>2, <2>3
    <2>5. i = 2 /\ pc[r] = 3 BY <1>2, <1>4, <2>2, <2>4
    <2>6. Lock(CustomerRow, "K").mode = "K" BY DEF Lock, On
    <2>7. /\ Lock(ShiftRow(Body[r].shift), "K").mode = "K" /\ Lock(ShiftRow(Body[r].shift), "K").only = "always"
          /\ Lock(ShiftRow(Body[r].shift), "K").res = ShiftRow(Body[r].shift) /\ ShiftRow(Body[r].shift) # SaleShift
      BY DEF Lock, On, ShiftRow, SaleShift
    <2>8. Current(r).mode = "K" /\ Current(r).res = ShiftRow(Body[r].shift) BY <1>4, <2>2, <2>5, <2>7, CurrentStep
    <2>9. l.mode = "K" BY <1>2, <2>2, <2>5, <2>6
    <2> QED BY <1>7, <2>8, <2>9
  <1>8. CASE Body[r].op \in {"sale", "return"} BY <1>8 DEF Climbers
  <1>9. Body[r].op \notin {"void", "cancel", "tab"} BY DEF OutOfOrder
  <1> QED BY <1>1, <1>5, <1>6, <1>7, <1>8, <1>9 DEF Ops

\* The heights are these.
LEMMA HeightRange ==
  ASSUME NEW res \in Tables \X Nat
  PROVE  /\ Height(res) \in 0 .. 7 /\ res[2] \in Nat
         /\ Height(res) = 6 => res = LayersOf(res[2])
  <1>1. PICK t \in Tables, m \in Nat : res = <<t, m>> OBVIOUS
  <1>2. res[1] = t /\ res[2] = m BY <1>1
  <1>3. Height(res) \in 0 .. 7 BY DEF Height
  <1>4. Height(res) = 6 => t = "layers"
    <2>1. t \in {"shift", "sale's shift", "line", "customer", "position", "INV", "RET", "sale", "layers", "nothing"}
      BY DEF Tables
    <2>2. CASE t = "layers" BY <2>2
    <2>3. CASE t # "layers"
      <3>1. Height(res) \in {0, 1, 2, 3, 4, 5, 7}
        <4>1. CASE t \in {"shift", "line", "customer", "position"} BY <1>2, <4>1 DEF Height
        <4>2. CASE t \in {"INV", "RET", "sale"} BY <1>2, <4>2 DEF Height
        <4>3. CASE t \in {"sale's shift", "nothing"} BY <1>2, <4>3 DEF Height
        <4> QED BY <2>1, <2>3, <4>1, <4>2, <4>3
      <3> QED BY <3>1
    <2> QED BY <2>2, <2>3
  <1> QED BY <1>1, <1>2, <1>3, <1>4 DEF LayersOf

\* Requests that follow the lock order never wait for each other in a cycle.
LEMMA NoCycle == ASSUME LockInv, sale.shift \in Nat PROVE LockOrderSuffices
  <1> SUFFICES ASSUME NEW w \in Cycles, \A i \in DOMAIN w : ~OutOfOrder(w[i]) PROVE FALSE
    BY DEF LockOrderSuffices
  <1> DEFINE waiting == {r \in Running : Ready(r) /\ Blocked(r)}
             blockers == [r \in waiting |-> Blockers(r)]
  <1>1. PICK n \in 2..Cardinality(waiting) : w \in [1..n -> waiting] /\ \A i \in 1..n : w[(i % n) + 1] \in blockers[w[i]]
    BY DEF Cycles
  <1>2. n \in Nat /\ n >= 2 OBVIOUS
  <1>3. \A i \in 1..n : w[i] \in Requests /\ Ready(w[i]) /\ ~OutOfOrder(w[i])
    BY <1>1 DEF Running
  <1>4. \A i \in 1..n : w[(i % n) + 1] \in Blockers(w[i])
    BY <1>1
  <1> HIDE DEF waiting, blockers
  <1> DEFINE next(i) == (i % n) + 1
             want(i) == Current(w[i]).res
  <1>5. (\A i \in 1..n : next(i) \in 1..n) /\ \A j \in 1..n : \E i \in 1..n : next(i) = j
    <2>1. \A i \in 1..n : next(i) \in 1..n BY <1>2
    <2>2. ASSUME NEW j \in 1..n PROVE \E i \in 1..n : next(i) = j
      <3>1. CASE j = 1
        <4>1. n % n = 0 BY <1>2
        <4>2. n \in 1..n /\ next(n) = 1 BY <1>2, <4>1
        <4> QED BY <3>1, <4>2
      <3>2. CASE j # 1
        <4>1. j - 1 \in 1..n /\ j - 1 < n /\ j - 1 \in Nat BY <1>2, <3>2
        <4>2. (j - 1) % n = j - 1 BY <1>2, <4>1
        <4>3. next(j - 1) = j BY <4>1, <4>2
        <4> QED BY <4>1, <4>3
      <3> QED BY <3>1, <3>2
    <2> QED BY <2>1, <2>2
  <1> HIDE DEF next
  <1>6. \A i \in 1..n : \E l \in held : /\ l.by = w[next(i)] /\ l.by # w[i] /\ l.res = want(i)
                                        /\ Conflict(l.mode, Current(w[i]).mode)
    BY <1>4 DEF Blockers, next
  <1>7. \A i \in 1..n : want(i) # Nothing
    <2>1. \A l \in held : l.res # Nothing BY DEF LockInv, Origin
    <2> HIDE DEF want
    <2> QED BY <1>6, <2>1
  <1>8. \A j \in 1..n : \E l \in held : l.by = w[j]
    BY <1>5, <1>6
  <1>9. \A i \in 1..n : want(i) \in Tables \X Nat
    BY <1>6 DEF LockInv, LockType, Locks
  <1> DEFINE Climbing(i) == w[i] \in Climbers
             Paying(i) == /\ Body[w[i]].op = "pay" /\ Current(w[i]).mode = "K" /\ \E m \in Nat : want(i) = ShiftRow(m)
  <1>10. ASSUME NEW i \in 1..n PROVE Climbing(i) \/ Paying(i)
    <2>1. PICK l \in held : l.by = w[i] BY <1>8
    <2>2. \/ w[i] \in Climbers
          \/ /\ Body[w[i]].op = "pay" /\ Current(w[i]).mode = "K" /\ l.mode = "K"
             /\ Current(w[i]).res = ShiftRow(Body[w[i]].shift)
      BY <1>3, <1>7, <2>1, Waiters
    <2>3. Body[w[i]].shift \in Nat BY <1>3, BodyType
    <2> QED BY <2>2, <2>3
  <1>11. ASSUME NEW i \in 1..n PROVE Climbing(i)
    <2> SUFFICES ASSUME Paying(i) PROVE FALSE BY <1>10
    <2>1. PICK l \in held : /\ l.by = w[next(i)] /\ l.res = want(i) /\ Conflict(l.mode, Current(w[i]).mode)
      BY <1>6
    <2>2. next(i) \in 1..n BY <1>5
    <2>3. PICK m \in Nat : l.res = ShiftRow(m) BY <2>1
    <2>4. l.mode = "U" BY <2>1 DEF Conflict
    <2>5. /\ w[next(i)] \in Requests /\ ~OutOfOrder(w[next(i)]) /\ Ready(w[next(i)]) /\ Current(w[next(i)]).res # Nothing
      BY <1>3, <1>7, <2>2
    <2>6. w[next(i)] \in Climbers BY <2>1, <2>4, <2>5, Waiters
    <2>7. l.mode = "N" BY <2>1, <2>3, <2>5, <2>6, WaitsAbove
    <2> QED BY <2>4, <2>7
  <1>12. ASSUME NEW i \in 1..n
         PROVE  Above(want(i), want(next(i))) /\ Height(want(i)) # 6
    <2>1. PICK l \in held : /\ l.by = w[next(i)] /\ l.by # w[i] /\ l.res = want(i)
      BY <1>6
    <2>2. PICK k \in held : k.by = w[i] BY <1>8
    <2>3. next(i) \in 1..n BY <1>5
    <2>4. w[i] \in Climbers /\ w[next(i)] \in Climbers BY <1>11, <2>3
    <2>5. Ready(w[i]) /\ Ready(w[next(i)]) /\ Current(w[i]).res # Nothing /\ Current(w[next(i)]).res # Nothing
      BY <1>3, <1>7, <2>3
    <2>6. Above(want(i), want(next(i))) BY <2>1, <2>4, <2>5, WaitsAbove
    <2>7. ASSUME Height(want(i)) = 6 PROVE FALSE
      <3>1. PICK m \in Nat : want(i) = LayersOf(m) BY <1>9, <2>7, HeightRange
      <3>2. Has(w[next(i)], Position(m), "U") BY <2>1, <2>4, <2>5, <3>1, WaitsAbove
      <3>3. Has(w[i], Position(m), "U") BY <2>2, <2>4, <2>5, <3>1, WaitsAbove
      <3>4. w[i] # w[next(i)] BY <2>1
      <3> QED BY <3>2, <3>3, <3>4 DEF Has, LockInv, Exclusive, Conflict
    <2> QED BY <2>6, <2>7
  <1> HIDE DEF want
  <1>13. \A i \in 1..n : Height(want(i)) \in 0 .. 7 /\ want(i)[2] \in Nat
    BY <1>9, HeightRange
  <1>14. \A i \in 1..n : Height(want(i)) \in 0 .. 5
    <2> SUFFICES ASSUME NEW i \in 1..n PROVE Height(want(i)) # 7
      BY <1>12, <1>13
    <2>1. next(i) \in 1..n BY <1>5
    <2> QED BY <1>12, <1>13, <2>1 DEF Above
  <1>15. \A i \in 1..n : Height(want(i)) \in 0 .. 4
    <2> SUFFICES ASSUME NEW i \in 1..n PROVE Height(want(i)) # 5
      BY <1>14
    <2>1. next(i) \in 1..n BY <1>5
    <2> QED BY <1>12, <1>14, <2>1 DEF Above
  <1>16. \A i \in 1..n : Height(want(i)) \in 0 .. 3
    <2> SUFFICES ASSUME NEW i \in 1..n PROVE Height(want(i)) # 4
      BY <1>15
    <2>1. next(i) \in 1..n BY <1>5
    <2> QED BY <1>12, <1>15, <2>1 DEF Above
  <1> DEFINE rank(i) == IF Height(want(i)) = 3 THEN 3 + want(i)[2] ELSE Height(want(i))
             ranks == {rank(i) : i \in 1..n}
  <1>17. \A i \in 1..n : rank(i) \in Nat
    BY <1>13, <1>16
  <1>18. ASSUME NEW i \in 1..n PROVE rank(i) < rank(next(i))
    <2>1. next(i) \in 1..n BY <1>5
    <2> QED BY <1>12, <1>13, <1>16, <2>1 DEF Above
  <1> HIDE DEF rank
  <1>19. ranks \subseteq Nat /\ ranks # {}
    BY <1>2, <1>17
  <1>20. PICK x \in ranks : \A y \in ranks : x <= y
    BY <1>19, LeastNatural
  <1>21. PICK j \in 1..n : rank(j) = x
    BY <1>20
  <1>22. PICK i \in 1..n : next(i) = j
    BY <1>5
  <1>23. rank(i) < rank(j) /\ rank(i) \in Nat /\ rank(j) \in Nat /\ rank(j) <= rank(i)
    BY <1>17, <1>18, <1>20, <1>21, <1>22
  <1> QED BY <1>23

\* Requests that follow the lock order never wait for each other in a cycle, for
\* any number of them: in every deadlock there is a void, a cancel, a tab or a
\* cash sale that names the customer (sale_service, return_service,
\* register_service).
THEOREM LockOrderAlwaysSuffices == Spec => []LockOrderSuffices
  <1>1. CheckoutInv => LockOrderSuffices
    <2> SUFFICES ASSUME CheckoutInv PROVE LockOrderSuffices OBVIOUS
    <2>1. sale.shift \in Nat BY CheckoutAssumption DEF CheckoutInv, DataType, SaleRow
    <2> QED BY <2>1, NoCycle DEF CheckoutInv
  <1> QED BY <1>1, CheckoutAlways, PTL
=============================================================================

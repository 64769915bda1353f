---------------------------- MODULE SumsTheorems ----------------------------
(***************************************************************************)
(* Facts about Sums.  Induction over the number of entries is stated for a *)
(* set of naturals rather than for a predicate: the provers instantiate    *)
(* the set, and its least missing element is what proves it.               *)
(***************************************************************************)
EXTENDS Sums, WellFoundedInduction, TLAPS

\* A set of naturals that is not empty has a least element.
LEMMA LeastNatural ==
  ASSUME NEW T \in SUBSET Nat, T # {}
  PROVE  \E m \in T : \A k \in T : m <= k
<1>1. PICK m \in T : \A k \in T : ~ (<<k, m>> \in OpToRel(<, Nat))
  BY NatLessThanWellFounded, WFMin, Zenon
<1>2. \A k \in T : ~ (k < m)
  BY <1>1, Zenon DEF OpToRel
<1>3. QED
  BY <1>2

\* Induction up to n: G holds 0 and with every number the next.
LEMMA UpTo ==
  ASSUME NEW n \in Nat, NEW G, 0 \in G,
         \A m \in 1 .. n : m - 1 \in G => m \in G
  PROVE  \A m \in 0 .. n : m \in G
<1> DEFINE Bad == {m \in 0 .. n : m \notin G}
<1>1. Bad \in SUBSET Nat
  OBVIOUS
<1>2. SUFFICES ASSUME Bad # {} PROVE FALSE
  OBVIOUS
<1> HIDE DEF Bad
<1>3. PICK m \in Bad : \A k \in Bad : m <= k
  BY <1>1, <1>2, LeastNatural
<1> USE DEF Bad
<1>4. m \in 1 .. n /\ m - 1 \in 0 .. n /\ m - 1 \notin Bad
  BY <1>3
<1>5. QED
  BY <1>4

\* What it takes for p to hold the sums of the first 0 .. k entries of x.
Accumulates(p, x, k) ==
  /\ p \in [0 .. k -> Int]
  /\ p[0] = 0
  /\ \A i \in 1 .. k : p[i] = p[i - 1] + x[i]

\* A table of partial sums is extended by one entry.
LEMMA ExtendSums ==
  ASSUME NEW n \in Nat, NEW x \in [1 .. n -> Int], NEW m \in 1 .. n,
         NEW p, Accumulates(p, x, m - 1)
  PROVE  Accumulates([i \in 0 .. m |-> IF i = m THEN p[m - 1] + x[m] ELSE p[i]], x, m)
<1> DEFINE e == [i \in 0 .. m |-> IF i = m THEN p[m - 1] + x[m] ELSE p[i]]
<1>1. /\ p \in [0 .. (m - 1) -> Int] /\ p[0] = 0
      /\ \A i \in 1 .. (m - 1) : p[i] = p[i - 1] + x[i]
  BY DEF Accumulates
<1>2. p[m - 1] + x[m] \in Int
  BY <1>1
<1>3. e \in [0 .. m -> Int]
  BY <1>1, <1>2
<1>4. e[0] = 0
  BY <1>1
<1>5. ASSUME NEW i \in 1 .. m PROVE e[i] = e[i - 1] + x[i]
  <2>1. i - 1 \in 0 .. (m - 1) /\ e[i - 1] = p[i - 1]
    OBVIOUS
  <2>2. CASE i = m
    BY <2>1, <2>2
  <2>3. CASE i # m
    <3>1. i \in 1 .. (m - 1) /\ e[i] = p[i]
      BY <2>3
    <3>2. QED
      BY <1>1, <2>1, <3>1
  <2>4. QED
    BY <2>2, <2>3
<1> HIDE DEF e
<1>6. Accumulates(e, x, m)
  BY <1>3, <1>4, <1>5 DEF Accumulates
<1>7. QED
  BY <1>6 DEF e

\* The partial sums of integers exist and are integers: the recursive function of
\* Sums is well defined.
LEMMA PartialSumsAccumulate ==
  ASSUME NEW n \in Nat, NEW x \in [1 .. n -> Int]
  PROVE  Accumulates(PartialSums(x, n), x, n)
<1> DEFINE Good == {k \in 0 .. n : \E p : Accumulates(p, x, k)}
<1>1. 0 \in Good
  <2>1. Accumulates([i \in 0 .. 0 |-> 0], x, 0)
    BY DEF Accumulates
  <2>2. QED
    BY <2>1
<1>2. ASSUME NEW m \in 1 .. n, m - 1 \in Good PROVE m \in Good
  <2>1. PICK p : Accumulates(p, x, m - 1)
    BY <1>2
  <2>2. \E e : Accumulates(e, x, m)
    BY <2>1, ExtendSums
  <2>3. QED
    BY <2>2
<1>3. \A m \in 0 .. n : m \in Good
  <2> HIDE DEF Good
  <2>1. QED
    BY <1>1, <1>2, UpTo
<1>4. PICK p : Accumulates(p, x, n)
  <2>1. n \in Good
    BY <1>3
  <2>2. QED
    BY <2>1
<1> DEFINE Step(q) == [i \in 0 .. n |-> IF i = 0 THEN 0 ELSE q[i - 1] + x[i]]
<1>5. p = Step(p)
  BY <1>4 DEF Accumulates
<1> DEFINE q == PartialSums(x, n)
<1>6. q = Step(q)
  <2>1. q = CHOOSE s : s = Step(s)
    BY DEF PartialSums
  <2>2. (CHOOSE s : s = Step(s)) = Step(CHOOSE s : s = Step(s))
    <3> HIDE DEF Step
    <3>1. QED
      BY <1>5, Zenon
  <2>3. QED
    BY <2>1, <2>2, Zenon
<1> HIDE DEF q
<1>7. /\ q = [i \in 0 .. n |-> q[i]]
      /\ q[0] = 0
      /\ \A i \in 1 .. n : q[i] = q[i - 1] + x[i]
  BY <1>6
<1> DEFINE Same == {k \in 0 .. n : q[k] = p[k]}
<1>8. 0 \in Same
  BY <1>4, <1>7 DEF Accumulates
<1>9. ASSUME NEW m \in 1 .. n, m - 1 \in Same PROVE m \in Same
  <2>1. q[m - 1] = p[m - 1]
    BY <1>9
  <2>2. q[m] = q[m - 1] + x[m] /\ p[m] = p[m - 1] + x[m]
    BY <1>4, <1>7 DEF Accumulates
  <2>3. QED
    BY <2>1, <2>2
<1>10. \A m \in 0 .. n : m \in Same
  <2> HIDE DEF Same
  <2>1. QED
    BY <1>8, <1>9, UpTo
<1>11. Accumulates(q, x, n)
  BY <1>4, <1>7, <1>10 DEF Accumulates
<1>12. QED
  BY <1>11 DEF q

\* The sum of integers is an integer.
LEMMA SumInt ==
  ASSUME NEW n \in Nat, NEW x \in [1 .. n -> Int]
  PROVE  SumTo(x, n) \in Int
BY PartialSumsAccumulate DEF SumTo, Accumulates

\* Changing one entry changes the sum by as much: how one row's update moves a SUM().
LEMMA SumUpdate ==
  ASSUME NEW n \in Nat, NEW x \in [1 .. n -> Int], NEW y \in [1 .. n -> Int],
         NEW k \in 1 .. n, \A i \in 1 .. n : i # k => y[i] = x[i]
  PROVE  SumTo(y, n) = SumTo(x, n) + y[k] - x[k]
<1> DEFINE p == PartialSums(x, n)
           q == PartialSums(y, n)
           Moved == {i \in 0 .. n : q[i] = p[i] + (IF i >= k THEN y[k] - x[k] ELSE 0)}
<1>1. Accumulates(p, x, n) /\ Accumulates(q, y, n)
  BY PartialSumsAccumulate
<1> HIDE DEF p, q
<1>2. 0 \in Moved
  BY <1>1 DEF Accumulates
<1>3. ASSUME NEW m \in 1 .. n, m - 1 \in Moved PROVE m \in Moved
  <2>1. m - 1 \in 0 .. n /\ q[m - 1] = p[m - 1] + (IF m - 1 >= k THEN y[k] - x[k] ELSE 0)
    BY <1>3
  <2>2. p[m] = p[m - 1] + x[m] /\ q[m] = q[m - 1] + y[m] /\ p[m - 1] \in Int /\ q[m - 1] \in Int
    BY <1>1, <2>1 DEF Accumulates
  <2>3. x[m] \in Int /\ y[m] \in Int /\ x[k] \in Int /\ y[k] \in Int
    OBVIOUS
  <2>4. q[m] = p[m] + (IF m >= k THEN y[k] - x[k] ELSE 0)
    <3>1. CASE m = k
      <4>1. q[m - 1] = p[m - 1]
        BY <2>1, <2>2, <3>1
      <4>2. QED
        BY <2>2, <2>3, <3>1, <4>1
    <3>2. CASE m < k
      BY <2>1, <2>2, <2>3, <3>2
    <3>3. CASE m > k
      BY <2>1, <2>2, <2>3, <3>3
    <3>4. QED
      BY <3>1, <3>2, <3>3
  <2>5. QED
    BY <2>4
<1>4. \A m \in 0 .. n : m \in Moved
  <2> HIDE DEF Moved
  <2>1. QED
    BY <1>2, <1>3, UpTo
<1>5. q[n] = p[n] + (y[k] - x[k])
  <2>1. n \in Moved
    BY <1>4
  <2>2. QED
    BY <2>1
<1>6. p[n] \in Int /\ x[k] \in Int /\ y[k] \in Int
  BY <1>1 DEF Accumulates
<1>7. QED
  BY <1>5, <1>6 DEF SumTo, p, q

\* The same for an EXCEPT.
LEMMA SumExcept ==
  ASSUME NEW n \in Nat, NEW x \in [1 .. n -> Int], NEW k \in 1 .. n, NEW v \in Int
  PROVE  SumTo([x EXCEPT ![k] = v], n) = SumTo(x, n) + v - x[k]
<1> DEFINE y == [x EXCEPT ![k] = v]
<1>1. y \in [1 .. n -> Int] /\ y[k] = v /\ \A i \in 1 .. n : i # k => y[i] = x[i]
  OBVIOUS
<1> HIDE DEF y
<1>2. SumTo(y, n) = SumTo(x, n) + v - x[k]
  BY <1>1, SumUpdate
<1>3. QED
  BY <1>2 DEF y

\* A table of zeros adds up to zero.
LEMMA SumZero ==
  ASSUME NEW n \in Nat, NEW x \in [1 .. n -> Int], \A i \in 1 .. n : x[i] = 0
  PROVE  SumTo(x, n) = 0
<1> DEFINE p == PartialSums(x, n)
           Zero == {i \in 0 .. n : p[i] = 0}
<1>1. Accumulates(p, x, n)
  BY PartialSumsAccumulate
<1> HIDE DEF p
<1>2. 0 \in Zero
  BY <1>1 DEF Accumulates
<1>3. ASSUME NEW m \in 1 .. n, m - 1 \in Zero PROVE m \in Zero
  BY <1>1, <1>3 DEF Accumulates
<1>4. \A m \in 0 .. n : m \in Zero
  <2> HIDE DEF Zero
  <2>1. QED
    BY <1>2, <1>3, UpTo
<1>5. n \in Zero
  BY <1>4
<1>6. QED
  BY <1>5 DEF SumTo, p

\* A sum of naturals is a natural and at least each of its entries.
LEMMA SumNat ==
  ASSUME NEW n \in Nat, NEW x \in [1 .. n -> Nat]
  PROVE  /\ SumTo(x, n) \in Nat
         /\ \A k \in 1 .. n : x[k] <= SumTo(x, n)
<1> DEFINE p == PartialSums(x, n)
           Bounds == {i \in 0 .. n : p[i] >= 0 /\ \A k \in 1 .. i : x[k] <= p[i]}
<1>1. Accumulates(p, x, n)
  BY PartialSumsAccumulate
<1> HIDE DEF p
<1>2. 0 \in Bounds
  BY <1>1 DEF Accumulates
<1>3. ASSUME NEW m \in 1 .. n, m - 1 \in Bounds PROVE m \in Bounds
  <2>1. p[m - 1] >= 0 /\ \A k \in 1 .. (m - 1) : x[k] <= p[m - 1]
    BY <1>3
  <2>2. p[m] = p[m - 1] + x[m] /\ p[m - 1] \in Int /\ x[m] \in Nat
    BY <1>1 DEF Accumulates
  <2>3. ASSUME NEW k \in 1 .. m PROVE x[k] <= p[m]
    <3>1. CASE k = m
      BY <2>1, <2>2, <3>1
    <3>2. CASE k # m
      <4>1. k \in 1 .. (m - 1) /\ x[k] \in Nat
        BY <3>2
      <4>2. QED
        BY <2>1, <2>2, <4>1
    <3>3. QED
      BY <3>1, <3>2
  <2>4. QED
    BY <2>1, <2>2, <2>3
<1>4. \A m \in 0 .. n : m \in Bounds
  <2> HIDE DEF Bounds
  <2>1. QED
    BY <1>2, <1>3, UpTo
<1>5. p[n] >= 0 /\ \A k \in 1 .. n : x[k] <= p[n]
  <2>1. n \in Bounds
    BY <1>4
  <2>2. QED
    BY <2>1
<1>6. p[n] \in Int
  BY <1>1 DEF Accumulates
<1>7. QED
  BY <1>5, <1>6 DEF SumTo, p

\* Sums of no, one and two rows.
LEMMA SumOfFew ==
  /\ \A x \in [1 .. 0 -> Int] : SumTo(x, 0) = 0
  /\ \A x \in [1 .. 1 -> Int] : SumTo(x, 1) = x[1]
  /\ \A x \in [1 .. 2 -> Int] : SumTo(x, 2) = x[1] + x[2]
<1>1. ASSUME NEW x \in [1 .. 0 -> Int] PROVE SumTo(x, 0) = 0
  BY PartialSumsAccumulate DEF SumTo, Accumulates
<1>2. ASSUME NEW x \in [1 .. 1 -> Int] PROVE SumTo(x, 1) = x[1]
  <2> DEFINE p == PartialSums(x, 1)
  <2>1. Accumulates(p, x, 1)
    BY PartialSumsAccumulate
  <2> HIDE DEF p
  <2>2. p[0] = 0 /\ p[1] = p[0] + x[1]
    BY <2>1 DEF Accumulates
  <2>3. p[1] = x[1]
    BY <2>2
  <2>4. QED
    BY <2>3 DEF p, SumTo
<1>3. ASSUME NEW x \in [1 .. 2 -> Int] PROVE SumTo(x, 2) = x[1] + x[2]
  <2> DEFINE p == PartialSums(x, 2)
  <2>1. Accumulates(p, x, 2)
    BY PartialSumsAccumulate
  <2> HIDE DEF p
  <2>2. p[0] = 0 /\ p[1] = p[0] + x[1] /\ p[2] = p[1] + x[2]
    BY <2>1 DEF Accumulates
  <2>3. p[2] = x[1] + x[2]
    BY <2>2
  <2>4. QED
    BY <2>3 DEF p, SumTo
<1>4. QED
  BY <1>1, <1>2, <1>3
=============================================================================

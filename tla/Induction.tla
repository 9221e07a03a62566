----------------------------- MODULE Induction ------------------------------
(***************************************************************************)
(* Induction over the natural numbers, in the first-order form the provers *)
(* use: the property is a set of numbers, and what is defined step by step *)
(* is a function with one step function for each argument.  Sums are the   *)
(* functions of this kind that several components' properties speak of.    *)
(***************************************************************************)
EXTENDS Sums, WellFoundedInduction, TLAPS

\* A set of natural numbers that is not empty has a least element.
LEMMA LeastNumber ==
    ASSUME NEW T \in SUBSET Nat, T # {}
    PROVE  \E x \in T : \A y \in T : x <= y
<1> DEFINE R == OpToRel(<, Nat)
<1>1. IsWellFoundedOn(R, Nat)
  BY NatLessThanWellFounded, Zenon
<1>2. R = {ss \in Nat \X Nat : ss[1] < ss[2]}
  BY DEF OpToRel
<1> HIDE DEF R
<1>3. PICK x \in T : \A y \in T : ~ (<<y, x>> \in R)
  BY <1>1, WFMin, Zenon
<1>4. \A y \in T : ~(y < x)
  BY <1>2, <1>3
<1>5. QED
  BY <1>4

\* What holds of 0 and passes from each number to the next holds of all.
LEMMA NatInduct ==
    ASSUME NEW S \in SUBSET Nat, 0 \in S, \A n \in S : n + 1 \in S
    PROVE  S = Nat
<1> SUFFICES ASSUME Nat \ S # {} PROVE FALSE
  OBVIOUS
<1>1. PICK x \in Nat \ S : \A y \in Nat \ S : x <= y
  BY LeastNumber
<1>2. x # 0 /\ x - 1 \in Nat /\ ~(x <= x - 1)
  BY <1>1
<1>3. x - 1 \in S
  BY <1>1, <1>2
<1>4. QED
  BY <1>1, <1>2, <1>3

\* A step function for each of the arguments 1..N, and a function that follows
\* them.
StepsOn(step, N, S) == step \in [1..N -> [S -> S]]
Follows(g, step, N) == \A i \in 1..N : g[i] = step[i][g[i - 1]]

\* There is a function that starts with b and follows the steps ...
LEMMA StepsExist ==
    ASSUME NEW S, NEW b \in S, NEW N \in Nat, NEW step, StepsOn(step, N, S)
    PROVE  \E g \in [0..N -> S] : g[0] = b /\ Follows(g, step, N)
<1> USE DEF StepsOn, Follows
<1> DEFINE G(n) == {g \in [0..n -> S] : g[0] = b /\ \A i \in 1..n : g[i] = step[i][g[i - 1]]}
           Good == {n \in Nat : n <= N => G(n) # {}}
<1>1. 0 \in Good
  <2>1. [i \in 0..0 |-> b] \in G(0)
    OBVIOUS
  <2>2. QED
    BY <2>1
<1>2. ASSUME NEW n \in Good PROVE n + 1 \in Good
  <2> SUFFICES ASSUME n + 1 <= N PROVE G(n + 1) # {}
    OBVIOUS
  <2>1. PICK g \in G(n) : TRUE
    OBVIOUS
  <2> DEFINE h == [i \in 0..(n + 1) |-> IF i = n + 1 THEN step[n + 1][g[n]] ELSE g[i]]
  <2>2. step[n + 1][g[n]] \in S
    OBVIOUS
  <2>3. h \in [0..(n + 1) -> S] /\ h[0] = b
    BY <2>1, <2>2
  <2>4. ASSUME NEW i \in 1..(n + 1) PROVE h[i] = step[i][h[i - 1]]
    <3>1. CASE i = n + 1
      BY <2>1, <3>1
    <3>2. CASE i \in 1..n
      BY <2>1, <3>2
    <3>3. QED
      BY <3>1, <3>2
  <2>5. QED
    BY <2>3, <2>4
<1> HIDE DEF Good
<1>3. Good = Nat
  <2>1. Good \in SUBSET Nat
    BY DEF Good
  <2>2. QED
    BY <1>1, <1>2, <2>1, NatInduct
<1>4. QED
  BY <1>3 DEF Good

\* ... and two that do are the same as far as both go.
LEMMA StepsAgree ==
    ASSUME NEW N \in Nat, NEW step, NEW g, NEW h, g[0] = h[0],
           Follows(g, step, N), Follows(h, step, N)
    PROVE  \A i \in 0..N : g[i] = h[i]
<1> USE DEF Follows
<1> DEFINE Good == {n \in Nat : n <= N => g[n] = h[n]}
<1>1. 0 \in Good
  OBVIOUS
<1>2. ASSUME NEW n \in Good PROVE n + 1 \in Good
  <2>1. SUFFICES ASSUME n + 1 <= N PROVE g[n + 1] = h[n + 1]
    OBVIOUS
  <2>2. g[n] = h[n] /\ (n + 1) - 1 = n /\ n + 1 \in 1..N
    BY <2>1
  <2>3. QED
    BY <2>2
<1> HIDE DEF Good
<1>3. Good = Nat
  <2>1. Good \in SUBSET Nat
    BY DEF Good
  <2>2. QED
    BY <1>1, <1>2, <2>1, NatInduct
<1>4. QED
  BY <1>3 DEF Good

\* What no step changes is what it was at the start.
LEMMA SameThroughout ==
    ASSUME NEW a \in Nat, NEW b \in Nat, NEW g, \A i \in (a + 1)..b : g[i] = g[i - 1]
    PROVE  \A i \in a..b : g[i] = g[a]
<1> DEFINE Good == {n \in Nat : a + n <= b => g[a + n] = g[a]}
<1>1. 0 \in Good
  OBVIOUS
<1>2. ASSUME NEW n \in Good PROVE n + 1 \in Good
  <2>1. SUFFICES ASSUME a + (n + 1) <= b PROVE g[a + (n + 1)] = g[a]
    OBVIOUS
  <2>2. g[a + n] = g[a] /\ a + (n + 1) \in (a + 1)..b /\ (a + (n + 1)) - 1 = a + n
    BY <2>1
  <2>3. QED
    BY <2>2
<1> HIDE DEF Good
<1>3. Good = Nat
  <2>1. Good \in SUBSET Nat
    BY DEF Good
  <2>2. QED
    BY <1>1, <1>2, <2>1, NatInduct
<1>4. ASSUME NEW i \in a..b PROVE g[i] = g[a]
  <2>1. i - a \in Nat /\ a + (i - a) = i /\ i <= b
    OBVIOUS
  <2>2. i - a \in Good
    BY <1>3, <2>1
  <2>3. QED
    BY <2>1, <2>2 DEF Good
<1>5. QED
  BY <1>4

-----------------------------------------------------------------------------
(***************************************************************************)
(* Sums.                                                                   *)
(***************************************************************************)
\* Sums are the running total of the amounts: there is one ...
LEMMA TotalSteps ==
    ASSUME NEW f \in Seq(Int)
    PROVE  \E g \in [0..Len(f) -> Int] : /\ g[0] = 0 /\ Total(f) = g[Len(f)]
                                         /\ \A n \in 1..Len(f) : g[n] = g[n - 1] + f[n]
  <1> DEFINE N == Len(f)
             step == [n \in 1..N |-> [t \in Int |-> t + f[n]]]
             F(h) == [n \in 0..N |-> IF n = 0 THEN 0 ELSE h[n - 1] + f[n]]
             h == CHOOSE x : x = F(x)
  <1>1. N \in Nat /\ \A n \in 1..N : f[n] \in Int
    OBVIOUS
  <1>2. step \in [1..N -> [Int -> Int]] /\ \A n \in 1..N, t \in Int : step[n][t] = t + f[n]
    BY <1>1
  <1> HIDE DEF step, N
  <1>3. PICK g \in [0..N -> Int] : g[0] = 0 /\ \A n \in 1..N : g[n] = step[n][g[n - 1]]
    <2>1. StepsOn(step, N, Int)
      BY <1>2 DEF StepsOn
    <2>2. \E g \in [0..N -> Int] : g[0] = 0 /\ Follows(g, step, N)
      BY <1>1, <2>1, StepsExist
    <2> QED BY <2>2 DEF Follows
  <1>4. \A n \in 1..N : g[n] = g[n - 1] + f[n] /\ g[n - 1] \in Int
    <2>1. \A n \in 1..N : n - 1 \in 0..N
      BY <1>1
    <2> QED BY <1>2, <1>3, <2>1
  <1>5. g = F(g)
    BY <1>1, <1>3, <1>4
  <1>6. h = F(h)
    <2> HIDE DEF F
    <2> QED BY <1>5
  <1>7. Total(f) = h[N]
    BY DEF Total, N
  <1> HIDE DEF h
  <1>8. \A n \in 0..N : g[n] = h[n]
    <2> DEFINE both == [n \in 1..N |-> [t \in Int \cup {h[m] : m \in 0..N} |-> t + f[n]]]
    <2>1. ASSUME NEW n \in 1..N PROVE g[n] = both[n][g[n - 1]] /\ h[n] = both[n][h[n - 1]]
      <3>1. n \in 0..N /\ n # 0 /\ n - 1 \in 0..N
        BY <1>1
      <3>2. h[n] = h[n - 1] + f[n]
        BY <1>6, <3>1
      <3>3. h[n - 1] \in {h[m] : m \in 0..N}
        BY <3>1
      <3> QED BY <1>4, <3>2, <3>3
    <2> HIDE DEF both
    <2>2. Follows(g, both, N) /\ Follows(h, both, N)
      BY <2>1 DEF Follows
    <2>3. g[0] = h[0]
      BY <1>1, <1>3, <1>6
    <2> HIDE DEF F
    <2> QED BY <1>1, <2>2, <2>3, StepsAgree
  <1>9. Total(f) = g[N]
    BY <1>1, <1>7, <1>8
  <1> HIDE DEF F
  <1> QED BY <1>3, <1>4, <1>9 DEF N

\* ... and only one.
LEMMA TotalIs ==
    ASSUME NEW f \in Seq(Int), NEW g \in [0..Len(f) -> Int], g[0] = 0,
           \A n \in 1..Len(f) : g[n] = g[n - 1] + f[n]
    PROVE  Total(f) = g[Len(f)]
  <1>1. PICK h \in [0..Len(f) -> Int] : /\ h[0] = 0 /\ Total(f) = h[Len(f)]
                                        /\ \A n \in 1..Len(f) : h[n] = h[n - 1] + f[n]
    BY TotalSteps
  <1> DEFINE step == [n \in 1..Len(f) |-> [t \in Int |-> t + f[n]]]
  <1>2. Len(f) \in Nat /\ \A n \in 1..Len(f) : n - 1 \in 0..Len(f)
    OBVIOUS
  <1>3. \A n \in 1..Len(f), t \in Int : step[n][t] = t + f[n]
    OBVIOUS
  <1> HIDE DEF step
  <1>4. ASSUME NEW n \in 1..Len(f) PROVE g[n] = step[n][g[n - 1]] /\ h[n] = step[n][h[n - 1]]
    <2>1. g[n - 1] \in Int /\ h[n - 1] \in Int
      BY <1>2
    <2>2. g[n] = g[n - 1] + f[n] /\ h[n] = h[n - 1] + f[n]
      BY <1>1
    <2> QED BY <1>3, <2>1, <2>2
  <1>5. \A n \in 0..Len(f) : g[n] = h[n]
    <2>1. Follows(g, step, Len(f)) /\ Follows(h, step, Len(f))
      BY <1>4 DEF Follows
    <2>2. g[0] = h[0] /\ Len(f) \in Nat
      BY <1>1, <1>2
    <2> QED BY <2>1, <2>2, StepsAgree
  <1> QED BY <1>1, <1>2, <1>5

\* One amount more.
LEMMA TotalAppend ==
    ASSUME NEW f \in Seq(Int), NEW x \in Int
    PROVE  Total(Append(f, x)) = Total(f) + x /\ Total(f) \in Int
  <1> DEFINE N == Len(f)
             more == Append(f, x)
  <1>1. PICK g \in [0..N -> Int] : /\ g[0] = 0 /\ Total(f) = g[N]
                                   /\ \A n \in 1..N : g[n] = g[n - 1] + f[n]
    BY TotalSteps
  <1>2. /\ N \in Nat /\ more \in Seq(Int) /\ Len(more) = N + 1 /\ more[N + 1] = x
        /\ \A n \in 1..N : more[n] = f[n]
    OBVIOUS
  <1> HIDE DEF N, more
  <1> DEFINE h == [n \in 0..(N + 1) |-> IF n = N + 1 THEN g[N] + x ELSE g[n]]
  <1>3. g[N] \in Int
    BY <1>2
  <1>4. h \in [0..(N + 1) -> Int] /\ h[0] = 0 /\ h[N + 1] = g[N] + x
    BY <1>1, <1>2, <1>3
  <1>5. ASSUME NEW n \in 1..(N + 1) PROVE h[n] = h[n - 1] + more[n]
    <2>1. CASE n = N + 1
      BY <1>2, <2>1
    <2>2. CASE n \in 1..N
      BY <1>1, <1>2, <2>2
    <2> QED BY <1>2, <2>1, <2>2
  <1> HIDE DEF h
  <1>6. Total(more) = h[N + 1]
    BY <1>2, <1>4, <1>5, TotalIs
  <1> QED BY <1>1, <1>3, <1>4, <1>6 DEF more

\* One amount changed.
LEMMA TotalChange ==
    ASSUME NEW f \in Seq(Int), NEW e \in Seq(Int), Len(e) = Len(f), NEW k \in 1..Len(f),
           \A n \in 1..Len(f) : n # k => e[n] = f[n]
    PROVE  Total(e) = Total(f) - f[k] + e[k] /\ Total(f) \in Int
  <1> DEFINE N == Len(f)
  <1>1. PICK g \in [0..N -> Int] : /\ g[0] = 0 /\ Total(f) = g[N]
                                   /\ \A n \in 1..N : g[n] = g[n - 1] + f[n]
    BY TotalSteps
  <1>2. /\ N \in Nat /\ k \in 1..N /\ f[k] \in Int /\ e[k] \in Int /\ g[N] \in Int
        /\ \A n \in 1..N : f[n] \in Int /\ n - 1 \in 0..N /\ n \in 0..N
    OBVIOUS
  <1> HIDE DEF N
  <1> DEFINE h == [n \in 0..N |-> IF n < k THEN g[n] ELSE g[n] - f[k] + e[k]]
  <1>a. k \in Int /\ N \in Int /\ 0 < k /\ ~(N < k) /\ 0 \in 0..N /\ N \in 0..N
    BY <1>2
  <1>3. h \in [0..N -> Int] /\ h[0] = 0 /\ h[N] = g[N] - f[k] + e[k]
    <2>1. h[0] = g[0] /\ h[N] = g[N] - f[k] + e[k]
      BY <1>a
    <2>2. h \in [0..N -> Int]
      BY <1>2
    <2> QED BY <1>1, <2>1, <2>2
  <1>4. ASSUME NEW n \in 1..N PROVE h[n] = h[n - 1] + e[n]
    <2>1. g[n] = g[n - 1] + f[n] /\ g[n] \in Int /\ g[n - 1] \in Int
      BY <1>1, <1>2
    <2>2. CASE n < k
      BY <1>2, <2>1, <2>2 DEF N
    <2>3. CASE n = k
      BY <1>2, <2>1, <2>3
    <2>4. CASE n > k
      <3>1. n - 1 \in 0..N /\ ~(n - 1 < k) /\ ~(n < k) /\ n # k /\ n \in 0..N
        BY <1>2, <1>a, <2>4
      <3>2. h[n] = g[n] - f[k] + e[k] /\ h[n - 1] = g[n - 1] - f[k] + e[k] /\ e[n] = f[n]
        BY <3>1 DEF N
      <3>3. f[n] \in Int /\ f[k] \in Int /\ e[k] \in Int
        BY <1>2
      <3> DEFINE x == g[n]
                 y == g[n - 1]
                 z == f[n]
                 a == f[k]
                 b == e[k]
      <3>4. x \in Int /\ y \in Int /\ z \in Int /\ a \in Int /\ b \in Int /\ x = y + z
        BY <2>1, <3>3
      <3>5. h[n] = x - a + b /\ h[n - 1] = y - a + b /\ e[n] = z
        BY <3>2
      <3> HIDE DEF h, x, y, z, a, b
      <3>6. x - a + b = (y - a + b) + z
        BY <3>4
      <3> QED BY <3>5, <3>6
    <2>5. n < k \/ n = k \/ n > k
      BY <1>a
    <2> QED BY <2>2, <2>3, <2>4, <2>5
  <1> HIDE DEF h
  <1>5. Total(e) = h[N]
    BY <1>3, <1>4, TotalIs DEF N
  <1> QED BY <1>1, <1>2, <1>3, <1>5

\* Nothing adds up to nothing.
LEMMA TotalZero ==
    ASSUME NEW f \in Seq(Int), \A n \in 1..Len(f) : f[n] = 0
    PROVE  Total(f) = 0
  <1> DEFINE g == [n \in 0..Len(f) |-> 0]
  <1>1. Len(f) \in Nat
    OBVIOUS
  <1>2. g \in [0..Len(f) -> Int] /\ g[0] = 0 /\ g[Len(f)] = 0 /\ \A n \in 1..Len(f) : g[n] = g[n - 1] + f[n]
    BY <1>1
  <1> HIDE DEF g
  <1> QED BY <1>2, TotalIs
=============================================================================

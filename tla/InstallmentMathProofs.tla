----------------------- MODULE InstallmentMathProofs -----------------------
(***************************************************************************)
(* The loops of InstallmentMath, for every amount, rate, term and set of   *)
(* installments: what they book adds up as they promise.                   *)
(*                                                                         *)
(* The sums are a recursive function, so the proofs need induction on the  *)
(* natural numbers.  It is had here from the well-founded order the        *)
(* library gives finite sets of numbers, for sets of numbers in the place  *)
(* of predicates (SetInduction).  From then on a loop is a state machine,  *)
(* and its invariant relates the rows so far to what is left.              *)
(***************************************************************************)
EXTENDS InstallmentMath, FiniteSetTheorems, TLAPS

(* A set of numbers has a least element: of the sets of the numbers below  *)
(* its elements, one has no other within it.                               *)
LEMMA LeastNumber ==
  ASSUME NEW T, T \subseteq Nat, T # {}
  PROVE  \E x \in T : \A y \in T : ~(y < x)
  <1> DEFINE R        == StrictSubsetOrdering(Nat)
             F        == FiniteSubsetsOf(Nat)
             Below(m) == {k \in Nat : k < m}
             D        == {Below(m) : m \in T}
  <1>1. IsWellFoundedOn(R, F)
    BY FS_StrictSubsetOrderingWellFounded
  <1>2. ASSUME NEW m \in Nat PROVE Below(m) \in F
    <2>1. Below(m) \in SUBSET Nat /\ \A s \in Below(m) : s <= m
      OBVIOUS
    <2> HIDE DEF Below
    <2>2. IsFiniteSet(Below(m))
      BY <2>1, FS_BoundedSetOfNaturals
    <2> QED
      BY <2>1, <2>2 DEF FiniteSubsetsOf
  <1>3. D \subseteq F /\ D # {}
    BY <1>2
  <1> HIDE DEF R, F, D
  <1>4. PICK x \in D : \A y \in D : ~(<<y, x>> \in R)
    BY <1>1, <1>3, WFMin
  <1>5. PICK m \in T : x = Below(m)
    BY <1>4 DEF D
  <1>6. ASSUME NEW y \in T, y < m PROVE FALSE
    <2>1. Below(y) \in D
      BY DEF D
    <2>2. Below(y) \subseteq Below(m) /\ y \in Below(m) /\ y \notin Below(y)
      BY <1>6
    <2>3. Below(y) \subseteq Nat /\ Below(m) \subseteq Nat
      OBVIOUS
    <2>4. Below(y) \in F /\ Below(m) \in F
      BY <1>2
    <2> HIDE DEF Below
    <2>5. <<Below(y), Below(m)>> \in R
      BY <2>2, <2>3, <2>4 DEF R, StrictSubsetOrdering, F
    <2> QED
      BY <2>1, <2>5, <1>4, <1>5
  <1> QED
    BY <1>6

LEMMA SetInduction ==
  ASSUME NEW S, 0 \in S, \A m \in Nat : m \in S => m + 1 \in S
  PROVE  Nat \subseteq S
  <1> SUFFICES ASSUME Nat \ S # {} PROVE FALSE
    OBVIOUS
  <1>1. PICK x \in Nat \ S : \A y \in Nat \ S : ~(y < x)
    BY LeastNumber
  <1>2. x - 1 \in Nat /\ x - 1 < x
    OBVIOUS
  <1>3. x - 1 \in S
    BY <1>1, <1>2
  <1> QED
    BY <1>2, <1>3

-----------------------------------------------------------------------------
(* g holds the sums of f up to m, as the recursion of Total has them.      *)
Sums(f, m, g) == g = [k \in 0..m |-> IF k = 0 THEN 0 ELSE g[k - 1] + f[k]]

LEMMA SumsUnique ==
  ASSUME NEW f, NEW m \in Nat, NEW l \in Nat, l <= m, NEW g, NEW h, Sums(f, l, g), Sums(f, m, h)
  PROVE  \A k \in 0..l : g[k] = h[k]
  <1> DEFINE S == {k \in Nat : k <= l => g[k] = h[k]}
  <1>1. \A k \in 0..l : g[k] = IF k = 0 THEN 0 ELSE g[k - 1] + f[k]
    BY Zenon DEF Sums
  <1>2. \A k \in 0..l : h[k] = IF k = 0 THEN 0 ELSE h[k - 1] + f[k]
    <2>1. \A k \in 0..m : h[k] = IF k = 0 THEN 0 ELSE h[k - 1] + f[k]
      BY Zenon DEF Sums
    <2> QED
      BY <2>1
  <1>3. 0 \in S
    BY <1>1, <1>2
  <1>4. ASSUME NEW k \in Nat, k \in S PROVE k + 1 \in S
    <2>1. CASE k + 1 <= l
      <3>1. k + 1 \in 0..l /\ k + 1 # 0 /\ (k + 1) - 1 = k /\ k <= l
        BY <2>1
      <3>2. g[k + 1] = g[k] + f[k + 1] /\ h[k + 1] = h[k] + f[k + 1]
        BY <1>1, <1>2, <3>1
      <3> QED
        BY <3>1, <3>2, <1>4
    <2> QED
      BY <2>1
  <1>5. Nat \subseteq S
    <2> HIDE DEF S
    <2> QED
      BY <1>3, <1>4, SetInduction
  <1> QED
    BY <1>5

LEMMA SumsExist ==
  ASSUME NEW f
  PROVE  \A m \in Nat : \E g : Sums(f, m, g)
  <1> DEFINE S == {m \in Nat : \E g : Sums(f, m, g)}
  <1>1. 0 \in S
    <2>1. Sums(f, 0, [k \in 0..0 |-> 0])
      BY DEF Sums
    <2> QED
      BY <2>1
  <1>2. ASSUME NEW m \in Nat, m \in S PROVE m + 1 \in S
    <2>1. PICK g : Sums(f, m, g)
      BY <1>2
    <2> DEFINE h == [k \in 0..(m + 1) |-> IF k = m + 1 THEN g[m] + f[m + 1] ELSE g[k]]
    <2>2. \A k \in 0..m : g[k] = IF k = 0 THEN 0 ELSE g[k - 1] + f[k]
      BY <2>1, Zenon DEF Sums
    <2>3. ASSUME NEW k \in 0..(m + 1) PROVE h[k] = IF k = 0 THEN 0 ELSE h[k - 1] + f[k]
      <3>1. CASE k = m + 1
        <4>1. k # 0 /\ k - 1 = m /\ m \in 0..(m + 1) /\ m # m + 1
          BY <3>1
        <4> QED
          BY <4>1, <3>1
      <3>2. CASE k # m + 1
        <4>1. k \in 0..m /\ (k # 0 => k - 1 \in 0..(m + 1) /\ k - 1 # m + 1)
          BY <3>2
        <4> QED
          BY <4>1, <3>2, <2>2
      <3> QED
        BY <3>1, <3>2
    <2>4. h = [k \in 0..(m + 1) |-> h[k]]
      OBVIOUS
    <2> HIDE DEF h
    <2>5. Sums(f, m + 1, h)
      BY <2>3, <2>4 DEF Sums
    <2> QED
      BY <2>5
  <1>3. Nat \subseteq S
    <2> HIDE DEF S
    <2> QED
      BY <1>1, <1>2, SetInduction
  <1> QED
    BY <1>3

(* The recursion Total is defined by, as two equations.                    *)
LEMMA TotalStep ==
  ASSUME NEW f
  PROVE  Total(f, 0) = 0 /\ \A m \in Nat : Total(f, m + 1) = Total(f, m) + f[m + 1]
  <1> DEFINE Rec(s) == s = [k \in Nat |-> IF k = 0 THEN 0 ELSE s[k - 1] + f[k]]
             P(m)   == CHOOSE g : Sums(f, m, g)
             h      == [k \in Nat |-> P(k)[k]]
  <1>1. \A m \in Nat : Sums(f, m, P(m))
    BY SumsExist
  <1> HIDE DEF P
  <1>2. ASSUME NEW k \in Nat PROVE h[k] = IF k = 0 THEN 0 ELSE h[k - 1] + f[k]
    <2>1. \A j \in 0..k : P(k)[j] = IF j = 0 THEN 0 ELSE P(k)[j - 1] + f[j]
      BY <1>1, Zenon DEF Sums
    <2>2. CASE k = 0
      BY <2>1, <2>2
    <2>3. CASE k # 0
      <3>1. k - 1 \in Nat /\ k - 1 <= k /\ k \in 0..k /\ k - 1 \in 0..(k - 1)
        BY <2>3
      <3>2. P(k - 1)[k - 1] = P(k)[k - 1]
        <4>1. Sums(f, k - 1, P(k - 1)) /\ Sums(f, k, P(k))
          BY <1>1, <3>1
        <4> QED
          BY <4>1, <3>1, SumsUnique
      <3> QED
        BY <2>1, <2>3, <3>1, <3>2
    <2> QED
      BY <2>2, <2>3
  <1>3. Rec(h)
    <2>1. h = [k \in Nat |-> h[k]]
      OBVIOUS
    <2> HIDE DEF h
    <2> QED
      BY <1>2, <2>1
  <1> DEFINE s == CHOOSE s : Rec(s)
  <1>4. Rec(s)
    <2> HIDE DEF Rec, h
    <2> QED
      BY <1>3, Zenon
  <1>5. \A m : Total(f, m) = s[m]
    BY Zenon DEF Total
  <1> HIDE DEF s
  <1>6. \A k \in Nat : s[k] = IF k = 0 THEN 0 ELSE s[k - 1] + f[k]
    BY <1>4, Zenon
  <1> HIDE DEF Rec
  <1>7. \A m \in Nat : m + 1 \in Nat /\ m + 1 # 0 /\ (m + 1) - 1 = m
    OBVIOUS
  <1> QED
    BY <1>5, <1>6, <1>7

-----------------------------------------------------------------------------
(* What the proofs need to know of sums.                                   *)
LEMMA TotalType ==
  ASSUME NEW f, NEW m \in Nat, \A k \in 1..m : f[k] \in Int
  PROVE  Total(f, m) \in Int
  <1> DEFINE S == {l \in Nat : l <= m => Total(f, l) \in Int}
  <1>1. 0 \in S
    BY TotalStep
  <1>2. ASSUME NEW l \in Nat, l \in S PROVE l + 1 \in S
    <2>1. CASE l + 1 <= m
      <3>1. l + 1 \in 1..m /\ l <= m
        BY <2>1
      <3> QED
        BY <1>2, <3>1, TotalStep
    <2> QED
      BY <2>1
  <1>3. Nat \subseteq S
    <2> HIDE DEF S
    <2> QED
      BY <1>1, <1>2, SetInduction
  <1> QED
    BY <1>3

(* Rows that differ by c at most have sums that differ by c a row.         *)
LEMMA TotalCompare ==
  ASSUME NEW f, NEW g, NEW m \in Nat, NEW c \in Int,
         \A k \in 1..m : f[k] \in Int /\ g[k] \in Int /\ f[k] <= g[k] + c
  PROVE  Total(f, m) <= Total(g, m) + c * m
  <1> DEFINE S == {l \in Nat : l <= m => Total(f, l) <= Total(g, l) + c * l}
  <1>1. 0 \in S
    BY TotalStep
  <1>2. ASSUME NEW l \in Nat, l \in S PROVE l + 1 \in S
    <2>1. CASE l + 1 <= m
      <3>1. l + 1 \in 1..m /\ l <= m /\ c * (l + 1) = c * l + c /\ c * l \in Int
        BY <2>1
      <3>2. \A k \in 1..l : k \in 1..m
        BY <3>1
      <3>3. Total(f, l) \in Int /\ Total(g, l) \in Int
        BY <3>2, TotalType
      <3>4. Total(f, l + 1) = Total(f, l) + f[l + 1] /\ Total(g, l + 1) = Total(g, l) + g[l + 1]
        BY TotalStep
      <3>5. f[l + 1] \in Int /\ g[l + 1] \in Int /\ f[l + 1] <= g[l + 1] + c
        BY <3>1
      <3>6. Total(f, l) <= Total(g, l) + c * l
        BY <1>2, <3>1
      <3>7. Total(f, l + 1) <= Total(g, l + 1) + (c * l + c)
        <4> HIDE DEF S
        <4> QED
          BY <3>1, <3>3, <3>4, <3>5, <3>6
      <3> QED
        BY <3>1, <3>7
    <2> QED
      BY <2>1
  <1>3. Nat \subseteq S
    <2> HIDE DEF S
    <2> QED
      BY <1>1, <1>2, SetInduction
  <1> QED
    BY <1>3

(* Rows that owe nothing, after l, add nothing.                            *)
LEMMA TotalExtend ==
  ASSUME NEW f, NEW l \in Nat, NEW m \in Nat, l <= m, \A k \in 1..m : f[k] \in Int,
         \A k \in (l + 1)..m : f[k] = 0
  PROVE  Total(f, m) = Total(f, l)
  <1> DEFINE S == {d \in Nat : l + d <= m => Total(f, l + d) = Total(f, l)}
  <1>1. 0 \in S
    OBVIOUS
  <1>2. ASSUME NEW d \in Nat, d \in S PROVE d + 1 \in S
    <2>1. CASE l + (d + 1) <= m
      <3>1. (l + d) + 1 \in (l + 1)..m /\ l + (d + 1) = (l + d) + 1 /\ l + d \in Nat /\ l + d <= m
        BY <2>1
      <3>2. Total(f, l + d) \in Int
        <4>1. \A k \in 1..(l + d) : k \in 1..m
          BY <3>1
        <4> QED
          BY <3>1, <4>1, TotalType
      <3>3. Total(f, (l + d) + 1) = Total(f, l + d) + f[(l + d) + 1]
        BY <3>1, TotalStep
      <3> QED
        BY <1>2, <3>1, <3>2, <3>3
    <2> QED
      BY <2>1
  <1>3. Nat \subseteq S
    <2> HIDE DEF S
    <2> QED
      BY <1>1, <1>2, SetInduction
  <1>4. m - l \in S /\ l + (m - l) = m
    BY <1>3
  <1> QED
    BY <1>4

(* One row is changed.                                                     *)
LEMMA TotalUpdate ==
  ASSUME NEW m \in Nat, NEW f \in [1..m -> Int], NEW j \in 1..m, NEW v \in Int
  PROVE  Total([f EXCEPT ![j] = v], m) = Total(f, m) - f[j] + v
  <1> DEFINE g == [f EXCEPT ![j] = v]
             S == {l \in Nat : l <= m => Total(g, l) = Total(f, l) + (IF j <= l THEN v - f[j] ELSE 0)}
  <1>1. 0 \in S
    BY TotalStep
  <1>2. ASSUME NEW l \in Nat, l \in S PROVE l + 1 \in S
    <2>1. CASE l + 1 <= m
      <3>1. l + 1 \in 1..m /\ l <= m
        BY <2>1
      <3>2. \A k \in 1..l : k \in 1..m
        BY <3>1
      <3>3. Total(f, l) \in Int
        BY <3>2, TotalType
      <3>4. Total(f, l + 1) = Total(f, l) + f[l + 1] /\ Total(g, l + 1) = Total(g, l) + g[l + 1]
        BY TotalStep
      <3>5. f[l + 1] \in Int /\ f[j] \in Int /\ g[l + 1] = IF l + 1 = j THEN v ELSE f[l + 1]
        BY <3>1
      <3>6. Total(g, l) = Total(f, l) + (IF j <= l THEN v - f[j] ELSE 0)
        BY <1>2, <3>1
      <3> HIDE DEF g
      <3>7. Total(g, l + 1) = Total(f, l + 1) + (IF j <= l + 1 THEN v - f[j] ELSE 0)
        <4> HIDE DEF S
        <4> QED
          BY <3>3, <3>4, <3>5, <3>6
      <3> QED
        BY <3>7
    <2> QED
      BY <2>1
  <1>3. Nat \subseteq S
    <2> HIDE DEF S
    <2> QED
      BY <1>1, <1>2, SetInduction
  <1>4. Total(g, m) = Total(f, m) + (v - f[j])
    <2> HIDE DEF g
    <2> QED
      BY <1>3
  <1>5. Total(f, m) \in Int /\ f[j] \in Int
    BY TotalType
  <1> QED
    BY <1>4, <1>5

(* Sums of amounts grow row by row, and no row is above the sum.           *)
LEMMA TotalGrows ==
  ASSUME NEW f, NEW m \in Nat, \A k \in 1..m : f[k] \in Nat
  PROVE  /\ Total(f, m) \in Nat
         /\ \A l \in 0..m : Total(f, l) \in Nat /\ Total(f, l) <= Total(f, m)
         /\ \A k \in 1..m : f[k] <= Total(f, m)
  <1> DEFINE S == {d \in Nat : d <= m =>
                     /\ Total(f, d) \in Nat
                     /\ \A l \in 0..d : Total(f, l) \in Nat /\ Total(f, l) <= Total(f, d)
                     /\ \A k \in 1..d : f[k] <= Total(f, d)}
  <1>1. 0 \in S
    BY TotalStep
  <1>2. ASSUME NEW d \in Nat, d \in S PROVE d + 1 \in S
    <2>1. CASE d + 1 <= m
      <3>1. d + 1 \in 1..m /\ d <= m
        BY <2>1
      <3>2. /\ Total(f, d) \in Nat
            /\ \A l \in 0..d : Total(f, l) \in Nat /\ Total(f, l) <= Total(f, d)
            /\ \A k \in 1..d : f[k] <= Total(f, d)
        BY <1>2, <3>1
      <3>3. Total(f, d + 1) = Total(f, d) + f[d + 1] /\ f[d + 1] \in Nat
        BY <3>1, TotalStep
      <3>4. Total(f, d + 1) \in Nat /\ Total(f, d) <= Total(f, d + 1) /\ f[d + 1] <= Total(f, d + 1)
        BY <3>2, <3>3
      <3>5. ASSUME NEW l \in 0..(d + 1) PROVE Total(f, l) \in Nat /\ Total(f, l) <= Total(f, d + 1)
        <4>1. CASE l = d + 1
          BY <3>4, <4>1
        <4>2. CASE l # d + 1
          <5>1. l \in 0..d
            BY <4>2
          <5>2. Total(f, l) \in Nat /\ Total(f, l) <= Total(f, d)
            BY <3>2, <5>1
          <5> QED
            BY <5>2, <3>2, <3>4
        <4> QED
          BY <4>1, <4>2
      <3>6. ASSUME NEW k \in 1..(d + 1) PROVE f[k] <= Total(f, d + 1)
        <4>1. CASE k # d + 1
          <5>1. k \in 1..d /\ k \in 1..m
            BY <3>1, <4>1
          <5>2. f[k] \in Nat /\ f[k] <= Total(f, d)
            BY <3>2, <5>1
          <5> QED
            BY <5>2, <3>2, <3>4
        <4> QED
          BY <3>4, <4>1
      <3> QED
        BY <3>4, <3>5, <3>6
    <2> QED
      BY <2>1
  <1>3. Nat \subseteq S
    <2> HIDE DEF S
    <2> QED
      BY <1>1, <1>2, SetInduction
  <1> QED
    BY <1>3

(* Nothing in any row, and two columns row by row.                         *)
LEMMA TotalZero ==
  ASSUME NEW f, NEW m \in Nat, \A k \in 1..m : f[k] = 0
  PROVE  Total(f, m) = 0
  <1>1. \A k \in 1..m : f[k] \in Int
    OBVIOUS
  <1>2. \A k \in (0 + 1)..m : f[k] = 0
    OBVIOUS
  <1>3. Total(f, m) = Total(f, 0)
    BY <1>1, <1>2, TotalExtend
  <1> QED
    BY <1>3, TotalStep

LEMMA TotalPlus ==
  ASSUME NEW f, NEW g, NEW h, NEW m \in Nat,
         \A k \in 1..m : f[k] \in Int /\ g[k] \in Int /\ h[k] = f[k] + g[k]
  PROVE  Total(h, m) = Total(f, m) + Total(g, m)
  <1> DEFINE S == {l \in Nat : l <= m => Total(h, l) = Total(f, l) + Total(g, l)}
  <1>1. 0 \in S
    BY TotalStep
  <1>2. ASSUME NEW l \in Nat, l \in S PROVE l + 1 \in S
    <2>1. CASE l + 1 <= m
      <3>1. l + 1 \in 1..m /\ l <= m
        BY <2>1
      <3>2. \A k \in 1..l : k \in 1..m
        BY <3>1
      <3>3. Total(f, l) \in Int /\ Total(g, l) \in Int
        BY <3>2, TotalType
      <3>4. /\ Total(f, l + 1) = Total(f, l) + f[l + 1] /\ Total(g, l + 1) = Total(g, l) + g[l + 1]
            /\ Total(h, l + 1) = Total(h, l) + h[l + 1]
        BY TotalStep
      <3>5. f[l + 1] \in Int /\ g[l + 1] \in Int /\ h[l + 1] = f[l + 1] + g[l + 1]
        BY <3>1
      <3>6. Total(h, l) = Total(f, l) + Total(g, l)
        BY <1>2, <3>1
      <3>7. Total(h, l + 1) = Total(f, l + 1) + Total(g, l + 1)
        <4> HIDE DEF S
        <4> QED
          BY <3>3, <3>4, <3>5, <3>6
      <3> QED
        BY <3>7
    <2> QED
      BY <2>1
  <1>3. Nat \subseteq S
    <2> HIDE DEF S
    <2> QED
      BY <1>1, <1>2, SetInduction
  <1> QED
    BY <1>3

-----------------------------------------------------------------------------
(* Rounding: how far a share may be off.                                   *)
LEMMA DivBound ==
  ASSUME NEW a \in Nat, NEW b \in Nat \ {0}
  PROVE  /\ a \div b \in Nat /\ b * (a \div b) <= a /\ a < b * (a \div b) + b
  OBVIOUS

(* Half of one, at most.                                                   *)
LEMMA RoundBound ==
  ASSUME NEW a \in Nat, NEW b \in Nat \ {0}
  PROVE  /\ RoundDiv(a, b) \in Nat
         /\ 2 * b * RoundDiv(a, b) <= 2 * a + b
         /\ 2 * a - b <= 2 * b * RoundDiv(a, b)
  <1> DEFINE r == (2 * a + b) \div (2 * b)
  <1>1. 2 * a + b \in Nat /\ 2 * b \in Nat \ {0}
    OBVIOUS
  <1>2. r \in Nat /\ (2 * b) * r <= 2 * a + b /\ 2 * a + b < (2 * b) * r + 2 * b
    BY <1>1, DivBound
  <1>3. RoundDiv(a, b) = r
    BY DEF RoundDiv
  <1> HIDE DEF r
  <1>4. (2 * b) * r = 2 * b * r
    OBVIOUS
  <1> QED
    BY <1>2, <1>3, <1>4

LEMMA Hundredth ==
  Precision \in Nat \ {0} /\ Precision \div 100 \in Nat \ {0} /\ Precision = 100 * (Precision \div 100)
  <1>1. Precision \in Nat \ {0} /\ Precision % 100 = 0
    BY MathAssumption
  <1> QED
    BY <1>1

LEMMA LessProduct ==
  ASSUME NEW a \in Int, NEW b \in Int, NEW c \in Nat, a <= b
  PROVE  c * a <= c * b
  OBVIOUS

LEMMA CancelProduct ==
  ASSUME NEW a \in Int, NEW b \in Int, NEW c \in Nat \ {0}, c * a <= c * b
  PROVE  a <= b
  OBVIOUS

(* More is not rounded to less.                                            *)
LEMMA RoundMonotone ==
  ASSUME NEW a \in Nat, NEW c \in Nat, NEW b \in Nat \ {0}, a <= c
  PROVE  RoundDiv(a, b) <= RoundDiv(c, b)
  <1> DEFINE r == RoundDiv(a, b)
             s == RoundDiv(c, b)
             d == 2 * b
  <1>1. d \in Nat \ {0} /\ 2 * a + b \in Nat /\ 2 * c + b \in Nat /\ 2 * a + b <= 2 * c + b
    OBVIOUS
  <1>2. /\ r \in Nat /\ s \in Nat
        /\ d * r <= 2 * a + b /\ 2 * c + b < d * s + d
    BY <1>1, DivBound DEF RoundDiv
  <1> HIDE DEF r, s, d
  <1>3. SUFFICES ASSUME s < r PROVE FALSE
    BY <1>2 DEF r, s
  <1>4. s \in Int /\ r \in Int /\ s + 1 <= r /\ s + 1 \in Int /\ d \in Nat
    <2>1. s \in Nat /\ r \in Nat /\ d \in Nat
      BY <1>1, <1>2
    <2> QED
      BY <2>1, <1>3
  <1>5. d * (s + 1) = d * s + d
    BY <1>4
  <1>6. d * (s + 1) <= d * r
    BY <1>4, LessProduct
  <1>7. d * r \in Int /\ d * s \in Int
    BY <1>4
  <1> QED
    BY <1>1, <1>2, <1>5, <1>6, <1>7

LEMMA ShareNat ==
  ASSUME NEW amount \in Nat, NEW ratio \in Nat
  PROVE  Share(amount, ratio) \in Nat
  <1>1. amount * ratio \in Nat
    OBVIOUS
  <1>2. RoundDiv(amount * ratio, 100) \in Nat
    BY <1>1, RoundBound
  <1> QED
    BY <1>2, Hundredth, RoundBound DEF Share

LEMMA ShareMonotone ==
  ASSUME NEW a \in Nat, NEW c \in Nat, NEW ratio \in Nat, a <= c
  PROVE  Share(a, ratio) <= Share(c, ratio)
  <1>1. a * ratio \in Nat /\ c * ratio \in Nat /\ a * ratio <= c * ratio
    BY LessProduct
  <1>2. RoundDiv(a * ratio, 100) <= RoundDiv(c * ratio, 100)
    BY <1>1, RoundMonotone
  <1>3. RoundDiv(a * ratio, 100) \in Nat
    BY <1>1, RoundBound
  <1>4. RoundDiv(c * ratio, 100) \in Nat
    BY <1>1, RoundBound
  <1> QED
    BY <1>2, <1>3, <1>4, Hundredth, RoundMonotone DEF Share

(* A row's share of T, in proportion to the x of R that it owes, is off by *)
(* D cents at most.                                                        *)
LEMMA ShareBound ==
  ASSUME NEW T \in Nat, NEW R \in Nat \ {0}, NEW x \in Nat
  PROVE  LET s == Share(T, Ratio(x, R))
             D == 2 + T \div Precision
         IN  /\ s \in Nat
             /\ s * R <= x * T + D * R
             /\ x * T <= s * R + D * R
  <1> DEFINE P == Precision
             Q == Precision \div 100
             r == RoundDiv(x * P, R)
             v == RoundDiv(T * r, 100)
             s == RoundDiv(v, Q)
             D == 2 + T \div P
  <1>1. P \in Nat \ {0} /\ Q \in Nat \ {0} /\ P = 100 * Q
    BY Hundredth
  <1>2. r \in Nat /\ 2 * R * r <= 2 * (x * P) + R /\ 2 * (x * P) - R <= 2 * R * r
    <2>1. x * P \in Nat
      BY <1>1
    <2> QED
      BY <2>1, RoundBound
  <1> HIDE DEF r
  <1>3. v \in Nat /\ 200 * v <= 2 * (T * r) + 100 /\ 2 * (T * r) - 100 <= 200 * v
    <2>1. T * r \in Nat
      BY <1>2
    <2>2. 2 * 100 * v = 200 * v
      OBVIOUS
    <2> QED
      BY <2>1, <2>2, RoundBound
  <1> HIDE DEF v
  <1>4. s \in Nat /\ 2 * Q * s <= 2 * v + Q /\ 2 * v - Q <= 2 * Q * s
    BY <1>1, <1>3, RoundBound
  <1>5. Share(T, Ratio(x, R)) = s
    BY DEF Share, Ratio, s, v, r
  <1> HIDE DEF s
  <1>6. D \in Nat /\ T <= P * (D - 1) /\ D >= 2
    BY <1>1, DivBound
  <1> HIDE DEF D, P, Q
  <1>7. 2 * (P * s) <= 2 * (T * r) + 100 + P /\ 2 * (T * r) - 100 - P <= 2 * (P * s)
    BY <1>1, <1>2, <1>3, <1>4
  <1>8. 100 + P + T <= 2 * (P * D)
    <2>1. P * (D - 1) = P * D - P
      BY <1>1, <1>6
    <2>2. P * D >= P * 2
      BY <1>1, <1>6, LessProduct
    <2>3. P >= 100
      BY <1>1
    <2>4. P * D \in Nat
      BY <1>1, <1>6
    <2> QED
      BY <1>1, <1>6, <2>1, <2>2, <2>3, <2>4
  <1>9. /\ R * (2 * (P * s)) <= R * (2 * (T * r) + 100 + P)
        /\ R * (2 * (T * r) - 100 - P) <= R * (2 * (P * s))
    BY <1>1, <1>2, <1>4, <1>7, LessProduct
  <1>10. /\ T * (2 * R * r) <= T * (2 * (x * P) + R)
         /\ T * (2 * (x * P) - R) <= T * (2 * R * r)
    BY <1>1, <1>2, LessProduct
  <1>11. R * (100 + P + T) <= R * (2 * (P * D))
    BY <1>1, <1>6, <1>8, LessProduct
  <1>12. /\ R * (2 * (P * s)) = (2 * P) * (s * R)
         /\ R * (2 * (T * r) + 100 + P) = T * (2 * R * r) + 100 * R + R * P
         /\ R * (2 * (T * r) - 100 - P) = T * (2 * R * r) - 100 * R - R * P
         /\ T * (2 * (x * P) + R) = (2 * P) * (x * T) + R * T
         /\ T * (2 * (x * P) - R) = (2 * P) * (x * T) - R * T
         /\ R * (100 + P + T) = 100 * R + R * P + R * T
         /\ R * (2 * (P * D)) = (2 * P) * (D * R)
    BY <1>1, <1>2, <1>4, <1>6
  <1>13. /\ (2 * P) * (s * R) <= (2 * P) * (x * T) + (2 * P) * (D * R)
         /\ (2 * P) * (x * T) <= (2 * P) * (s * R) + (2 * P) * (D * R)
    <2> DEFINE a == (2 * P) * (s * R)
               b == (2 * P) * (x * T)
               c == (2 * P) * (D * R)
               d == T * (2 * R * r)
               e == R * P
               f == R * T
    <2>1. a \in Int /\ b \in Int /\ c \in Int /\ d \in Int /\ e \in Int /\ f \in Int
      BY <1>1, <1>2, <1>4, <1>6
    <2>2. /\ a <= d + 100 * R + e /\ d - 100 * R - e <= a /\ d <= b + f /\ b - f <= d /\ 100 * R + e + f <= c
      BY <1>9, <1>10, <1>11, <1>12, Zenon
    <2> HIDE DEF a, b, c, d, e, f
    <2>3. a <= b + c /\ b <= a + c
      BY <2>1, <2>2
    <2> QED
      BY <2>3 DEF a, b, c
  <1>14. /\ s * R \in Int /\ x * T \in Int /\ D * R \in Int
         /\ (2 * P) * (x * T) + (2 * P) * (D * R) = (2 * P) * (x * T + D * R)
         /\ (2 * P) * (s * R) + (2 * P) * (D * R) = (2 * P) * (s * R + D * R)
         /\ 2 * P \in Nat \ {0}
    BY <1>1, <1>4, <1>6
  <1>15. s * R <= x * T + D * R
    BY <1>13, <1>14, CancelProduct
  <1>16. x * T <= s * R + D * R
    BY <1>13, <1>14, CancelProduct
  <1> QED
    BY <1>4, <1>5, <1>15, <1>16 DEF D, P

-----------------------------------------------------------------------------
(* Where the loop is: the rows from i on are not yet written.              *)
Position ==
  /\ task.kind # "payment" => IF at = "rows" THEN i <= Term ELSE i = Term + 1
  /\ at = "last" => task.kind \in {"declining", "settlement"}
  /\ at = "rejected" => task.kind = "payment"
  /\ \A k \in Rows : k >= i => principal[k] = 0 /\ interest[k] = 0 /\ fee[k] = 0

(* The flat models: what is in the rows and what is left make the whole.   *)
SpreadInv ==
  task.kind \in {"flat", "rule78"} =>
    /\ Total(principal, Term) + left = task.amount
    /\ Total(interest, Term) + interestLeft = TotalInterest(task)
    /\ at = "done" => left = 0 /\ interestLeft = 0
    /\ task.kind = "flat" /\ at = "rows" => left = task.amount - (i - 1) * RoundDiv(task.amount, Term)
    /\ task.kind = "rule78" => left >= 0
    /\ task.kind # "flat" \/ at = "rows" \/ 2 * task.amount >= Term * (Term - 1) =>
          \A k \in Rows : principal[k] >= 0

(* Declining balance: the balance is what the rows do not repay, or there  *)
(* is none and they repay too much.                                        *)
DecliningInv ==
  task.kind = "declining" =>
    /\ left \in 0..task.amount
    /\ at # "done" =>
         /\ \A k \in Rows : k < i => principal[k] >= 0 /\ principal[k] + interest[k] = task.emi
         /\ \/ Total(principal, Term) + left = task.amount
            \/ left = 0 /\ Total(principal, Term) > task.amount

(* A payment: a row behind still owes more than a cent only once there is  *)
(* no more than a cent left.                                               *)
PaymentInv ==
  task.kind = "payment" /\ at # "rejected" =>
    /\ left \in Nat
    /\ Total(principal, Term) + Total(interest, Term) + Total(fee, Term) + left = task.amount
    /\ task.amount <= Total(OwedOn(task), Term) + Total(FeesOn(task), Term) + 1
    /\ \A k \in Rows :
         /\ 0 <= principal[k] /\ principal[k] <= task.owed[k].principal
         /\ interest[k] <= task.owed[k].interest /\ fee[k] <= task.owed[k].fee
    /\ \A l \in Rows : l < i /\ (left > 1 \/ \E k \in Rows : l < k /\ Allocated(k)) =>
         /\ task.owed[l].principal - principal[l] <= 1
         /\ task.owed[l].interest - interest[l] <= 1 /\ task.owed[l].fee - fee[l] <= 1
    /\ at = "done" => left <= 1 \/ i > Term

(* A settlement: the rows so far have their share but for Drift a row.     *)
SettlementInv ==
  task.kind = "settlement" =>
    LET owed == OwedOn(task)
        R    == Total(owed, Term)
    IN  /\ \A k \in Rows : k < i => fee[k] = task.owed[k].fee
        /\ at # "done" =>
             /\ Total(principal, Term) + left = task.amount
             /\ \A k \in Rows : 0 <= principal[k] /\ principal[k] <= owed[k]
             /\ R * (task.amount - left) >= task.amount * Total(owed, i - 1) - (Drift * R) * (i - 1)
             /\ left > 0 => \E k \in Rows : principal[k] > 0 \/ (k >= i /\ owed[k] > 0)
             /\ left < 0 => \E k \in Rows : owed[k] > 0 /\ principal[k] = 0

MathInv ==
  /\ TypeOK /\ Position
  /\ SpreadInv /\ DecliningInv /\ PaymentInv /\ SettlementInv
  /\ SchedulesAddUp /\ PaymentIsSpread /\ SettlementIsSpread

-----------------------------------------------------------------------------
(* What a task is, by the assumption.                                      *)
LEMMA TaskTyped ==
  ASSUME task \in Tasks
  PROVE  /\ Term \in Nat \ {0} /\ task.amount \in Nat
         /\ task.kind \in {"flat", "rule78", "declining"} =>
               task.rate \in Nat /\ task.emi \in Nat /\ TotalInterest(task) \in Nat
         /\ task.kind = "declining" => MonthlyRate(task) \in Nat /\ Share(task.amount, MonthlyRate(task)) <= task.emi
         /\ task.kind \in {"payment", "settlement"} =>
               /\ task.owed \in [Rows -> [fee : Nat, interest : Nat, principal : Nat]]
               /\ OwedOn(task) \in [Rows -> Nat] /\ FeesOn(task) \in [Rows -> Nat]
         /\ task.kind = "settlement" => task.amount <= Total(OwedOn(task), Term)
         /\ task.kind \in {"flat", "rule78", "declining", "payment", "settlement"}
  <1>1. /\ task.term \in Nat \ {0} /\ task.amount \in Nat
        /\ IsSchedule(task) \/ IsReceipt(task)
    BY MathAssumption
  <1>2. CASE IsSchedule(task)
    <2>1. task.rate \in Nat /\ task.emi \in Nat /\ task.kind \in {"flat", "rule78", "declining"}
      BY <1>2 DEF IsSchedule
    <2>2. task.kind = "declining" => Share(task.amount, MonthlyRate(task)) <= task.emi
      <3>1. SUFFICES ASSUME task.kind = "declining" PROVE Share(task.amount, MonthlyRate(task)) <= task.emi
        OBVIOUS
      <3>2. task.emi >= Share(task.amount, MonthlyRate(task))
        BY <1>2, <3>1 DEF IsSchedule
      <3>3. \A a, b : a >= b => b <= a
        OBVIOUS
      <3> QED
        BY <3>2, <3>3
    <2>3. TotalInterest(task) \in Nat
      <3>1. task.amount * task.rate * task.term \in Nat
        BY <1>1, <2>1
      <3> QED
        BY <3>1, RoundBound DEF TotalInterest
    <2>4. MonthlyRate(task) \in Nat
      <3>1. task.rate * Precision \in Nat
        BY <2>1, Hundredth
      <3> QED
        BY <3>1, RoundBound DEF MonthlyRate
    <2> QED
      BY <1>1, <2>1, <2>2, <2>3, <2>4 DEF Term
  <1>3. CASE IsReceipt(task)
    <2>1. /\ task.kind \in {"payment", "settlement"}
          /\ task.owed \in [Rows -> [fee : Nat, interest : Nat, principal : Nat]]
          /\ task.kind = "settlement" => task.amount <= Total(OwedOn(task), Term)
      BY <1>3 DEF IsReceipt, Rows, Term
    <2>2. \A k \in Rows : task.owed[k].interest + task.owed[k].principal \in Nat /\ task.owed[k].fee \in Nat
      <3>1. \A k \in Rows : task.owed[k] \in [fee : Nat, interest : Nat, principal : Nat]
        BY <2>1
      <3> QED
        BY <3>1
    <2>3. OwedOn(task) \in [Rows -> Nat] /\ FeesOn(task) \in [Rows -> Nat]
      BY <2>2 DEF OwedOn, FeesOn, Rows, Term
    <2> QED
      BY <1>1, <2>1, <2>3 DEF Term
  <1> QED
    BY <1>1, <1>2, <1>3

(* What writing the row at i does to the columns and to their sums.        *)
LEMMA RowStep ==
  ASSUME TypeOK, Position, i \in Rows,
         NEW x \in Int, NEW y \in Nat, NEW z \in Nat, SetRow(x, y, z)
  PROVE  /\ task' = task /\ i' = i + 1 /\ i' \in 1..Term + 1
         /\ principal' \in [Rows -> Int] /\ interest' \in [Rows -> Nat] /\ fee' \in [Rows -> Nat]
         /\ \A k \in Rows :
               /\ principal'[k] = IF k = i THEN x ELSE principal[k]
               /\ interest'[k] = IF k = i THEN y ELSE interest[k]
               /\ fee'[k] = IF k = i THEN z ELSE fee[k]
         /\ \A k \in Rows : k >= i' => principal'[k] = 0 /\ interest'[k] = 0 /\ fee'[k] = 0
         /\ Total(principal', Term) = Total(principal, Term) + x
         /\ Total(interest', Term) = Total(interest, Term) + y
         /\ Total(fee', Term) = Total(fee, Term) + z
         /\ Total(principal, Term) \in Int /\ Total(interest, Term) \in Int /\ Total(fee, Term) \in Int
  <1>1. /\ principal' = [principal EXCEPT ![i] = x] /\ interest' = [interest EXCEPT ![i] = y]
        /\ fee' = [fee EXCEPT ![i] = z] /\ i' = i + 1 /\ task' = task
    BY DEF SetRow
  <1>2. /\ principal \in [1..Term -> Int] /\ interest \in [1..Term -> Int] /\ fee \in [1..Term -> Int]
        /\ Term \in Nat /\ i \in 1..Term /\ y \in Int /\ z \in Int
    BY TaskTyped DEF TypeOK, Rows
  <1>3. principal[i] = 0 /\ interest[i] = 0 /\ fee[i] = 0
    BY <1>2 DEF Position
  <1>4. /\ Total(principal, Term) \in Int /\ Total(interest, Term) \in Int /\ Total(fee, Term) \in Int
    BY <1>2, TotalType
  <1>5. Total(principal', Term) = Total(principal, Term) + x
    <2>1. Total([principal EXCEPT ![i] = x], Term) = Total(principal, Term) - principal[i] + x
      BY <1>2, TotalUpdate
    <2> QED
      BY <1>1, <1>3, <1>4, <2>1
  <1>6. Total(interest', Term) = Total(interest, Term) + y
    <2>1. Total([interest EXCEPT ![i] = y], Term) = Total(interest, Term) - interest[i] + y
      BY <1>2, TotalUpdate
    <2> QED
      BY <1>1, <1>3, <1>4, <2>1
  <1>7. Total(fee', Term) = Total(fee, Term) + z
    <2>1. Total([fee EXCEPT ![i] = z], Term) = Total(fee, Term) - fee[i] + z
      BY <1>2, TotalUpdate
    <2> QED
      BY <1>1, <1>3, <1>4, <2>1
  <1>8. principal' \in [Rows -> Int] /\ interest' \in [Rows -> Nat] /\ fee' \in [Rows -> Nat]
    BY <1>1 DEF TypeOK
  <1>9. \A k \in Rows :
           /\ principal'[k] = IF k = i THEN x ELSE principal[k]
           /\ interest'[k] = IF k = i THEN y ELSE interest[k]
           /\ fee'[k] = IF k = i THEN z ELSE fee[k]
    BY <1>1 DEF TypeOK
  <1>10. \A k \in Rows : k >= i' => principal'[k] = 0 /\ interest'[k] = 0 /\ fee'[k] = 0
    BY <1>1, <1>2, <1>9 DEF Position, Rows
  <1>11. i' \in 1..Term + 1
    BY <1>1, <1>2
  <1> QED
    BY <1>1, <1>4, <1>5, <1>6, <1>7, <1>8, <1>9, <1>10, <1>11

(* At first nothing is in the rows.                                        *)
LEMMA Starts == Init => MathInv
  <1> SUFFICES ASSUME Init PROVE MathInv
    OBVIOUS
  <1>1. /\ task \in Tasks /\ i = 1 /\ left = task.amount /\ Term \in Nat \ {0} /\ at \in {"rows", "rejected"}
        /\ at = "rejected" => task.kind = "payment"
        /\ principal = [k \in Rows |-> 0] /\ interest = [k \in Rows |-> 0] /\ fee = [k \in Rows |-> 0]
    BY TaskTyped DEF Init
  <1>2. Total(principal, Term) = 0 /\ Total(interest, Term) = 0 /\ Total(fee, Term) = 0
    <2>1. \A k \in 1..Term : principal[k] = 0 /\ interest[k] = 0 /\ fee[k] = 0
      BY <1>1 DEF Rows
    <2> QED
      BY <1>1, <2>1, TotalZero
  <1>3. TypeOK
    <2>1. interestLeft \in Nat /\ task.amount \in Nat
      BY TaskTyped DEF Init
    <2> QED
      BY <1>1, <2>1 DEF TypeOK, Rows
  <1>4. Position
    BY <1>1 DEF Position, Rows
  <1>5. SpreadInv
    <2>1. SUFFICES ASSUME task.kind \in {"flat", "rule78"} PROVE SpreadInv
      BY DEF SpreadInv
    <2>2. interestLeft = TotalInterest(task) /\ TotalInterest(task) \in Nat /\ task.amount \in Nat /\ at # "done"
      BY <1>1, <2>1, TaskTyped DEF Init
    <2>3. RoundDiv(task.amount, Term) \in Nat /\ (i - 1) * RoundDiv(task.amount, Term) = 0
      BY <1>1, <2>2, RoundBound
    <2>4. \A k \in Rows : principal[k] = 0
      BY <1>1
    <2> QED
      BY <1>1, <1>2, <2>2, <2>3, <2>4 DEF SpreadInv
  <1>6. DecliningInv
    BY <1>1, <1>2, TaskTyped DEF DecliningInv, Rows
  <1>7. PaymentInv
    <2>1. SUFFICES ASSUME task.kind = "payment", at # "rejected" PROVE PaymentInv
      BY DEF PaymentInv
    <2>2. ~(task.amount > Total(OwedOn(task), Term) + Total(FeesOn(task), Term) + 1)
      BY <2>1 DEF Init
    <2>3. /\ task.owed \in [Rows -> [fee : Nat, interest : Nat, principal : Nat]]
          /\ OwedOn(task) \in [1..Term -> Nat] /\ FeesOn(task) \in [1..Term -> Nat]
      BY <1>1, <2>1, TaskTyped DEF Rows
    <2>4. Total(OwedOn(task), Term) \in Nat /\ Total(FeesOn(task), Term) \in Nat
      BY <1>1, <2>3, TotalGrows
    <2>5. \A k \in Rows : task.owed[k].fee \in Nat /\ task.owed[k].interest \in Nat /\ task.owed[k].principal \in Nat
      BY <2>3
    <2>6. \A k \in Rows : principal[k] = 0 /\ interest[k] = 0 /\ fee[k] = 0 /\ ~(k < i)
      BY <1>1 DEF Rows
    <2>7. task.amount <= Total(OwedOn(task), Term) + Total(FeesOn(task), Term) + 1 /\ left \in Nat /\ at # "done"
      BY <1>1, <2>2, <2>4, TaskTyped
    <2> QED
      BY <1>2, <1>1, <2>5, <2>6, <2>7 DEF PaymentInv
  <1>8. SettlementInv
    <2>1. SUFFICES ASSUME task.kind = "settlement" PROVE SettlementInv
      BY DEF SettlementInv
    <2> DEFINE owed == OwedOn(task)
               R    == Total(owed, Term)
    <2>2. owed \in [1..Term -> Nat] /\ R \in Nat /\ task.amount <= R /\ Total(owed, 0) = 0
      <3>1. owed \in [1..Term -> Nat] /\ task.amount <= R
        BY <1>1, <2>1, TaskTyped DEF Rows
      <3> HIDE DEF owed
      <3> QED
        BY <1>1, <3>1, TotalGrows, TotalStep
    <2>3. left > 0 => \E k \in Rows : owed[k] > 0
      <3> HIDE DEF owed
      <3>1. CASE \A k \in 1..Term : owed[k] = 0
        <4>1. R = 0
          BY <1>1, <3>1, TotalZero
        <4> QED
          BY <1>1, <2>2, <4>1, TaskTyped
      <3>2. CASE \E k \in 1..Term : owed[k] # 0
        BY <2>2, <3>2 DEF Rows
      <3> QED
        BY <3>1, <3>2
    <2>4. Drift * R \in Int
      <3>1. task.amount \in Nat
        BY <1>1, TaskTyped
      <3>2. Drift \in Nat
        BY <3>1, Hundredth, DivBound DEF Drift
      <3> HIDE DEF owed
      <3> QED
        BY <2>2, <3>2
    <2>5. R * (task.amount - left) >= task.amount * Total(owed, i - 1) - (Drift * R) * (i - 1)
      <3>0. task.amount \in Nat
        BY <1>1, TaskTyped
      <3>1. R * 0 = 0 /\ task.amount * 0 = 0 /\ \A a \in Int : a * 0 = 0
        BY <2>2, <3>0
      <3>2. task.amount - left = 0 /\ i - 1 = 0
        BY <1>1, <3>0
      <3> QED
        BY <2>2, <2>4, <3>1, <3>2
    <2>6. \A k \in Rows : 0 <= principal[k] /\ principal[k] <= owed[k] /\ ~(k < i)
      BY <1>1, <2>2 DEF Rows
    <2>7. left \in Nat /\ at # "done" /\ \A k \in Rows : k >= i
      BY <1>1, TaskTyped DEF Rows
    <2> HIDE DEF owed
    <2> QED
      BY <1>1, <1>2, <2>3, <2>5, <2>6, <2>7 DEF SettlementInv, owed
  <1>9. SchedulesAddUp /\ PaymentIsSpread /\ SettlementIsSpread
    BY <1>1 DEF SchedulesAddUp, PaymentIsSpread, SettlementIsSpread, Finished
  <1> QED
    BY <1>3, <1>4, <1>5, <1>6, <1>7, <1>8, <1>9 DEF MathInv

-----------------------------------------------------------------------------
(* The rounded rows of a flat loan repay no more than there is, unless it  *)
(* is of so few cents.                                                     *)
LEMMA EqualRowsFit ==
  ASSUME NEW a \in Nat, NEW m \in Nat \ {0}, 2 * a >= m * (m - 1)
  PROVE  (m - 1) * RoundDiv(a, m) <= a
  <1> DEFINE r == RoundDiv(a, m)
             c == m - 1
             e == 2 * m
  <1>1. r \in Nat /\ 2 * m * r <= 2 * a + m
    BY RoundBound
  <1>2. c \in Nat /\ e \in Nat \ {0}
    OBVIOUS
  <1> HIDE DEF r
  <1>3. c * (2 * m * r) <= c * (2 * a + m)
    <2>1. 2 * m * r \in Int /\ 2 * a + m \in Int
      BY <1>1
    <2> QED
      BY <1>1, <1>2, <2>1, LessProduct
  <1>4. c * (2 * m * r) = e * (c * r) /\ c * (2 * a + m) = e * a - 2 * a + m * (m - 1) /\ c * r \in Int /\ e * a \in Int
    BY <1>1, <1>2
  <1>5. e * (c * r) <= e * a
    <2>1. m * (m - 1) \in Int
      OBVIOUS
    <2> DEFINE u == m * (m - 1)
               v == e * a
               w == e * (c * r)
    <2>2. w \in Int
      BY <1>2, <1>4
    <2>3. w <= v - 2 * a + u /\ 2 * a >= u /\ u \in Int /\ v \in Int
      BY <1>3, <1>4, <2>1
    <2> HIDE DEF u, v, w
    <2>4. w <= v
      BY <2>2, <2>3
    <2> QED
      BY <2>4 DEF v, w
  <1>6. c * r <= a
    <2> HIDE DEF c, e
    <2> QED
      BY <1>2, <1>4, <1>5, CancelProduct
  <1> QED
    BY <1>6 DEF r, c

(* A row of a flat model.                                                  *)
LEMMA SpreadStep ==
  ASSUME MathInv, at = "rows", task.kind \in {"flat", "rule78"},
         NEW x \in Int, NEW y \in Nat, SetRow(x, y, 0),
         left' = left - x, interestLeft' = interestLeft - y, EndAfterLast("done"),
         y <= interestLeft, i = Term => x = left /\ y = interestLeft,
         task.kind = "flat" /\ i # Term => x = RoundDiv(task.amount, Term),
         task.kind = "rule78" => 0 <= x /\ x <= left
  PROVE  MathInv'
  <1>1. /\ TypeOK /\ Position /\ SpreadInv /\ task \in Tasks /\ i <= Term
        /\ at' = IF i = Term THEN "done" ELSE "rows"
    BY DEF MathInv, TypeOK, Position, EndAfterLast
  <1>2. i \in Rows /\ Term \in Nat \ {0} /\ task.amount \in Nat /\ left \in Int /\ interestLeft \in Nat
    BY <1>1, TaskTyped DEF TypeOK, Rows
  <1>3. /\ task' = task /\ i' = i + 1 /\ i' \in 1..Term + 1
        /\ principal' \in [Rows -> Int] /\ interest' \in [Rows -> Nat] /\ fee' \in [Rows -> Nat]
        /\ \A k \in Rows : principal'[k] = IF k = i THEN x ELSE principal[k]
        /\ \A k \in Rows : k >= i' => principal'[k] = 0 /\ interest'[k] = 0 /\ fee'[k] = 0
        /\ Total(principal', Term) = Total(principal, Term) + x
        /\ Total(interest', Term) = Total(interest, Term) + y
        /\ Total(principal, Term) \in Int /\ Total(interest, Term) \in Int
    BY <1>1, <1>2, RowStep
  <1>4. TypeOK'
    <2>1. interestLeft' \in Nat /\ left' \in Int
      BY <1>2
    <2> QED
      BY <1>1, <1>3, <2>1 DEF TypeOK, Rows, Term
  <1>5. Position'
    BY <1>1, <1>2, <1>3 DEF Position, Rows, Term
  <1>6. Total(principal', Term) + left' = task.amount /\ Total(interest', Term) + interestLeft' = TotalInterest(task)
    <2>1. Total(principal, Term) + left = task.amount /\ Total(interest, Term) + interestLeft = TotalInterest(task)
      BY <1>1 DEF SpreadInv
    <2> QED
      BY <1>2, <1>3, <2>1
  <1>7. at' = "done" => left' = 0 /\ interestLeft' = 0
    BY <1>1, <1>2
  <1>8. CASE task.kind = "rule78"
    <2>1. left' >= 0
      BY <1>2, <1>8
    <2>2. \A k \in Rows : principal[k] >= 0
      BY <1>1, <1>8 DEF SpreadInv
    <2>3. \A k \in Rows : principal'[k] >= 0
      BY <1>3, <1>8, <2>2
    <2>4. SpreadInv'
      BY <1>3, <1>6, <1>7, <1>8, <2>1, <2>3 DEF SpreadInv, Rows, Term
    <2>5. SchedulesAddUp'
      BY <1>2, <1>3, <1>6, <1>7, <1>8, <2>3 DEF SchedulesAddUp, Finished, Rows, Term
    <2> QED
      BY <1>3, <1>4, <1>5, <1>8, <2>4, <2>5
      DEF MathInv, DecliningInv, PaymentInv, SettlementInv, PaymentIsSpread, SettlementIsSpread, Finished
  <1>9. CASE task.kind = "flat"
    <2> DEFINE m == RoundDiv(task.amount, Term)
    <2>1. m \in Nat
      BY <1>2, RoundBound
    <2>2. left = task.amount - (i - 1) * m /\ \A k \in Rows : principal[k] >= 0
      BY <1>1, <1>9 DEF SpreadInv
    <2>3. at' = "rows" => left' = task.amount - (i' - 1) * m
      <3>1. SUFFICES ASSUME i # Term PROVE left' = task.amount - (i' - 1) * m
        BY <1>1
      <3> HIDE DEF m
      <3>2. x = m
        BY <1>9, <3>1 DEF m
      <3>3. (i' - 1) * m = (i - 1) * m + m /\ (i - 1) * m \in Int
        <4>1. i' - 1 = (i - 1) + 1 /\ i - 1 \in Int
          BY <1>2, <1>3 DEF Rows
        <4> QED
          BY <2>1, <4>1
      <3> QED
        BY <1>2, <2>1, <2>2, <3>2, <3>3
    <2>4. at' = "rows" \/ 2 * task.amount >= Term * (Term - 1) => x >= 0
      <3>1. CASE i # Term
        BY <1>9, <2>1, <3>1
      <3>2. CASE i = Term
        <4>1. SUFFICES ASSUME 2 * task.amount >= Term * (Term - 1) PROVE x >= 0
          BY <1>1, <3>2
        <4>2. (Term - 1) * m <= task.amount /\ x = task.amount - (Term - 1) * m
          BY <1>2, <2>2, <3>2, <4>1, EqualRowsFit
        <4>3. (Term - 1) * m \in Int
          BY <1>2, <2>1
        <4> HIDE DEF m
        <4> QED
          BY <1>2, <4>2, <4>3
      <3> QED
        BY <3>1, <3>2
    <2>5. at' = "rows" \/ 2 * task.amount >= Term * (Term - 1) => \A k \in Rows : principal'[k] >= 0
      BY <1>3, <2>2, <2>4
    <2>6. SpreadInv'
      BY <1>3, <1>6, <1>7, <1>9, <2>3, <2>5 DEF SpreadInv, Rows, Term
    <2>7. SchedulesAddUp'
      BY <1>2, <1>3, <1>6, <1>7, <1>9, <2>5 DEF SchedulesAddUp, Finished, Rows, Term
    <2> QED
      BY <1>3, <1>4, <1>5, <1>9, <2>6, <2>7
      DEF MathInv, DecliningInv, PaymentInv, SettlementInv, PaymentIsSpread, SettlementIsSpread, Finished
  <1> QED
    BY <1>8, <1>9

LEMMA FlatRowKeeps ==
  ASSUME MathInv, FlatRow PROVE MathInv'
  <1> DEFINE x == IF i = Term THEN left ELSE RoundDiv(task.amount, Term)
             y == IF i = Term THEN interestLeft ELSE Lesser(RoundDiv(TotalInterest(task), Term), interestLeft)
  <1>1. /\ task.kind = "flat" /\ at = "rows" /\ SetRow(x, y, 0)
        /\ left' = left - x /\ interestLeft' = interestLeft - y /\ EndAfterLast("done")
    BY DEF FlatRow, Looping
  <1>2. task \in Tasks /\ left \in Int /\ interestLeft \in Nat
    BY DEF MathInv, TypeOK
  <1>3. RoundDiv(task.amount, Term) \in Nat /\ RoundDiv(TotalInterest(task), Term) \in Nat
    <2>1. Term \in Nat \ {0} /\ task.amount \in Nat /\ TotalInterest(task) \in Nat
      BY <1>1, <1>2, TaskTyped
    <2> QED
      BY <2>1, RoundBound
  <1>4. x \in Int /\ y \in Nat /\ y <= interestLeft
    BY <1>2, <1>3 DEF Lesser
  <1>5. (i = Term => x = left /\ y = interestLeft) /\ (i # Term => x = RoundDiv(task.amount, Term))
    OBVIOUS
  <1> HIDE DEF x, y
  <1> QED
    BY <1>1, <1>4, <1>5, SpreadStep

LEMMA Rule78RowKeeps ==
  ASSUME MathInv, Rule78Row PROVE MathInv'
  <1> DEFINE digits == (Term * (Term + 1)) \div 2
             share  == Share(TotalInterest(task), Ratio(Term - i + 1, digits))
             emi    == RoundDiv(task.amount + TotalInterest(task), Term)
             y == IF i = Term THEN interestLeft ELSE Lesser(share, interestLeft)
             x == IF i = Term THEN left ELSE Lesser(Surplus(emi, y), left)
  <1>1. /\ task.kind = "rule78" /\ at = "rows" /\ SetRow(x, y, 0)
        /\ left' = left - x /\ interestLeft' = interestLeft - y /\ EndAfterLast("done")
    BY DEF Rule78Row, Looping
  <1>2. task \in Tasks /\ left \in Int /\ left >= 0 /\ interestLeft \in Nat /\ i \in 1..Term
    BY <1>1, TaskTyped DEF MathInv, TypeOK, SpreadInv, Position
  <1>3. Term \in Nat \ {0} /\ task.amount \in Nat /\ TotalInterest(task) \in Nat
    BY <1>1, <1>2, TaskTyped
  <1>4. share \in Nat
    <2>1. digits \in Nat \ {0}
      <3>1. Term * (Term + 1) \in Nat /\ Term * (Term + 1) >= 2
        <4>1. Term * (Term + 1) = Term * Term + Term /\ Term * Term >= 1 /\ Term * Term \in Nat
          BY <1>3
        <4> QED
          BY <1>3, <4>1
      <3> DEFINE u == Term * (Term + 1)
      <3>2. u \in Nat /\ u >= 2
        BY <3>1
      <3> HIDE DEF u
      <3>3. u \div 2 \in Nat /\ u \div 2 >= 1
        BY <3>2
      <3> QED
        BY <3>3 DEF u
    <2>2. (Term - i + 1) * Precision \in Nat
      <3>1. Term - i + 1 \in Nat /\ Precision \in Nat
        BY <1>2, <1>3, Hundredth
      <3> QED
        BY <3>1
    <2> HIDE DEF digits
    <2>3. Ratio(Term - i + 1, digits) \in Nat
      BY <2>1, <2>2, RoundBound DEF Ratio
    <2> QED
      BY <1>3, <2>3, ShareNat
  <1>5. emi \in Nat
    BY <1>3, RoundBound
  <1> HIDE DEF share, emi
  <1>6. y \in Nat /\ y <= interestLeft
    BY <1>2, <1>4 DEF Lesser
  <1>7. x \in Int /\ 0 <= x /\ x <= left
    <2> HIDE DEF y
    <2> QED
      BY <1>2, <1>5, <1>6 DEF Lesser, Surplus
  <1>8. i = Term => x = left /\ y = interestLeft
    OBVIOUS
  <1> HIDE DEF x, y
  <1> QED
    BY <1>1, <1>6, <1>7, <1>8, SpreadStep

-----------------------------------------------------------------------------
(* A row of a declining balance: the emi covers the interest of the first  *)
(* month and so, since more is not rounded to less, that of every month.   *)
LEMMA DecliningRowKeeps ==
  ASSUME MathInv, DecliningRow PROVE MathInv'
  <1> DEFINE y == Share(left, MonthlyRate(task))
             x == task.emi - y
  <1>1. /\ task.kind = "declining" /\ at = "rows" /\ SetRow(x, y, 0) /\ left' = Surplus(left, x)
        /\ at' = IF i = Term THEN "last" ELSE "rows"
        /\ interestLeft' = interestLeft
    BY DEF DecliningRow, Looping, EndAfterLast
  <1>2. /\ TypeOK /\ Position /\ task \in Tasks /\ i <= Term
        /\ left \in 0..task.amount
        /\ \A k \in Rows : k < i => principal[k] >= 0 /\ principal[k] + interest[k] = task.emi
        /\ \/ Total(principal, Term) + left = task.amount
           \/ left = 0 /\ Total(principal, Term) > task.amount
    BY <1>1 DEF MathInv, TypeOK, Position, DecliningInv
  <1>3. /\ i \in Rows /\ i \in 1..Term /\ Term \in Nat \ {0} /\ task.amount \in Nat /\ left \in Nat
        /\ task.emi \in Nat /\ MonthlyRate(task) \in Nat /\ Share(task.amount, MonthlyRate(task)) <= task.emi
    BY <1>1, <1>2, TaskTyped DEF TypeOK, Rows
  <1>4. y \in Nat /\ y <= task.emi
    <2>1. y \in Nat /\ Share(task.amount, MonthlyRate(task)) \in Nat
      BY <1>3, ShareNat
    <2>2. y <= Share(task.amount, MonthlyRate(task))
      BY <1>2, <1>3, ShareMonotone
    <2> HIDE DEF y
    <2> QED
      BY <1>3, <2>1, <2>2
  <1> HIDE DEF y
  <1>5. x \in Nat /\ x + y = task.emi
    BY <1>3, <1>4
  <1> HIDE DEF x
  <1>6. /\ task' = task /\ i' = i + 1 /\ i' \in 1..Term + 1
        /\ principal' \in [Rows -> Int] /\ interest' \in [Rows -> Nat] /\ fee' \in [Rows -> Nat]
        /\ \A k \in Rows : principal'[k] = (IF k = i THEN x ELSE principal[k])
                        /\ interest'[k] = (IF k = i THEN y ELSE interest[k])
        /\ \A k \in Rows : k >= i' => principal'[k] = 0 /\ interest'[k] = 0 /\ fee'[k] = 0
        /\ Total(principal', Term) = Total(principal, Term) + x
        /\ Total(principal, Term) \in Int
    <2>1. x \in Int
      BY <1>5
    <2> QED
      BY <1>1, <1>2, <1>3, <1>4, <2>1, RowStep
  <1>7. left' \in 0..task.amount
    BY <1>1, <1>2, <1>3, <1>5 DEF Surplus
  <1>8. TypeOK'
    BY <1>1, <1>2, <1>6, <1>7 DEF TypeOK, Rows, Term
  <1>9. Position'
    BY <1>1, <1>2, <1>3, <1>6 DEF Position, Rows, Term
  <1>10. \A k \in Rows : k < i' => principal'[k] >= 0 /\ principal'[k] + interest'[k] = task.emi
    <2>1. ASSUME NEW k \in Rows, k < i' PROVE principal'[k] >= 0 /\ principal'[k] + interest'[k] = task.emi
      <3>1. CASE k = i
        BY <1>5, <1>6, <3>1
      <3>2. CASE k # i
        <4>1. k < i
          BY <1>3, <1>6, <2>1, <3>2 DEF Rows
        <4>2. principal'[k] = principal[k] /\ interest'[k] = interest[k]
          BY <1>6, <3>2
        <4> QED
          BY <1>2, <4>1, <4>2
      <3> QED
        BY <3>1, <3>2
    <2> QED
      BY <2>1
  <1>11. \/ Total(principal', Term) + left' = task.amount
         \/ left' = 0 /\ Total(principal', Term) > task.amount
    BY <1>1, <1>2, <1>3, <1>5, <1>6 DEF Surplus
  <1>12. DecliningInv'
    BY <1>6, <1>7, <1>10, <1>11 DEF DecliningInv, Rows, Term
  <1> QED
    BY <1>1, <1>6, <1>8, <1>9, <1>12
    DEF MathInv, SpreadInv, PaymentInv, SettlementInv, SchedulesAddUp, PaymentIsSpread, SettlementIsSpread, Finished

LEMMA DecliningLastKeeps ==
  ASSUME MathInv, DecliningLast PROVE MathInv'
  <1>1. /\ task.kind = "declining" /\ at = "last" /\ at' = "done"
        /\ principal' = [principal EXCEPT ![Term] = principal[Term] + left]
        /\ task' = task /\ i' = i /\ left' = left /\ interestLeft' = interestLeft
        /\ interest' = interest /\ fee' = fee
    BY DEF DecliningLast
  <1>2. /\ TypeOK /\ Position /\ task \in Tasks /\ i = Term + 1
        /\ left \in 0..task.amount
        /\ \A k \in Rows : k < i => principal[k] >= 0 /\ principal[k] + interest[k] = task.emi
        /\ \/ Total(principal, Term) + left = task.amount
           \/ left = 0 /\ Total(principal, Term) > task.amount
    BY <1>1 DEF MathInv, TypeOK, Position, DecliningInv
  <1>3. /\ Term \in Nat \ {0} /\ Term \in 1..Term /\ task.amount \in Nat /\ left \in Nat
        /\ principal \in [1..Term -> Int] /\ principal \in [Rows -> Int]
    BY <1>2, TaskTyped DEF TypeOK, Rows
  <1>4. /\ principal[Term] \in Int
        /\ \A k \in Rows : principal[k] >= 0 /\ principal[k] + interest[k] = task.emi
    BY <1>2, <1>3 DEF Rows
  <1>5. /\ principal' \in [Rows -> Int]
        /\ \A k \in Rows : principal'[k] = IF k = Term THEN principal[Term] + left ELSE principal[k]
    BY <1>1, <1>3, <1>4
  <1>6. Total(principal', Term) = Total(principal, Term) + left /\ Total(principal, Term) \in Int
    <2>1. Total(principal, Term) \in Int
      BY <1>3, TotalType
    <2>2. principal[Term] + left \in Int
      BY <1>3, <1>4
    <2>3. Total([principal EXCEPT ![Term] = principal[Term] + left], Term)
             = Total(principal, Term) - principal[Term] + (principal[Term] + left)
      BY <1>3, <2>2, TotalUpdate
    <2> QED
      BY <1>1, <1>3, <1>4, <2>1, <2>3
  <1>7. \A k \in Rows : principal'[k] >= 0
    BY <1>3, <1>4, <1>5 DEF Rows
  <1>8. TypeOK'
    BY <1>1, <1>2, <1>5 DEF TypeOK, Rows, Term
  <1>9. Position'
    BY <1>1, <1>2, <1>3 DEF Position, Rows, Term
  <1>10. DecliningInv'
    BY <1>1, <1>2 DEF DecliningInv
  <1>11. SchedulesAddUp'
    <2>1. CASE Total(principal, Term) + left = task.amount
      BY <1>1, <1>6, <1>7, <2>1 DEF SchedulesAddUp, Rows, Term
    <2>2. CASE left = 0 /\ Total(principal, Term) > task.amount
      <3>1. Total(principal', Term) > task.amount
        BY <1>3, <1>6, <2>2
      <3>2. \A k \in Rows : principal'[k] + interest'[k] = task.emi
        BY <1>1, <1>3, <1>4, <1>5, <2>2 DEF Rows
      <3> QED
        BY <1>1, <1>7, <3>1, <3>2 DEF SchedulesAddUp, Rows, Term
    <2> QED
      BY <1>2, <2>1, <2>2
  <1> QED
    BY <1>1, <1>8, <1>9, <1>10, <1>11
    DEF MathInv, SpreadInv, PaymentInv, SettlementInv, PaymentIsSpread, SettlementIsSpread, Finished

-----------------------------------------------------------------------------
(* A part gets what there is or what it owes, but for a cent.              *)
LEMMA PartFacts ==
  ASSUME NEW due \in Nat, NEW rest \in Nat
  PROVE  /\ Part(due, rest) \in Nat /\ Part(due, rest) <= due /\ Part(due, rest) <= rest
         /\ due - Part(due, rest) <= 1 \/ rest - Part(due, rest) <= 1
  BY DEF Part, Lesser

LEMMA PayRowKeeps ==
  ASSUME MathInv, PayRow PROVE MathInv'
  <1> DEFINE z == Part(task.owed[i].fee, left)
             y == Part(task.owed[i].interest, left - z)
             x == Part(task.owed[i].principal, left - z - y)
  <1>1. /\ task.kind = "payment" /\ at = "rows" /\ i <= Term /\ left > 1
        /\ SetRow(x, y, z) /\ left' = left - z - y - x /\ at' = at /\ interestLeft' = interestLeft
    BY DEF PayRow, Looping
  <1>2. TypeOK /\ Position /\ task \in Tasks /\ left \in Nat
    BY <1>1 DEF MathInv, TypeOK, PaymentInv
  <1>3. /\ Total(principal, Term) + Total(interest, Term) + Total(fee, Term) + left = task.amount
        /\ task.amount <= Total(OwedOn(task), Term) + Total(FeesOn(task), Term) + 1
        /\ \A k \in Rows :
             /\ 0 <= principal[k] /\ principal[k] <= task.owed[k].principal
             /\ interest[k] <= task.owed[k].interest /\ fee[k] <= task.owed[k].fee
        /\ \A l \in Rows : l < i =>
             /\ task.owed[l].principal - principal[l] <= 1
             /\ task.owed[l].interest - interest[l] <= 1 /\ task.owed[l].fee - fee[l] <= 1
    BY <1>1 DEF MathInv, PaymentInv
  <1>4. /\ i \in Rows /\ i \in 1..Term /\ Term \in Nat \ {0}
        /\ task.owed \in [Rows -> [fee : Nat, interest : Nat, principal : Nat]]
    BY <1>1, <1>2, TaskTyped DEF TypeOK, Rows
  <1>5. /\ task.owed[i].fee \in Nat /\ task.owed[i].interest \in Nat /\ task.owed[i].principal \in Nat
    BY <1>4
  <1>6. z \in Nat /\ z <= task.owed[i].fee /\ z <= left /\ (task.owed[i].fee - z <= 1 \/ left - z <= 1)
    BY <1>2, <1>5, PartFacts
  <1> HIDE DEF z
  <1>7. /\ y \in Nat /\ y <= task.owed[i].interest /\ y <= left - z
        /\ task.owed[i].interest - y <= 1 \/ left - z - y <= 1
    <2>1. left - z \in Nat
      BY <1>2, <1>6
    <2> QED
      BY <1>5, <2>1, PartFacts
  <1> HIDE DEF y
  <1>8. /\ x \in Nat /\ x <= task.owed[i].principal /\ x <= left - z - y
        /\ task.owed[i].principal - x <= 1 \/ left - z - y - x <= 1
    <2>1. left - z - y \in Nat
      BY <1>2, <1>6, <1>7
    <2> QED
      BY <1>5, <2>1, PartFacts
  <1> HIDE DEF x
  <1>9. /\ task' = task /\ i' = i + 1 /\ i' \in 1..Term + 1
        /\ principal' \in [Rows -> Int] /\ interest' \in [Rows -> Nat] /\ fee' \in [Rows -> Nat]
        /\ \A k \in Rows :
              /\ principal'[k] = IF k = i THEN x ELSE principal[k]
              /\ interest'[k] = IF k = i THEN y ELSE interest[k]
              /\ fee'[k] = IF k = i THEN z ELSE fee[k]
        /\ \A k \in Rows : k >= i' => principal'[k] = 0 /\ interest'[k] = 0 /\ fee'[k] = 0
        /\ Total(principal', Term) = Total(principal, Term) + x
        /\ Total(interest', Term) = Total(interest, Term) + y
        /\ Total(fee', Term) = Total(fee, Term) + z
        /\ Total(principal, Term) \in Int /\ Total(interest, Term) \in Int /\ Total(fee, Term) \in Int
    <2>1. x \in Int
      BY <1>8
    <2> QED
      BY <1>1, <1>2, <1>4, <1>6, <1>7, <2>1, RowStep
  <1>10. left' \in Nat /\ left' <= left
    BY <1>1, <1>2, <1>6, <1>7, <1>8
  <1>11. TypeOK'
    BY <1>1, <1>2, <1>9, <1>10 DEF TypeOK, Rows, Term
  <1>12. Position'
    BY <1>1, <1>9 DEF Position, Rows, Term
  <1>13. Total(principal', Term) + Total(interest', Term) + Total(fee', Term) + left' = task.amount
    BY <1>1, <1>2, <1>3, <1>6, <1>7, <1>8, <1>9
  <1>14. ASSUME NEW k \in Rows
         PROVE  /\ 0 <= principal'[k] /\ principal'[k] <= task.owed[k].principal
                /\ interest'[k] <= task.owed[k].interest /\ fee'[k] <= task.owed[k].fee
    <2>1. CASE k = i
      BY <1>6, <1>7, <1>8, <1>9, <2>1
    <2>2. CASE k # i
      BY <1>3, <1>9, <2>2
    <2> QED
      BY <2>1, <2>2
  <1>15. ASSUME NEW l \in Rows, l < i', left' > 1 \/ \E k \in Rows : l < k /\ Allocated(k)'
         PROVE  /\ task.owed[l].principal - principal'[l] <= 1
                /\ task.owed[l].interest - interest'[l] <= 1 /\ task.owed[l].fee - fee'[l] <= 1
    <2>1. CASE l < i
      <3>1. l # i
        BY <1>4, <2>1 DEF Rows
      <3> QED
        BY <1>3, <1>9, <2>1, <3>1
    <2>2. CASE ~(l < i)
      <3>1. l = i
        BY <1>4, <1>9, <1>15, <2>2 DEF Rows
      <3>2. ~\E k \in Rows : l < k /\ Allocated(k)'
        <4>1. SUFFICES ASSUME NEW k \in Rows, l < k PROVE ~Allocated(k)'
          OBVIOUS
        <4>2. k >= i'
          BY <1>4, <1>9, <3>1, <4>1 DEF Rows
        <4>3. principal'[k] = 0 /\ interest'[k] = 0 /\ fee'[k] = 0
          BY <1>9, <4>2
        <4> QED
          BY <4>3 DEF Allocated
      <3>3. left' > 1
        BY <1>15, <3>2
      <3>4. left - z > 1 /\ left - z - y > 1 /\ left - z - y - x > 1
        BY <1>1, <1>2, <1>6, <1>7, <1>8, <3>3
      <3>5. task.owed[i].fee - z <= 1 /\ task.owed[i].interest - y <= 1 /\ task.owed[i].principal - x <= 1
        BY <1>2, <1>5, <1>6, <1>7, <1>8, <3>4
      <3> QED
        BY <1>4, <1>9, <3>1, <3>5
    <2> QED
      BY <2>1, <2>2
  <1>16. PaymentInv'
    BY <1>1, <1>3, <1>9, <1>10, <1>13, <1>14, <1>15 DEF PaymentInv, Rows, Term
  <1> QED
    BY <1>1, <1>9, <1>11, <1>12, <1>16
    DEF MathInv, SpreadInv, DecliningInv, SettlementInv, SchedulesAddUp, PaymentIsSpread, SettlementIsSpread, Finished

(* When the rows are done, or the money is, no more than a cent for each   *)
(* part and one is left.                                                   *)
LEMMA PayEndKeeps ==
  ASSUME MathInv, PayEnd PROVE MathInv'
  <1>1. /\ task.kind = "payment" /\ at = "rows" /\ (i > Term \/ left <= 1) /\ at' \in {"done", "rejected"}
        /\ task' = task /\ i' = i /\ left' = left /\ interestLeft' = interestLeft
        /\ principal' = principal /\ interest' = interest /\ fee' = fee
    BY DEF PayEnd, Looping, rows
  <1>2. TypeOK /\ Position /\ PaymentInv /\ task \in Tasks /\ left \in Nat
    BY <1>1 DEF MathInv, TypeOK, PaymentInv
  <1>3. /\ Total(principal, Term) + Total(interest, Term) + Total(fee, Term) + left = task.amount
        /\ task.amount <= Total(OwedOn(task), Term) + Total(FeesOn(task), Term) + 1
        /\ \A k \in Rows :
             /\ 0 <= principal[k] /\ principal[k] <= task.owed[k].principal
             /\ interest[k] <= task.owed[k].interest /\ fee[k] <= task.owed[k].fee
        /\ \A l \in Rows : l < i /\ (left > 1 \/ \E k \in Rows : l < k /\ Allocated(k)) =>
             /\ task.owed[l].principal - principal[l] <= 1
             /\ task.owed[l].interest - interest[l] <= 1 /\ task.owed[l].fee - fee[l] <= 1
    BY <1>1 DEF MathInv, PaymentInv
  <1>4. /\ Term \in Nat \ {0} /\ i \in 1..Term + 1 /\ task.amount \in Nat
        /\ principal \in [Rows -> Int] /\ interest \in [Rows -> Nat] /\ fee \in [Rows -> Nat]
        /\ task.owed \in [Rows -> [fee : Nat, interest : Nat, principal : Nat]]
    BY <1>1, <1>2, TaskTyped DEF TypeOK
  <1>5. /\ Total(principal, Term) \in Int /\ Total(interest, Term) \in Int /\ Total(fee, Term) \in Int
    <2>1. \A k \in 1..Term : principal[k] \in Int /\ interest[k] \in Int /\ fee[k] \in Int
      BY <1>4 DEF Rows
    <2> QED
      BY <1>4, <2>1, TotalType
  <1>6. left <= 3 * Term + 1
    <2>1. CASE left <= 1
      BY <1>2, <1>4, <2>1
    <2>2. CASE left > 1
      <3>1. \A k \in Rows : k < i
        BY <1>1, <1>2, <1>4, <2>2 DEF Rows
      <3> DEFINE both == [k \in 1..Term |-> principal[k] + interest[k]]
                 owed == OwedOn(task)
                 fees == FeesOn(task)
      <3>2. ASSUME NEW k \in 1..Term
            PROVE  /\ owed[k] \in Int /\ both[k] \in Int /\ owed[k] <= both[k] + 2
                   /\ fees[k] \in Int /\ fee[k] \in Int /\ fees[k] <= fee[k] + 1
                   /\ principal[k] \in Int /\ interest[k] \in Int /\ both[k] = principal[k] + interest[k]
        <4>1. /\ task.owed[k].principal - principal[k] <= 1
              /\ task.owed[k].interest - interest[k] <= 1 /\ task.owed[k].fee - fee[k] <= 1
          BY <1>3, <2>2, <3>1 DEF Rows
        <4>2. /\ task.owed[k].principal \in Nat /\ task.owed[k].interest \in Nat /\ task.owed[k].fee \in Nat
              /\ principal[k] \in Int /\ interest[k] \in Nat /\ fee[k] \in Nat
          BY <1>4 DEF Rows
        <4>3. /\ owed[k] = task.owed[k].interest + task.owed[k].principal /\ fees[k] = task.owed[k].fee
              /\ both[k] = principal[k] + interest[k]
          BY DEF OwedOn, FeesOn, Term
        <4> HIDE DEF owed, fees, both
        <4> QED
          BY <4>1, <4>2, <4>3
      <3> HIDE DEF owed, fees, both
      <3>3. Total(owed, Term) <= Total(both, Term) + 2 * Term
        BY <1>4, <3>2, TotalCompare
      <3>4. Total(fees, Term) <= Total(fee, Term) + 1 * Term
        BY <1>4, <3>2, TotalCompare
      <3>5. Total(both, Term) = Total(principal, Term) + Total(interest, Term)
        BY <1>4, <3>2, TotalPlus
      <3>6. Total(owed, Term) \in Int /\ Total(fees, Term) \in Int
        BY <1>4, <3>2, TotalType
      <3>7. task.amount <= Total(owed, Term) + Total(fees, Term) + 1
        BY <1>3 DEF owed, fees
      <3> QED
        BY <1>2, <1>3, <1>4, <1>5, <3>3, <3>4, <3>5, <3>6, <3>7
    <2> QED
      BY <1>2, <2>1, <2>2
  <1>7. TypeOK' /\ Position'
    BY <1>1, <1>2 DEF TypeOK, Position, Rows, Term
  <1>8. PaymentInv'
    BY <1>1, <1>2 DEF PaymentInv, Rows, Term, Allocated
  <1>9. PaymentIsSpread'
    <2>1. ASSUME NEW k \in Rows, NEW l \in Rows, l < k, Allocated(k)
          PROVE  /\ task.owed[l].principal - principal[l] <= 1
                 /\ task.owed[l].interest - interest[l] <= 1 /\ task.owed[l].fee - fee[l] <= 1
      <3>1. k < i
        <4>1. SUFFICES ASSUME k >= i PROVE FALSE
          BY <1>4, <2>1 DEF Rows
        <4>2. principal[k] = 0 /\ interest[k] = 0 /\ fee[k] = 0
          BY <1>2, <4>1 DEF Position
        <4> QED
          BY <2>1, <4>2 DEF Allocated
      <3>2. l < i
        BY <1>4, <2>1, <3>1 DEF Rows
      <3> QED
        BY <1>3, <2>1, <3>2
    <2>2. LET booked == Total(principal, Term) + Total(interest, Term) + Total(fee, Term) IN
          booked <= task.amount /\ task.amount - booked <= 3 * Term + 1
      BY <1>2, <1>3, <1>4, <1>5, <1>6
    <2> QED
      BY <1>1, <1>3, <2>1, <2>2 DEF PaymentIsSpread, Finished, Rows, Term, Allocated
  <1> QED
    BY <1>1, <1>7, <1>8, <1>9
    DEF MathInv, SpreadInv, DecliningInv, SettlementInv, SchedulesAddUp, SettlementIsSpread, Finished

-----------------------------------------------------------------------------
(* The amount still covers its share of the rows so far, but for D cents a *)
(* row: a row got what it owes, or its share, and the amount is no more    *)
(* than the whole.                                                         *)
LEMMA ShareKept ==
  ASSUME NEW T \in Nat, NEW R \in Nat, T <= R, NEW D \in Nat, NEW n \in Nat, NEW l \in Int, NEW u \in Nat,
         R * (T - l) >= T * u - (D * R) * n,
         NEW o \in Nat, NEW x \in Nat, x = o \/ x * R >= o * T - D * R
  PROVE  R * (T - (l - x)) >= T * (u + o) - (D * R) * (n + 1)
  <1>1. R * x >= T * o - D * R
    <2>1. CASE x = o
      <3>1. o * T <= o * R
        BY LessProduct
      <3>2. R * x = o * R /\ T * o = o * T /\ D * R \in Nat /\ o * R \in Int /\ o * T \in Int
        BY <2>1
      <3> QED
        BY <3>1, <3>2
    <2>2. CASE x * R >= o * T - D * R
      <3>1. R * x = x * R /\ T * o = o * T
        OBVIOUS
      <3> QED
        BY <2>2, <3>1
    <2> QED
      BY <2>1, <2>2
  <1> DEFINE a == R * (T - l)
             b == T * u
             c == (D * R) * n
             d == R * x
             e == T * o
             f == D * R
  <1>2. a \in Int /\ b \in Int /\ c \in Int /\ d \in Int /\ e \in Int /\ f \in Int
    OBVIOUS
  <1>3. R * (T - (l - x)) = a + d
    OBVIOUS
  <1>4. T * (u + o) = b + e
    OBVIOUS
  <1>5. (D * R) * (n + 1) = c + f
    <2>1. f \in Int /\ \A q \in Int : q * (n + 1) = q * n + q
      BY <1>2
    <2> QED
      BY <2>1
  <1>6. a >= b - c /\ d >= e - f
    BY <1>1
  <1> HIDE DEF a, b, c, d, e, f
  <1>7. a + d >= (b + e) - (c + f)
    BY <1>2, <1>6
  <1> QED
    BY <1>3, <1>4, <1>5, <1>7 DEF f

(* A row of a settlement.                                                  *)
LEMMA SettleRowKeeps ==
  ASSUME MathInv, SettleRow PROVE MathInv'
  <1> DEFINE owed  == OwedOn(task)
             R     == Total(owed, Term)
             last  == \A k \in i + 1..Term : owed[k] = 0
             share == IF last THEN Surplus(left, 0) ELSE Share(task.amount, Ratio(owed[i], R))
             x     == IF owed[i] > 0 THEN Lesser(owed[i], share) ELSE 0
  <1>1. /\ task.kind = "settlement" /\ at = "rows" /\ SetRow(x, 0, task.owed[i].fee) /\ left' = left - x
        /\ at' = (IF i = Term THEN "last" ELSE "rows") /\ interestLeft' = interestLeft
    BY DEF SettleRow, Looping, EndAfterLast
  <1>2. TypeOK /\ Position /\ SettlementInv /\ task \in Tasks /\ left \in Int /\ i <= Term
    BY <1>1 DEF MathInv, TypeOK, Position
  <1>3. /\ i \in Rows /\ i \in 1..Term /\ Term \in Nat \ {0} /\ task.amount \in Nat
        /\ owed \in [1..Term -> Nat] /\ owed[i] \in Nat /\ task.owed[i].fee \in Nat
        /\ task.amount <= R
    <2>1. i \in Rows /\ i \in 1..Term
      BY <1>1, <1>2, TaskTyped DEF TypeOK, Rows
    <2>2. task.owed[i].fee \in Nat
      BY <1>1, <1>2, <2>1, TaskTyped
    <2> QED
      BY <1>1, <1>2, <2>1, <2>2, TaskTyped DEF Rows
  <1>4. /\ \A k \in Rows : k < i => fee[k] = task.owed[k].fee
        /\ Total(principal, Term) + left = task.amount
        /\ \A k \in Rows : 0 <= principal[k] /\ principal[k] <= owed[k]
        /\ R * (task.amount - left) >= task.amount * Total(owed, i - 1) - (Drift * R) * (i - 1)
        /\ left > 0 => \E k \in Rows : principal[k] > 0 \/ (k >= i /\ owed[k] > 0)
        /\ left < 0 => \E k \in Rows : owed[k] > 0 /\ principal[k] = 0
    BY <1>1, <1>2 DEF SettlementInv
  <1> HIDE DEF owed
  <1>5. /\ R \in Nat /\ owed[i] <= R /\ Total(owed, i - 1) \in Nat
        /\ Total(owed, i) = Total(owed, i - 1) + owed[i] /\ Total(owed, i) <= R
    <2>1. \A k \in 1..Term : owed[k] \in Nat
      BY <1>3
    <2>2. i - 1 \in Nat /\ i - 1 \in 0..Term /\ i \in 0..Term /\ (i - 1) + 1 = i
      BY <1>3
    <2>3. /\ R \in Nat
          /\ \A l \in 0..Term : Total(owed, l) \in Nat /\ Total(owed, l) <= R
          /\ \A k \in 1..Term : owed[k] <= R
      BY <1>3, <2>1, TotalGrows
    <2>4. Total(owed, (i - 1) + 1) = Total(owed, i - 1) + owed[(i - 1) + 1]
      BY <2>2, TotalStep
    <2> QED
      BY <1>3, <2>2, <2>3, <2>4
  <1>6. Drift \in Nat /\ Drift = 2 + task.amount \div Precision
    BY <1>3, Hundredth, DivBound DEF Drift
  <1>7. /\ x \in Nat /\ x <= owed[i]
        /\ last /\ owed[i] > 0 => x = Lesser(owed[i], Surplus(left, 0))
        /\ owed[i] = 0 => x = 0
        /\ ~last => x = owed[i] \/ x * R >= owed[i] * task.amount - Drift * R
    <2>1. CASE owed[i] = 0
      <3>1. x = 0 /\ x = owed[i]
        BY <2>1
      <3> QED
        BY <2>1, <3>1
    <2>2. CASE owed[i] > 0 /\ last
      <3>1. x = Lesser(owed[i], Surplus(left, 0))
        BY <2>2
      <3>2. x \in Nat /\ x <= owed[i]
        <4> HIDE DEF x
        <4> QED
          BY <1>2, <1>3, <3>1 DEF Lesser, Surplus
      <3> QED
        BY <2>2, <3>1, <3>2
    <2>3. CASE owed[i] > 0 /\ ~last
      <3> DEFINE s == Share(task.amount, Ratio(owed[i], R))
      <3>1. R \in Nat \ {0}
        BY <1>3, <1>5, <2>3
      <3>2. s \in Nat /\ owed[i] * task.amount <= s * R + Drift * R
        <4> HIDE DEF R
        <4> QED
          BY <1>3, <1>6, <3>1, ShareBound
      <3>3. x = Lesser(owed[i], s)
        BY <2>3
      <3> HIDE DEF s, x, R, last
      <3>4. x \in Nat /\ x <= owed[i] /\ (x = owed[i] \/ x = s)
        BY <1>3, <3>2, <3>3 DEF Lesser
      <3>5. x = s => x * R >= owed[i] * task.amount - Drift * R
        <4>1. s * R \in Int /\ Drift * R \in Int /\ owed[i] * task.amount \in Int
          BY <1>3, <1>6, <3>1, <3>2
        <4> QED
          BY <3>2, <4>1
      <3> QED
        BY <2>3, <3>4, <3>5
    <2> QED
      BY <1>3, <2>1, <2>2, <2>3
  <1> HIDE DEF x
  <1>8. /\ task' = task /\ i' = i + 1 /\ i' \in 1..Term + 1
        /\ principal' \in [Rows -> Int] /\ interest' \in [Rows -> Nat] /\ fee' \in [Rows -> Nat]
        /\ \A k \in Rows :
              /\ principal'[k] = IF k = i THEN x ELSE principal[k]
              /\ fee'[k] = IF k = i THEN task.owed[i].fee ELSE fee[k]
        /\ \A k \in Rows : k >= i' => principal'[k] = 0 /\ interest'[k] = 0 /\ fee'[k] = 0
        /\ Total(principal', Term) = Total(principal, Term) + x
        /\ Total(principal, Term) \in Int
    <2> DEFINE z == task.owed[i].fee
    <2>1. x \in Int /\ 0 \in Nat /\ z \in Nat /\ SetRow(x, 0, z) /\ TypeOK /\ Position /\ i \in Rows
      BY <1>1, <1>2, <1>3, <1>7
    <2> HIDE DEF z
    <2>2. /\ task' = task /\ i' = i + 1 /\ i' \in 1..Term + 1
          /\ principal' \in [Rows -> Int] /\ interest' \in [Rows -> Nat] /\ fee' \in [Rows -> Nat]
          /\ \A k \in Rows :
                /\ principal'[k] = IF k = i THEN x ELSE principal[k]
                /\ fee'[k] = IF k = i THEN z ELSE fee[k]
          /\ \A k \in Rows : k >= i' => principal'[k] = 0 /\ interest'[k] = 0 /\ fee'[k] = 0
          /\ Total(principal', Term) = Total(principal, Term) + x
          /\ Total(principal, Term) \in Int
      BY <2>1, RowStep
    <2> QED
      BY <2>2 DEF z
  <1>9. TypeOK'
    <2>1. left' \in Int
      BY <1>1, <1>2, <1>7
    <2> QED
      BY <1>1, <1>2, <1>8, <2>1 DEF TypeOK, Rows, Term
  <1>10. Position'
    BY <1>1, <1>2, <1>3, <1>8 DEF Position, Rows, Term
  <1>11. \A k \in Rows : k < i' => fee'[k] = task.owed[k].fee
    <2>1. ASSUME NEW k \in Rows, k < i' PROVE fee'[k] = task.owed[k].fee
      <3>1. k = i \/ (k # i /\ k < i)
        BY <1>3, <1>8, <2>1 DEF Rows
      <3> QED
        BY <1>4, <1>8, <3>1
    <2> QED
      BY <2>1
  <1>12. Total(principal', Term) + left' = task.amount
    BY <1>1, <1>2, <1>4, <1>7, <1>8
  <1>13. \A k \in Rows : 0 <= principal'[k] /\ principal'[k] <= owed[k]
    BY <1>4, <1>7, <1>8
  <1>14. R * (task.amount - left') >= task.amount * Total(owed, i' - 1) - (Drift * R) * (i' - 1)
    <2>1. i' - 1 = (i - 1) + 1 /\ i' - 1 = i /\ i - 1 \in Nat
      BY <1>3, <1>8
    <2>2. CASE x = owed[i] \/ x * R >= owed[i] * task.amount - Drift * R
      <3> HIDE DEF R
      <3>1. R * (task.amount - (left - x)) >= task.amount * (Total(owed, i - 1) + owed[i]) - (Drift * R) * ((i - 1) + 1)
        BY <1>2, <1>3, <1>4, <1>5, <1>6, <1>7, <2>1, <2>2, ShareKept
      <3> QED
        BY <1>1, <1>5, <2>1, <3>1
    <2>3. CASE ~(x = owed[i] \/ x * R >= owed[i] * task.amount - Drift * R)
      <3>1. last /\ owed[i] > 0 /\ x = Lesser(owed[i], Surplus(left, 0)) /\ x # owed[i]
        BY <1>3, <1>7, <2>3
      <3>2. left' <= 0 /\ left' \in Int
        BY <1>1, <1>2, <1>3, <3>1 DEF Lesser, Surplus
      <3> DEFINE a == task.amount * Total(owed, i)
                 b == (Drift * R) * i
                 c == R * (task.amount - left')
                 d == R * task.amount
                 e == task.amount * R
      <3>3. d <= c /\ a <= e /\ d = e
        <4>1. task.amount <= task.amount - left' /\ task.amount - left' \in Int
          BY <1>3, <3>2
        <4>2. R \in Nat /\ task.amount \in Nat /\ Total(owed, i) \in Nat /\ Total(owed, i) <= R
          BY <1>3, <1>5
        <4> DEFINE t == task.amount
                   u == Total(owed, i)
                   v == task.amount - left'
        <4>3. t \in Nat /\ u \in Nat /\ v \in Int /\ R \in Nat /\ t <= v /\ u <= R
          BY <4>1, <4>2
        <4> HIDE DEF t, u, v, R
        <4>4. R * t <= R * v /\ t * u <= t * R /\ R * t = t * R
          BY <4>3, LessProduct
        <4> QED
          BY <4>4 DEF t, u, v
      <3>4. b \in Nat
        <4>1. Drift * R \in Nat /\ i \in Nat
          BY <1>3, <1>5, <1>6
        <4> DEFINE q == Drift * R
        <4> HIDE DEF q
        <4>2. q * i \in Nat
          BY <4>1 DEF q
        <4> QED
          BY <4>2 DEF q
      <3>5. a \in Int /\ c \in Int /\ d \in Int
        BY <1>3, <1>5, <3>2
      <3>6. c >= a - b
        <4> HIDE DEF a, b, c, d, e
        <4> QED
          BY <3>3, <3>4, <3>5
      <3> QED
        BY <2>1, <3>6
    <2> QED
      BY <2>2, <2>3
  <1>15. left' > 0 => \E k \in Rows : principal'[k] > 0 \/ (k >= i' /\ owed[k] > 0)
    <2>1. SUFFICES ASSUME left' > 0 PROVE \E k \in Rows : principal'[k] > 0 \/ (k >= i' /\ owed[k] > 0)
      OBVIOUS
    <2>2. left > 0
      BY <1>1, <1>2, <1>7, <2>1
    <2>3. PICK k \in Rows : principal[k] > 0 \/ (k >= i /\ owed[k] > 0)
      BY <1>4, <2>2
    <2>4. CASE principal[k] > 0
      <3>1. k # i
        BY <1>2, <1>3, <2>4 DEF Position
      <3> QED
        BY <1>8, <2>4, <3>1
    <2>5. CASE k >= i /\ owed[k] > 0 /\ k # i
      BY <1>3, <1>8, <2>5 DEF Rows
    <2>6. CASE k = i /\ owed[k] > 0
      <3>1. CASE last
        <4>1. x = Lesser(owed[i], Surplus(left, 0))
          BY <1>7, <2>6, <3>1
        <4>2. x > 0
          BY <1>2, <1>3, <2>2, <2>6, <4>1 DEF Lesser, Surplus
        <4> QED
          BY <1>3, <1>8, <4>2
      <3>2. CASE ~last
        <4>1. PICK l \in i + 1..Term : owed[l] # 0
          BY <3>2
        <4>2. l \in Rows /\ l \in 1..Term /\ l >= i'
          BY <1>3, <1>8 DEF Rows
        <4>3. owed[l] > 0
          BY <1>3, <4>1, <4>2
        <4> QED
          BY <4>2, <4>3
      <3> QED
        BY <3>1, <3>2
    <2> QED
      BY <2>3, <2>4, <2>5, <2>6
  <1>16. left' < 0 => \E k \in Rows : owed[k] > 0 /\ principal'[k] = 0
    <2>1. SUFFICES ASSUME left' < 0 PROVE \E k \in Rows : owed[k] > 0 /\ principal'[k] = 0
      OBVIOUS
    <2>2. CASE ~last
      <3>1. PICK l \in i + 1..Term : owed[l] # 0
        BY <2>2
      <3>2. l \in Rows /\ l \in 1..Term /\ l >= i'
        BY <1>3, <1>8 DEF Rows
      <3>3. owed[l] > 0 /\ principal'[l] = 0
        BY <1>3, <1>8, <3>1, <3>2
      <3> QED
        BY <3>2, <3>3
    <2>3. CASE last /\ owed[i] > 0
      <3>1. x = Lesser(owed[i], Surplus(left, 0))
        BY <1>7, <2>3
      <3>2. x = 0
        BY <1>1, <1>2, <1>3, <2>1, <3>1 DEF Lesser, Surplus
      <3> QED
        BY <1>3, <1>8, <2>3, <3>2
    <2>4. CASE owed[i] = 0
      <3>1. left < 0
        BY <1>1, <1>2, <1>7, <2>1, <2>4
      <3>2. PICK k \in Rows : owed[k] > 0 /\ principal[k] = 0
        BY <1>4, <3>1
      <3>3. k # i
        BY <2>4, <3>2
      <3> QED
        BY <1>8, <3>2, <3>3
    <2> QED
      BY <1>3, <2>2, <2>3, <2>4
  <1>17. SettlementInv'
    <2>1. /\ at' # "done" /\ task'.kind = "settlement"
      BY <1>1, <1>8
    <2> QED
      BY <1>8, <1>11, <1>12, <1>13, <1>14, <1>15, <1>16, <2>1 DEF SettlementInv, Drift, Rows, Term, owed
  <1> QED
    BY <1>1, <1>8, <1>9, <1>10, <1>17
    DEF MathInv, SpreadInv, DecliningInv, PaymentInv, SchedulesAddUp, PaymentIsSpread, SettlementIsSpread, Finished

(* One row is the last allocation, if there is one at all.                 *)
LEMMA LastAllocation ==
  ASSUME Term \in Nat
  PROVE  LET last == {k \in Rows : Allocated(k) /\ \A l \in k + 1..Term : ~Allocated(l)}
         IN  /\ last = {} \/ \E k \in Rows : last = {k}
             /\ (\E k \in Rows : Allocated(k)) => last # {}
  <1> DEFINE last == {k \in Rows : Allocated(k) /\ \A l \in k + 1..Term : ~Allocated(l)}
             T    == {Term - k : k \in {j \in Rows : Allocated(j)}}
  <1>1. ASSUME NEW k \in last, NEW l \in last PROVE k = l
    <2>1. k \in 1..Term /\ l \in 1..Term /\ Allocated(k) /\ Allocated(l)
      BY <1>1 DEF Rows
    <2>2. CASE k < l
      <3>1. l \in k + 1..Term
        BY <2>1, <2>2
      <3> QED
        BY <1>1, <2>1, <3>1
    <2>3. CASE l < k
      <3>1. k \in l + 1..Term
        BY <2>1, <2>3
      <3> QED
        BY <1>1, <2>1, <3>1
    <2> QED
      BY <2>1, <2>2, <2>3
  <1>2. ASSUME \E k \in Rows : Allocated(k) PROVE last # {}
    <2>1. T # {} /\ T \subseteq Nat
      BY <1>2 DEF Rows
    <2>2. PICK m \in T : \A y \in T : ~(y < m)
      <3> HIDE DEF T
      <3> QED
        BY <2>1, LeastNumber
    <2>3. PICK k \in Rows : Allocated(k) /\ m = Term - k
      BY <2>2
    <2>4. ASSUME NEW l \in k + 1..Term PROVE ~Allocated(l)
      <3>1. SUFFICES ASSUME Allocated(l) PROVE FALSE
        OBVIOUS
      <3>2. l \in Rows /\ k \in 1..Term /\ Term - l < m
        BY <2>3, <2>4 DEF Rows
      <3>3. Term - l \in T
        BY <3>1, <3>2
      <3> QED
        BY <2>2, <3>2, <3>3
    <2> QED
      BY <2>3, <2>4
  <1> HIDE DEF last, T
  <1>3. last = {} \/ \E k \in Rows : last = {k}
    <2>1. last \subseteq Rows
      BY DEF last
    <2> QED
      BY <1>1, <2>1
  <1> QED
    BY <1>2, <1>3 DEF last

(* What is left over goes to the last allocation, or is taken off it.      *)
LEMMA ReconcileKeeps ==
  ASSUME MathInv, Reconcile PROVE MathInv'
  <1> DEFINE owed == OwedOn(task)
             R    == Total(owed, Term)
             last == {k \in Rows : Allocated(k) /\ \A l \in k + 1..Term : ~Allocated(l)}
             off  == left > 1 \/ left < -1
  <1>1. /\ task.kind = "settlement" /\ at = "last" /\ at' = "done"
        /\ principal' = [k \in Rows |-> IF off /\ k \in last THEN Surplus(principal[k] + left, 0) ELSE principal[k]]
        /\ task' = task /\ i' = i /\ left' = left /\ interestLeft' = interestLeft
        /\ interest' = interest /\ fee' = fee
    BY DEF Reconcile
  <1>2. TypeOK /\ Position /\ SettlementInv /\ task \in Tasks /\ left \in Int /\ i = Term + 1
    BY <1>1 DEF MathInv, TypeOK, Position
  <1>3. /\ Term \in Nat \ {0} /\ task.amount \in Nat
        /\ owed \in [1..Term -> Nat] /\ task.amount <= R /\ principal \in [1..Term -> Int]
    BY <1>1, <1>2, TaskTyped DEF TypeOK, Rows
  <1>4. \A k \in Rows : k < i /\ ~(k >= i)
    BY <1>2, <1>3 DEF Rows
  <1>5. /\ \A k \in Rows : fee[k] = task.owed[k].fee
        /\ Total(principal, Term) + left = task.amount
        /\ \A k \in Rows : 0 <= principal[k] /\ principal[k] <= owed[k]
        /\ R * (task.amount - left) >= task.amount * Total(owed, i - 1) - (Drift * R) * (i - 1)
        /\ left > 0 => \E k \in Rows : principal[k] > 0
        /\ left < 0 => \E k \in Rows : owed[k] > 0 /\ principal[k] = 0
    BY <1>1, <1>2, <1>4 DEF SettlementInv
  <1> HIDE DEF owed, last
  <1>6. last = {} \/ \E k \in Rows : last = {k}
    BY <1>3, LastAllocation DEF last
  <1>7. left > 0 => last # {}
    <2>1. (\E k \in Rows : Allocated(k)) => last # {}
      BY <1>3, LastAllocation DEF last
    <2> QED
      BY <1>5, <2>1 DEF Allocated
  <1>8. /\ R \in Nat /\ Total(principal, Term) \in Int
        /\ \A k \in Rows : owed[k] \in Nat /\ owed[k] <= R /\ principal[k] \in Int
    <2>1. \A k \in 1..Term : owed[k] \in Nat /\ principal[k] \in Int
      BY <1>3
    <2> QED
      BY <1>3, <2>1, TotalGrows, TotalType DEF Rows
  <1>9. Drift \in Nat /\ Drift * Term \in Nat
    <2>1. Drift \in Nat
      BY <1>3, Hundredth, DivBound DEF Drift
    <2> QED
      BY <1>3, <2>1
  <1>10. left <= Drift * Term
    <2>1. CASE left <= 0
      BY <1>2, <1>9, <2>1
    <2>2. CASE left > 0
      <3>1. R \in Nat \ {0}
        BY <1>5, <1>8, <2>2
      <3>2. Total(owed, i - 1) = R /\ i - 1 = Term
        BY <1>2, <1>3
      <3> HIDE DEF R
      <3>3. R * (task.amount - left) >= task.amount * R - (Drift * R) * Term
        BY <1>5, <3>2
      <3>4. /\ R * (task.amount - left) = task.amount * R - R * left /\ R * left \in Int /\ task.amount * R \in Int
        BY <1>2, <1>3, <3>1
      <3>5. (Drift * R) * Term = R * (Drift * Term) /\ R * (Drift * Term) \in Int
        BY <1>3, <1>9, <3>1
      <3>6. R * left <= R * (Drift * Term)
        BY <3>3, <3>4, <3>5
      <3> QED
        BY <1>2, <1>9, <3>1, <3>6, CancelProduct
    <2> QED
      BY <1>2, <2>1, <2>2
  <1>11. ASSUME NEW k \in Rows
         PROVE  /\ principal'[k] \in Int /\ 0 <= principal'[k] /\ principal'[k] <= owed[k] + Drift * Term
                /\ left < 0 => principal'[k] <= principal[k]
    <2>1. principal'[k] = principal[k] \/ principal'[k] = Surplus(principal[k] + left, 0)
      BY <1>1
    <2>2. /\ principal[k] \in Int /\ 0 <= principal[k] /\ principal[k] <= owed[k] /\ owed[k] \in Nat
      BY <1>5, <1>8
    <2> QED
      BY <1>2, <1>9, <1>10, <2>1, <2>2 DEF Surplus
  <1>12. principal' \in [Rows -> Int]
    BY <1>1, <1>11
  <1>13. /\ Total(principal', Term) >= task.amount - 1
         /\ left >= 0 => Total(principal', Term) <= task.amount
         /\ left = -1 => Total(principal', Term) <= task.amount + 1
    <2>1. CASE ~off \/ last = {}
      <3>1. principal' = principal
        <4>1. \A k \in Rows : principal'[k] = principal[k]
          BY <1>1, <2>1
        <4>2. principal \in [Rows -> Int]
          BY <1>3 DEF Rows
        <4> QED
          BY <1>12, <4>1, <4>2
      <3>2. left <= 1
        BY <1>2, <1>7, <2>1
      <3> QED
        BY <1>2, <1>3, <1>5, <1>8, <3>1, <3>2
    <2>2. CASE off /\ last # {}
      <3>1. PICK k \in Rows : last = {k}
        BY <1>6, <2>2
      <3> DEFINE v == Surplus(principal[k] + left, 0)
      <3>2. v \in Int /\ principal[k] \in Int /\ v >= principal[k] + left /\ (left > 0 => v = principal[k] + left)
        <4>1. principal[k] \in Int /\ 0 <= principal[k]
          BY <1>5, <1>8
        <4> QED
          BY <1>2, <4>1 DEF Surplus
      <3>3. principal' = [principal EXCEPT ![k] = v]
        <4>1. \A j \in Rows : principal'[j] = IF j = k THEN v ELSE principal[j]
          BY <1>1, <2>2, <3>1
        <4>2. principal \in [Rows -> Int]
          BY <1>3 DEF Rows
        <4> HIDE DEF v
        <4> QED
          BY <1>12, <3>2, <4>1, <4>2
      <3> HIDE DEF v
      <3>4. Total([principal EXCEPT ![k] = v], Term) = Total(principal, Term) - principal[k] + v
        <4>1. k \in 1..Term
          BY DEF Rows
        <4> QED
          BY <1>3, <3>2, <4>1, TotalUpdate
      <3>5. Total(principal', Term) = Total(principal, Term) - principal[k] + v
        BY <3>3, <3>4
      <3>6. /\ left \in Int /\ task.amount \in Nat /\ Total(principal, Term) \in Int
            /\ Total(principal, Term) + left = task.amount /\ (left > 1 \/ left < -1)
        BY <1>2, <1>3, <1>5, <1>8, <2>2
      <3> QED
        BY <3>2, <3>5, <3>6
    <2> QED
      BY <2>1, <2>2
  <1>14. left < 0 => \E k \in Rows : owed[k] > 0 /\ principal'[k] = 0
    <2>1. SUFFICES ASSUME left < 0 PROVE \E k \in Rows : owed[k] > 0 /\ principal'[k] = 0
      OBVIOUS
    <2>2. PICK k \in Rows : owed[k] > 0 /\ principal[k] = 0
      BY <1>5, <2>1
    <2>3. principal'[k] = 0
      BY <1>11, <2>1, <2>2
    <2> QED
      BY <2>2, <2>3
  <1>15. TypeOK' /\ Position'
    BY <1>1, <1>2, <1>3, <1>4, <1>12 DEF TypeOK, Position, Rows, Term
  <1>16. SettlementInv'
    BY <1>1, <1>5 DEF SettlementInv, Rows, Term
  <1>17. SettlementIsSpread'
    <2>1. \/ Total(principal', Term) <= task.amount + 1
          \/ \E k \in Rows : owed[k] > 0 /\ principal'[k] = 0
      <3>1. left < 0 \/ left >= 0
        BY <1>2
      <3>2. Total(principal', Term) \in Int
        <4>1. \A k \in 1..Term : principal'[k] \in Int
          BY <1>11 DEF Rows
        <4> QED
          BY <1>3, <4>1, TotalType
      <3> QED
        BY <1>3, <1>13, <1>14, <3>1, <3>2
    <2>2. \A k \in Rows : fee'[k] = task.owed[k].fee
      BY <1>1, <1>5
    <2> QED
      BY <1>1, <1>11, <1>13, <2>1, <2>2 DEF SettlementIsSpread, Finished, Drift, Rows, Term, owed
  <1> QED
    BY <1>1, <1>15, <1>16, <1>17
    DEF MathInv, SpreadInv, DecliningInv, PaymentInv, SchedulesAddUp, PaymentIsSpread, Finished

-----------------------------------------------------------------------------
THEOREM MathInvariant == Spec => []MathInv
  <1>1. ASSUME MathInv, [Next]_vars PROVE MathInv'
    <2>1. CASE FlatRow
      BY <1>1, <2>1, FlatRowKeeps
    <2>2. CASE Rule78Row
      BY <1>1, <2>2, Rule78RowKeeps
    <2>3. CASE DecliningRow
      BY <1>1, <2>3, DecliningRowKeeps
    <2>4. CASE DecliningLast
      BY <1>1, <2>4, DecliningLastKeeps
    <2>5. CASE PayRow
      BY <1>1, <2>5, PayRowKeeps
    <2>6. CASE PayEnd
      BY <1>1, <2>6, PayEndKeeps
    <2>7. CASE SettleRow
      BY <1>1, <2>7, SettleRowKeeps
    <2>8. CASE Reconcile
      BY <1>1, <2>8, ReconcileKeeps
    <2>9. CASE UNCHANGED vars
      BY <1>1, <2>9
      DEF vars, rows, MathInv, TypeOK, Position, SpreadInv, DecliningInv, PaymentInv, SettlementInv,
          SchedulesAddUp, PaymentIsSpread, SettlementIsSpread, Finished, Allocated, Drift, Rows, Term
    <2> QED
      BY <1>1, <2>1, <2>2, <2>3, <2>4, <2>5, <2>6, <2>7, <2>8, <2>9 DEF Next
  <1> QED
    BY <1>1, Starts, PTL DEF Spec

(* Rows are cents, interest and fees never negative, and no loop runs past *)
(* the last row.                                                           *)
THEOREM MathTyped == Spec => []TypeOK
  <1>1. MathInv => TypeOK
    BY DEF MathInv
  <1> QED
    BY <1>1, MathInvariant, PTL

(* A schedule of any principal, rate and term repays the principal and the *)
(* interest to the cent, whatever the roundings.                           *)
THEOREM SchedulesAddUpAlways == Spec => []SchedulesAddUp
  <1>1. MathInv => SchedulesAddUp
    BY DEF MathInv
  <1> QED
    BY <1>1, MathInvariant, PTL

(* A payment of any amount over any installments is booked from the first  *)
(* down, but for a cent and one for each part.                             *)
THEOREM PaymentIsSpreadAlways == Spec => []PaymentIsSpread
  <1>1. MathInv => PaymentIsSpread
    BY DEF MathInv
  <1> QED
    BY <1>1, MathInvariant, PTL

(* A settlement of any amount over any installments is booked to a cent    *)
(* more or less.                                                           *)
THEOREM SettlementIsSpreadAlways == Spec => []SettlementIsSpread
  <1>1. MathInv => SettlementIsSpread
    BY DEF MathInv
  <1> QED
    BY <1>1, MathInvariant, PTL
=============================================================================

----------------------------- MODULE ShowroomProofs -----------------------------
(***************************************************************************)
(* Stock, listings, the sales floor and the desk keep their promises for   *)
(* every number of vehicles, opportunities, visits, rules and versions,    *)
(* and the calculator adds up for every rule book, amount, rate and term.  *)
(*                                                                         *)
(* Each component has an invariant of its own, a lemma that it stands      *)
(* while the component's variables do, and a lemma for each operation.     *)
(* The figures need two facts of arithmetic: rounding is off by half at    *)
(* most, and the growth of a debt, truncated month by month, never exceeds *)
(* what n months of simple interest on the grown debt would make of it     *)
(* (GrowthIsBounded), so a payment covers its share of the amount.         *)
(***************************************************************************)
EXTENDS Desking, CrmProofs

--------------------------------------------------------------------------------
(* Money *)

\* Products keep an order and a common factor can be cancelled.
LEMMA ProductsOrdered ==
    ASSUME NEW a \in Int, NEW b \in Int, NEW c \in Nat, a <= b
    PROVE  a * c <= b * c
OBVIOUS

\* A positive common factor is cancelled.
LEMMA FactorCancelled ==
    ASSUME NEW a \in Int, NEW b \in Int, NEW c \in Nat \ {0}, a * c < b * c
    PROVE  a < b
<1>1. b <= a => b * c <= a * c
  BY ProductsOrdered
<1>2. a * c \in Int /\ b * c \in Int
  OBVIOUS
<1> QED
  BY <1>1, <1>2

\* Dividing leaves a remainder smaller than the divisor.
LEMMA Division ==
    ASSUME NEW x \in Nat, NEW d \in Nat \ {0}
    PROVE  /\ x \div d \in Nat
           /\ (x \div d) * d <= x /\ x < (x \div d) * d + d
OBVIOUS

\* Half away from zero: the quotient is no more than half a unit too small.
LEMMA RoundedUp ==
    ASSUME NEW x \in Nat, NEW d \in Nat \ {0}
    PROVE  /\ roundDiv(x, d) \in Nat
           /\ 2 * x < 2 * (roundDiv(x, d) * d) + d
<1> DEFINE m == roundDiv(x, d)
           y == x * 2 + d
           e == d * 2
<1>1. y \in Nat /\ e \in Nat \ {0} /\ m = y \div e
  BY DEF roundDiv
<1> HIDE DEF m, y, e
<1>2. m \in Nat /\ y < m * e + e
  BY <1>1, Division
<1>3. m * e = 2 * (m * d) /\ m * d \in Int
  BY <1>2 DEF e
<1> HIDE DEF e
<1>4. 2 * x < 2 * (m * d) + d
  BY <1>2, <1>3 DEF y, e
<1> QED
  BY <1>2, <1>4 DEF m

\* A table built entry by entry: there is one for every length.
LEMMA GrowthRuns ==
    ASSUME NEW r \in Nat, NEW n \in Nat
    PROVE  \E f \in [0..n -> Nat] :
              /\ growth(r, n) = f[n] /\ f[0] = PAYMENT_SCALE
              /\ \A i \in 1..n : f[i] = (f[i - 1] * (PAYMENT_SCALE + r)) \div PAYMENT_SCALE
<1> DEFINE P == PAYMENT_SCALE
           Next1(x) == (x * (P + r)) \div P
           Builds(f, k) == f \in [0..k -> Nat] /\ f[0] = P /\ \A i \in 1..k : f[i] = Next1(f[i - 1])
           Good == {k \in Nat : \E f : Builds(f, k)}
<1>0. P \in Nat \ {0}
  BY DeskingAssumption
<1>n. ASSUME NEW x \in Nat PROVE Next1(x) \in Nat
  <2>1. x * (P + r) \in Nat
    BY <1>0
  <2> DEFINE y == x * (P + r)
  <2> HIDE DEF y
  <2>2. y \in Nat => y \div P \in Nat
    BY <1>0, Division
  <2> QED
    BY <2>1, <2>2 DEF y
<1> HIDE DEF P, Next1
<1>1. 0 \in Good
  <2> DEFINE f == [i \in 0..0 |-> P]
  <2>1. Builds(f, 0)
    BY <1>0
  <2> QED
    BY <2>1
<1>2. ASSUME NEW k \in Nat, k \in Good PROVE k + 1 \in Good
  <2>1. PICK f : Builds(f, k)
    BY <1>2
  <2> DEFINE x == Next1(f[k])
             h == [i \in 0..(k + 1) |-> IF i = k + 1 THEN x ELSE f[i]]
  <2>2. x \in Nat
    BY <1>n, <2>1
  <2>3. h \in [0..(k + 1) -> Nat] /\ h[0] = P /\ h[k + 1] = x /\ \A i \in 0..k : h[i] = f[i]
    <3> HIDE DEF x
    <3> QED
      BY <2>1, <2>2
  <2>4. ASSUME NEW i \in 1..(k + 1) PROVE h[i] = Next1(h[i - 1])
    <3> HIDE DEF h, x
    <3>1. CASE i = k + 1
      <4>1. i - 1 = k /\ k \in 0..k
        BY <3>1
      <4> QED
        BY <2>3, <3>1, <4>1 DEF x
    <3>2. CASE i # k + 1
      <4>1. i \in 1..k /\ i \in 0..k /\ i - 1 \in 0..k
        BY <3>2
      <4> QED
        BY <2>1, <2>3, <4>1
    <3> QED
      BY <3>1, <3>2
  <2> HIDE DEF h
  <2>5. Builds(h, k + 1)
    BY <2>3, <2>4
  <2> QED
    BY <2>5
<1>3. n \in Good
  <2> HIDE DEF Good
  <2> QED
    BY <1>1, <1>2, EveryNat
<1>4. PICK f : Builds(f, n)
  BY <1>3
<1> DEFINE Runs(g) == g = [i \in 0..n |-> IF i = 0 THEN P ELSE Next1(g[i - 1])]
           R == CHOOSE g : Runs(g)
<1>5. growth(r, n) = R[n]
  BY DEF growth, P, Next1
<1>6. Runs(f)
  <2>1. \A i \in 0..n : f[i] = IF i = 0 THEN P ELSE Next1(f[i - 1])
    <3> SUFFICES ASSUME NEW i \in 0..n, i # 0 PROVE f[i] = Next1(f[i - 1])
      BY <1>4
    <3>1. i \in 1..n
      OBVIOUS
    <3> QED
      BY <1>4, <3>1
  <2> QED
    BY <1>4, <2>1
<1>7. Runs(R)
  <2> HIDE DEF Runs
  <2> QED
    BY <1>6
<1> HIDE DEF R
<1>8. R \in [0..n -> Nat] /\ R[0] = P /\ \A i \in 1..n : R[i] = Next1(R[i - 1])
  <2>1. \A i \in 0..n : R[i] = IF i = 0 THEN P ELSE Next1(R[i - 1])
    BY <1>7
  <2>2. R = [i \in 0..n |-> R[i]]
    BY <1>7
  <2> HIDE DEF Runs
  <2> DEFINE Same == {i \in Nat : i <= n => R[i] \in Nat}
  <2>3. 0 \in Same
    BY <1>0, <2>1
  <2>4. ASSUME NEW i \in Nat, i \in Same PROVE i + 1 \in Same
    <3> SUFFICES ASSUME i + 1 <= n PROVE R[i + 1] \in Nat
      OBVIOUS
    <3>1. i + 1 \in 0..n /\ i + 1 # 0 /\ (i + 1) - 1 = i /\ i <= n
      OBVIOUS
    <3>2. R[i] \in Nat
      BY <2>4, <3>1
    <3>3. R[i + 1] = Next1(R[i])
      BY <2>1, <3>1
    <3> QED
      BY <1>n, <3>2, <3>3
  <2>5. \A i \in Nat : i \in Same
    <3> HIDE DEF Same
    <3> QED
      BY <2>3, <2>4, EveryNat
  <2>6. \A i \in 0..n : R[i] \in Nat
    BY <2>5
  <2> HIDE DEF Same
  <2>7. R \in [0..n -> Nat]
    BY ONLY <2>2, <2>6
  <2>8. R[0] = P
    <3>1. 0 \in 0..n
      OBVIOUS
    <3> QED
      BY ONLY <2>1, <3>1
  <2>9. ASSUME NEW i \in 1..n PROVE R[i] = Next1(R[i - 1])
    <3>1. i \in 0..n /\ i # 0
      OBVIOUS
    <3> QED
      BY ONLY <2>1, <3>1
  <2> QED
    BY ONLY <2>7, <2>8, <2>9
<1> QED
  BY <1>5, <1>8 DEF P, Next1

\* Interest on n instalments is no more than n times the interest on the last of them.
LEMMA GrowthIsBounded ==
    ASSUME NEW r \in Nat, NEW n \in Nat
    PROVE  LET G == growth(r, n) IN
           /\ G \in Nat /\ G >= PAYMENT_SCALE
           /\ (G - PAYMENT_SCALE) * PAYMENT_SCALE <= (n * r) * G
<1> DEFINE P == PAYMENT_SCALE
<1>0. P \in Nat \ {0}
  BY DeskingAssumption
<1>1. PICK f \in [0..n -> Nat] :
          /\ growth(r, n) = f[n] /\ f[0] = P /\ \A i \in 1..n : f[i] = (f[i - 1] * (P + r)) \div P
  BY GrowthRuns
<1> HIDE DEF P
<1> DEFINE Good == {i \in Nat : i <= n => f[i] >= P /\ (f[i] - P) * P <= (i * r) * f[i]}
<1>2. 0 \in Good
  BY <1>0, <1>1
<1>3. ASSUME NEW i \in Nat, i \in Good PROVE i + 1 \in Good
  <2> SUFFICES ASSUME i + 1 <= n PROVE f[i + 1] >= P /\ (f[i + 1] - P) * P <= ((i + 1) * r) * f[i + 1]
    OBVIOUS
  <2> DEFINE x == f[i]
             y == f[i + 1]
  <2>1. i \in 0..n /\ i + 1 \in 0..n /\ i + 1 \in 1..n /\ (i + 1) - 1 = i
    OBVIOUS
  <2>2. x \in Nat /\ y \in Nat /\ x >= P /\ (x - P) * P <= (i * r) * x /\ y = (x * (P + r)) \div P
    BY <1>1, <1>3, <2>1
  <2> HIDE DEF x, y
  <2>3. x * (P + r) \in Nat /\ x * (P + r) = x * P + x * r /\ x * P \in Nat /\ x * r \in Nat
    BY <1>0, <2>2
  <2>4. y * P <= x * P + x * r /\ x * P + x * r < y * P + P /\ y * P \in Nat
    <3> DEFINE z == x * (P + r)
    <3> HIDE DEF z
    <3>1. z \in Nat => (z \div P) * P <= z /\ z < (z \div P) * P + P /\ z \div P \in Nat
      BY <1>0, Division
    <3> QED
      BY <1>0, <2>2, <2>3, <3>1 DEF z
  <2>5. x <= y
    <3>1. x * P < (y + 1) * P
      <4>1. (y + 1) * P = y * P + P
        BY <1>0, <2>2
      <4> QED
        BY <1>0, <2>3, <2>4, <4>1
    <3>2. x < y + 1
      BY <1>0, <2>2, <3>1, FactorCancelled
    <3> QED
      BY <2>2, <3>2
  <2>6. (y - P) * P <= ((i + 1) * r) * x
    <3>1. (y - P) * P = y * P - P * P /\ (x - P) * P = x * P - P * P /\ P * P \in Nat
      BY <1>0, <2>2
    <3>2. ((i + 1) * r) * x = (i * r) * x + x * r /\ (i * r) * x \in Nat
      BY <2>2
    <3> QED
      BY <2>2, <2>3, <2>4, <3>1, <3>2
  <2>7. ((i + 1) * r) * x <= ((i + 1) * r) * y
    <3>1. (i + 1) * r \in Nat
      OBVIOUS
    <3> DEFINE c == (i + 1) * r
    <3> HIDE DEF c
    <3>2. c \in Nat => x * c <= y * c /\ x * c = c * x /\ y * c = c * y
      BY <2>2, <2>5, ProductsOrdered
    <3> QED
      BY <3>1, <3>2 DEF c
  <2>8. (y - P) * P \in Int /\ ((i + 1) * r) * x \in Int /\ ((i + 1) * r) * y \in Int
    BY <1>0, <2>2
  <2> QED
    BY <1>0, <2>2, <2>5, <2>6, <2>7, <2>8 DEF y
<1>4. n \in Good
  <2> HIDE DEF Good
  <2> QED
    BY <1>2, <1>3, EveryNat
<1> QED
  BY <1>1, <1>4 DEF P

\* Instalments repay what is financed, to within half a unit each.
LEMMA PaymentsRepay ==
    ASSUME NEW financed \in Int, NEW n \in Nat \ {0}, NEW apr \in Nat
    PROVE  LET m == monthlyPayment(financed, n, apr) IN
           m \in Nat /\ 2 * n * m + n >= 2 * financed
<1> DEFINE P == PAYMENT_SCALE
           r == roundDiv(apr * P, PPM * 12)
           G == growth(r, n)
           m == monthlyPayment(financed, n, apr)
           D == (G - P) * P
           x == financed * r * G
<1>0. P \in Nat \ {0} /\ PPM \in Nat \ {0}
  BY DeskingAssumption
<1>1. r \in Nat
  <2>1. apr * P \in Nat /\ PPM * 12 \in Nat \ {0}
    BY <1>0
  <2> DEFINE a == apr * P
             b == PPM * 12
  <2> HIDE DEF a, b
  <2>2. a \in Nat /\ b \in Nat \ {0} => roundDiv(a, b) \in Nat
    BY RoundedUp
  <2> QED
    BY <2>1, <2>2 DEF a, b
<1>2. m = IF financed <= 0 THEN 0 ELSE IF r = 0 \/ G <= P THEN roundDiv(financed, n) ELSE roundDiv(x, D)
  BY DEF monthlyPayment
<1> HIDE DEF r, P, m
<1>3. G \in Nat /\ G >= P /\ (G - P) * P <= (n * r) * G
  BY <1>1, GrowthIsBounded DEF P
<1> HIDE DEF G
<1>4. CASE financed <= 0
  BY <1>2, <1>4 DEF m
<1>5. CASE financed > 0 /\ (r = 0 \/ G <= P)
  <2>1. m = roundDiv(financed, n) /\ financed \in Nat
    BY <1>2, <1>5
  <2>2. m \in Nat /\ 2 * financed < 2 * (m * n) + n
    BY <2>1, RoundedUp
  <2>3. 2 * (m * n) = 2 * n * m
    BY <2>2
  <2> QED
    BY <2>2, <2>3 DEF m
<1>6. CASE financed > 0 /\ r # 0 /\ G > P
  <2>1. m = roundDiv(x, D)
    <3> HIDE DEF x, D
    <3> QED
      BY <1>0, <1>2, <1>3, <1>6
  <2>2. financed \in Nat /\ D \in Nat \ {0} /\ x \in Nat
    <3>1. G - P \in Nat \ {0} /\ financed \in Nat
      BY <1>0, <1>3, <1>6
    <3>2. D \in Nat \ {0}
      BY <1>0, <3>1
    <3>3. financed * r \in Nat
      BY <1>1, <3>1
    <3> QED
      BY <1>3, <3>1, <3>2, <3>3
  <2>3. m \in Nat /\ 2 * x < 2 * (m * D) + D
    <3> HIDE DEF x, D
    <3> QED
      BY <2>1, <2>2, RoundedUp
  \* Multiply by the term: n * x is at least financed * D.
  <2>4. financed * D <= n * x
    <3> DEFINE z == (n * r) * G
    <3>1. D <= z /\ z \in Nat
      BY <1>1, <1>3
    <3>2. z * financed = n * x
      BY <1>1, <1>3, <2>2
    <3> HIDE DEF z, D, x
    <3>3. D * financed <= z * financed
      BY <2>2, <3>1, ProductsOrdered
    <3> QED
      BY <2>2, <3>2, <3>3
  <2>5. n * (2 * x) < n * (2 * (m * D) + D)
    <3> DEFINE a == 2 * x
               b == 2 * (m * D) + D
    <3>1. a \in Nat /\ b \in Nat /\ a < b
      <4> HIDE DEF D, x
      <4> QED
        BY <2>2, <2>3
    <3> HIDE DEF a, b
    <3>2. n * a < n * b
      BY <3>1
    <3> QED
      BY <3>2 DEF a, b
  <2> HIDE DEF x, D
  <2>6. n * (2 * x) = 2 * (n * x) /\ n * x \in Nat
    BY <2>2
  <2>7. n * (2 * (m * D) + D) = (2 * n * m + n) * D /\ financed * D \in Nat /\ (2 * n * m + n) * D \in Nat
    BY <2>2, <2>3
  <2>8. (2 * financed) * D = 2 * (financed * D)
    BY <2>2
  <2>9. (2 * financed) * D < (2 * n * m + n) * D
    BY <2>4, <2>5, <2>6, <2>7, <2>8
  <2>10. 2 * financed < 2 * n * m + n
    <3> DEFINE a == 2 * financed
               b == 2 * n * m + n
    <3>1. a \in Int /\ b \in Int
      BY <2>3
    <3>2. a * D < b * D
      BY <2>9
    <3> HIDE DEF a, b
    <3>3. a < b
      BY <2>2, <3>1, <3>2, FactorCancelled
    <3> QED
      BY <3>3 DEF a, b
  <2>11. 2 * n * m + n \in Int
    BY <2>3
  <2> QED
    BY <2>3, <2>10, <2>11 DEF m
<1> QED
  BY <1>1, <1>3, <1>4, <1>5, <1>6, <1>0

--------------------------------------------------------------------------------
(* Sums of amounts *)

Sums(f, s) ==
    /\ f \in [0..Len(s) -> Int] /\ f[0] = 0
    /\ \A i \in 1..Len(s) : f[i] = f[i - 1] + s[i]

\* Every sequence of integers has its running sums, and the last of them is the total.
LEMMA RunningSums ==
    ASSUME NEW s \in Seq(Int)
    PROVE  \E f : Sums(f, s) /\ Total(s) = f[Len(s)]
<1> DEFINE n == Len(s)
           Builds(f, k) == f \in [0..k -> Int] /\ f[0] = 0 /\ \A i \in 1..k : f[i] = f[i - 1] + s[i]
           Good == {k \in Nat : k <= n => \E f : Builds(f, k)}
<1>0. n \in Nat /\ \A i \in 1..n : s[i] \in Int
  OBVIOUS
<1>1. 0 \in Good
  <2> DEFINE f == [i \in 0..0 |-> 0]
  <2>1. Builds(f, 0)
    OBVIOUS
  <2> QED
    BY <2>1
<1>2. ASSUME NEW k \in Nat, k \in Good PROVE k + 1 \in Good
  <2> SUFFICES ASSUME k + 1 <= n PROVE \E f : Builds(f, k + 1)
    OBVIOUS
  <2>0. k <= n
    BY <1>0
  <2>1. PICK f : Builds(f, k)
    BY ONLY <1>2, <2>0
  <2> DEFINE x == f[k] + s[k + 1]
             h == [i \in 0..(k + 1) |-> IF i = k + 1 THEN x ELSE f[i]]
  <2>2. x \in Int
    <3>1. k + 1 \in 1..n /\ k \in 0..k
      BY <1>0
    <3>2. f[k] \in Int /\ s[k + 1] \in Int
      BY <1>0, <2>1, <3>1
    <3> QED
      BY <3>2
  <2>3. h \in [0..(k + 1) -> Int] /\ h[0] = 0 /\ h[k + 1] = x /\ \A i \in 0..k : h[i] = f[i]
    <3> HIDE DEF x
    <3> QED
      BY <2>1, <2>2
  <2>4. ASSUME NEW i \in 1..(k + 1) PROVE h[i] = h[i - 1] + s[i]
    <3> HIDE DEF h, x
    <3>1. CASE i = k + 1
      <4>1. i - 1 = k /\ k \in 0..k
        BY <3>1
      <4> QED
        BY <2>3, <3>1, <4>1 DEF x
    <3>2. CASE i # k + 1
      <4>1. i \in 1..k /\ i \in 0..k /\ i - 1 \in 0..k
        BY <3>2
      <4> QED
        BY <2>1, <2>3, <4>1
    <3> QED
      BY <3>1, <3>2
  <2> HIDE DEF h
  <2>5. Builds(h, k + 1)
    BY <2>3, <2>4
  <2> QED
    BY <2>5
<1>3. n \in Good
  <2> HIDE DEF Good, n
  <2> QED
    BY <1>0, <1>1, <1>2, EveryNat
<1>4. PICK f : Builds(f, n)
  BY <1>0, <1>3
<1>5. Total(s) = f[n]
  <2> HIDE DEF n
  <2>1. Len(s) = n
    BY DEF n
  <2>2. Adds(f, s, n)
    BY <1>0, <1>4, <2>1 DEF Adds
  <2> QED
    BY <2>2, TotalIs
<1> QED
  BY <1>4, <1>5 DEF Sums

\* The total is the last of the running sums.
LEMMA TotalFromSums ==
    ASSUME NEW s \in Seq(Int), NEW f, Sums(f, s)
    PROVE  Total(s) = f[Len(s)]
<1> DEFINE n == Len(s)
<1>1. n \in Nat /\ Len(s) = n
  OBVIOUS
<1>2. f \in [0..n -> Int] /\ f[0] = 0 /\ \A i \in 1..n : f[i] = f[i - 1] + s[i]
  BY DEF Sums
<1> HIDE DEF n
<1>3. Adds(f, s, n)
  BY <1>1, <1>2 DEF Adds
<1> QED
  BY <1>3, TotalIs DEF n

\* A total of integers is an integer.
LEMMA TotalIsInteger == ASSUME NEW s \in Seq(Int) PROVE Total(s) \in Int
<1>1. PICK f : Sums(f, s) /\ Total(s) = f[Len(s)]
  BY RunningSums
<1>2. Len(s) \in 0..Len(s)
  OBVIOUS
<1> QED
  BY <1>1, <1>2 DEF Sums

\* The total of one entry is the entry.
LEMMA TotalOfOne == ASSUME NEW x \in Int PROVE Total(<<x>>) = x
<1> DEFINE f == [i \in 0..1 |-> IF i = 0 THEN 0 ELSE x]
           s == <<x>>
<1>1. s \in Seq(Int) /\ Len(s) = 1 /\ s[1] = x
  OBVIOUS
<1>2. f \in [0..1 -> Int] /\ f[0] = 0 /\ f[1] = x
  OBVIOUS
<1> HIDE DEF f, s
<1>3. \A i \in 1..1 : f[i] = f[i - 1] + s[i]
  BY <1>1, <1>2
<1>4. Total(s) = f[1]
  BY <1>1, <1>2, <1>3, TotalFromSums DEF Sums
<1> QED
  BY <1>2, <1>4 DEF s

\* The total of nothing is zero.
LEMMA TotalOfNone == Total(<<>>) = 0
<1> DEFINE f == [i \in 0..0 |-> 0]
<1>1. <<>> \in Seq(Int) /\ Len(<<>>) = 0
  OBVIOUS
<1>2. f \in [0..0 -> Int] /\ f[0] = 0
  OBVIOUS
<1> HIDE DEF f
<1>3. Sums(f, <<>>)
  BY <1>1, <1>2 DEF Sums
<1> QED
  BY <1>1, <1>2, <1>3, TotalFromSums

\* The total of two sequences end to end.
LEMMA TotalOfBoth ==
    ASSUME NEW s \in Seq(Int), NEW t \in Seq(Int)
    PROVE  s \o t \in Seq(Int) /\ Total(s \o t) = Total(s) + Total(t)
<1> DEFINE m == Len(s)
           n == Len(t)
           u == s \o t
<1>0. m \in Nat /\ n \in Nat /\ u \in Seq(Int) /\ Len(u) = m + n
  OBVIOUS
<1>1. /\ \A i \in 1..m : u[i] = s[i]
      /\ \A i \in (m + 1)..(m + n) : u[i] = t[i - m]
  OBVIOUS
<1>2. PICK f : Sums(f, s) /\ Total(s) = f[m]
  BY RunningSums
<1>3. PICK g : Sums(g, t) /\ Total(t) = g[n]
  BY RunningSums
<1>4. /\ f \in [0..m -> Int] /\ f[0] = 0 /\ \A i \in 1..m : f[i] = f[i - 1] + s[i]
      /\ g \in [0..n -> Int] /\ g[0] = 0 /\ \A i \in 1..n : g[i] = g[i - 1] + t[i]
  BY <1>2, <1>3 DEF Sums
<1> HIDE DEF m, n, u
<1> DEFINE h == [i \in 0..(m + n) |-> IF i <= m THEN f[i] ELSE f[m] + g[i - m]]
<1>5. h \in [0..(m + n) -> Int]
  <2> SUFFICES ASSUME NEW i \in 0..(m + n) PROVE (IF i <= m THEN f[i] ELSE f[m] + g[i - m]) \in Int
    OBVIOUS
  <2>1. CASE i <= m
    <3>1. i \in 0..m
      BY <1>0, <2>1
    <3> QED
      BY <1>4, <2>1, <3>1
  <2>2. CASE ~(i <= m)
    <3>1. i - m \in 0..n /\ m \in 0..m
      BY <1>0, <2>2
    <3>2. f[m] \in Int /\ g[i - m] \in Int
      BY <1>4, <3>1
    <3> QED
      BY <2>2, <3>2
  <2> QED
    BY <2>1, <2>2
<1>6. /\ \A i \in 0..m : h[i] = f[i]
      /\ \A i \in (m + 1)..(m + n) : h[i] = f[m] + g[i - m]
      /\ h[m + n] = f[m] + g[n]
  <2>1. \A i \in 0..m : h[i] = f[i]
    BY <1>0
  <2>2. \A i \in (m + 1)..(m + n) : h[i] = f[m] + g[i - m]
    BY <1>0
  <2>3. CASE n = 0
    <3>1. m + n = m /\ m \in 0..m /\ f[m] \in Int /\ g[n] = 0
      BY <1>0, <1>4, <2>3
    <3> HIDE DEF h
    <3> QED
      BY <2>1, <2>2, <3>1
  <2>4. CASE n # 0
    <3>1. m + n \in (m + 1)..(m + n) /\ (m + n) - m = n
      BY <1>0, <2>4
    <3> HIDE DEF h
    <3> QED
      BY <2>1, <2>2, <3>1
  <2> QED
    BY <2>3, <2>4
<1> HIDE DEF h
<1>7. ASSUME NEW i \in 1..(m + n) PROVE h[i] = h[i - 1] + u[i]
  <2>1. CASE i <= m
    <3>1. i \in 0..m /\ i \in 1..m /\ i - 1 \in 0..m
      BY <1>0, <2>1
    <3> QED
      BY <1>1, <1>4, <1>6, <3>1
  <2>2. CASE i = m + 1
    <3>1. i \in (m + 1)..(m + n) /\ i - m = 1 /\ 1 \in 1..n /\ i - 1 = m /\ m \in 0..m /\ 1 - 1 = 0 /\ 0 \in 0..n
      BY <1>0, <2>2
    <3>2. h[i] = f[m] + g[1] /\ h[i - 1] = f[m] /\ u[i] = t[1] /\ f[m] \in Int
      <4>1. h[i] = f[m] + g[i - m]
        BY ONLY <1>6, <3>1
      <4>2. u[i] = t[i - m]
        BY ONLY <1>1, <3>1
      <4>3. h[m] = f[m] /\ f[m] \in Int
        BY ONLY <1>4, <1>6, <3>1
      <4> QED
        BY ONLY <3>1, <4>1, <4>2, <4>3
    <3>3. g[1] = g[1 - 1] + t[1]
      BY <1>4, <3>1
    <3>4. g[1] = t[1]
      <4>1. t[1] \in Int
        BY <3>1 DEF n
      <4>2. g[1 - 1] = 0
        BY ONLY <1>4, <3>1
      <4> QED
        BY ONLY <3>3, <4>1, <4>2
    <3> QED
      BY <3>2, <3>4
  <2>3. CASE i > m + 1
    <3>1. i \in (m + 1)..(m + n) /\ i - 1 \in (m + 1)..(m + n) /\ i - m \in 1..n /\ (i - 1) - m = (i - m) - 1
          /\ (i - m) - 1 \in 0..n /\ m \in 0..m
      BY <1>0, <2>3
    <3> DEFINE j == i - m
    <3>2. h[i] = f[m] + g[j] /\ h[i - 1] = f[m] + g[j - 1] /\ u[i] = t[j]
      BY <1>1, <1>6, <3>1
    <3>3. j \in 1..n /\ j - 1 \in 0..n
      BY <3>1
    <3> HIDE DEF j
    <3>4. g[j] = g[j - 1] + t[j] /\ g[j - 1] \in Int /\ f[m] \in Int
      BY <1>4, <3>1, <3>3
    <3>5. t[j] \in Int
      BY <3>3 DEF n
    <3> QED
      BY <3>2, <3>4, <3>5
  <2> QED
    BY <1>0, <2>1, <2>2, <2>3
<1>8. 0 \in 0..m /\ h[0] = 0
  <2>1. 0 \in 0..m
    BY <1>0
  <2> QED
    BY <1>4, <1>6, <2>1
<1>9. Sums(h, u)
  BY <1>0, <1>5, <1>7, <1>8 DEF Sums
<1>10. Total(u) = h[m + n]
  BY <1>0, <1>9, TotalFromSums
<1> QED
  BY <1>0, <1>2, <1>3, <1>6, <1>10 DEF u

\* Sums of three sequences entry by entry, the third taken off.
LEMMA TotalEntrywise ==
    ASSUME NEW x \in Seq(Int), NEW y \in Seq(Int), NEW z \in Seq(Int), NEW w \in Seq(Int),
           Len(x) = Len(w), Len(y) = Len(w), Len(z) = Len(w),
           \A i \in 1..Len(w) : w[i] = x[i] + y[i] - z[i]
    PROVE  Total(w) = Total(x) + Total(y) - Total(z)
<1> DEFINE n == Len(w)
<1>0. n \in Nat /\ Len(w) = n /\ Len(x) = n /\ Len(y) = n /\ Len(z) = n
  OBVIOUS
<1>1. \A i \in 1..n : x[i] \in Int /\ y[i] \in Int /\ z[i] \in Int
  OBVIOUS
<1>2. PICK f : Sums(f, x) /\ Total(x) = f[Len(x)]
  BY RunningSums
<1>3. PICK g : Sums(g, y) /\ Total(y) = g[Len(y)]
  BY RunningSums
<1>4. PICK h : Sums(h, z) /\ Total(z) = h[Len(z)]
  BY RunningSums
<1> HIDE DEF n
<1>5. /\ f \in [0..n -> Int] /\ f[0] = 0 /\ \A i \in 1..n : f[i] = f[i - 1] + x[i]
      /\ g \in [0..n -> Int] /\ g[0] = 0 /\ \A i \in 1..n : g[i] = g[i - 1] + y[i]
      /\ h \in [0..n -> Int] /\ h[0] = 0 /\ \A i \in 1..n : h[i] = h[i - 1] + z[i]
  BY <1>0, <1>2, <1>3, <1>4 DEF Sums
<1> DEFINE k == [i \in 0..n |-> f[i] + g[i] - h[i]]
<1>6. k \in [0..n -> Int] /\ k[0] = 0 /\ k[n] = f[n] + g[n] - h[n]
  <2>1. ASSUME NEW i \in 0..n PROVE f[i] + g[i] - h[i] \in Int
    <3>1. f[i] \in Int /\ g[i] \in Int /\ h[i] \in Int
      BY <1>5
    <3> QED
      BY ONLY <3>1
  <2>2. 0 \in 0..n /\ n \in 0..n
    BY <1>0
  <2>3. k[0] = f[0] + g[0] - h[0]
    BY <2>2
  <2> QED
    BY <1>5, <2>1, <2>2, <2>3
<1>7. ASSUME NEW i \in 1..n PROVE k[i] = k[i - 1] + w[i]
  <2>1. i \in 0..n /\ i - 1 \in 0..n
    BY <1>0
  <2>2. k[i] = f[i] + g[i] - h[i] /\ k[i - 1] = f[i - 1] + g[i - 1] - h[i - 1]
    BY <2>1
  <2> HIDE DEF k
  <2>3. f[i - 1] \in Int /\ g[i - 1] \in Int /\ h[i - 1] \in Int
    BY <1>5, <2>1
  <2>4. f[i] = f[i - 1] + x[i] /\ g[i] = g[i - 1] + y[i] /\ h[i] = h[i - 1] + z[i]
    BY <1>5
  <2>5. w[i] = x[i] + y[i] - z[i] /\ x[i] \in Int /\ y[i] \in Int /\ z[i] \in Int
    BY <1>0, <1>1
  <2>6. ASSUME NEW a \in Int, NEW b \in Int, NEW c \in Int, NEW d \in Int, NEW e \in Int, NEW j \in Int
        PROVE  (a + d) + (b + e) - (c + j) = (a + b - c) + (d + e - j)
    OBVIOUS
  <2>7. (f[i - 1] + x[i]) + (g[i - 1] + y[i]) - (h[i - 1] + z[i])
            = (f[i - 1] + g[i - 1] - h[i - 1]) + (x[i] + y[i] - z[i])
    <3> DEFINE a == f[i - 1]
               b == g[i - 1]
               c == h[i - 1]
               d == x[i]
               e == y[i]
               j == z[i]
    <3>1. a \in Int /\ b \in Int /\ c \in Int /\ d \in Int /\ e \in Int /\ j \in Int
      BY ONLY <2>3, <2>5
    <3> HIDE DEF a, b, c, d, e, j
    <3>2. (a + d) + (b + e) - (c + j) = (a + b - c) + (d + e - j)
      BY ONLY <2>6, <3>1
    <3> QED
      BY ONLY <3>2 DEF a, b, c, d, e, j
  <2> QED
    BY ONLY <2>2, <2>4, <2>5, <2>7
<1> HIDE DEF k
<1>8. Sums(k, w)
  BY <1>0, <1>6, <1>7 DEF Sums
<1> QED
  BY <1>0, <1>2, <1>3, <1>4, <1>6, <1>8, TotalFromSums

--------------------------------------------------------------------------------
(* Lines *)

LineRow == [kind : LineKinds \cup {"price", "trade", "down_payment"}, code : Nat, amount : Int]
Amounts(lines) == [i \in DOMAIN lines |-> lines[i].amount]

\* The amounts of lines are integers, one for each line.
LEMMA AmountsTyped ==
    ASSUME NEW lines \in Seq(LineRow)
    PROVE  /\ Amounts(lines) \in Seq(Int) /\ Len(Amounts(lines)) = Len(lines)
           /\ \A i \in 1..Len(lines) : Amounts(lines)[i] = lines[i].amount
<1> DEFINE n == Len(lines)
<1>1. n \in Nat /\ DOMAIN lines = 1..n /\ \A i \in 1..n : lines[i] \in LineRow
  OBVIOUS
<1>2. \A i \in 1..n : lines[i].amount \in Int
  BY <1>1 DEF LineRow
<1> HIDE DEF n
<1>3. Amounts(lines) = [i \in 1..n |-> lines[i].amount]
  BY <1>1 DEF Amounts
<1>4. Amounts(lines) \in [1..n -> Int]
  BY <1>2, <1>3
<1> QED
  BY <1>1, <1>3, <1>4, FunctionIsSeq DEF n

\* Two sequences end to end.
LEMMA Joined ==
    ASSUME NEW S, NEW s \in Seq(S), NEW t \in Seq(S)
    PROVE  /\ s \o t \in Seq(S) /\ Len(s \o t) = Len(s) + Len(t)
           /\ \A i \in 1..Len(s) : (s \o t)[i] = s[i]
           /\ \A i \in (Len(s) + 1)..(Len(s) + Len(t)) : (s \o t)[i] = t[i - Len(s)]
OBVIOUS

\* The total of two lists of lines is the sum of their totals.
LEMMA LinesAddUp ==
    ASSUME NEW s \in Seq(LineRow), NEW t \in Seq(LineRow)
    PROVE  /\ s \o t \in Seq(LineRow)
           /\ Total(Amounts(s \o t)) = Total(Amounts(s)) + Total(Amounts(t))
<1> DEFINE R == LineRow
<1> HIDE DEF R
<1>0. s \in Seq(R) /\ t \in Seq(R)
  BY DEF R
<1> DEFINE m == Len(s)
           n == Len(t)
           u == s \o t
           a == Amounts(s)
           b == Amounts(t)
<1>1. m \in Nat /\ n \in Nat /\ u \in Seq(R) /\ Len(u) = m + n
  BY <1>0
<1>2. /\ \A i \in 1..m : u[i] = s[i]
      /\ \A i \in (m + 1)..(m + n) : u[i] = t[i - m]
  BY <1>0
<1>3. u \in Seq(LineRow)
  BY <1>1 DEF R
<1>4. /\ a \in Seq(Int) /\ Len(a) = m /\ \A i \in 1..m : a[i] = s[i].amount
      /\ b \in Seq(Int) /\ Len(b) = n /\ \A i \in 1..n : b[i] = t[i].amount
  BY AmountsTyped
<1> HIDE DEF m, n, u, a, b
<1>5. Amounts(u) \in Seq(Int) /\ Len(Amounts(u)) = m + n /\ \A i \in 1..(m + n) : Amounts(u)[i] = u[i].amount
  BY <1>1, <1>3, AmountsTyped
<1>6. a \o b \in Seq(Int) /\ Len(a \o b) = m + n /\ Total(a \o b) = Total(a) + Total(b)
  <2>0. a \in Seq(Int) /\ b \in Seq(Int) /\ Len(a) = m /\ Len(b) = n
    BY <1>4
  <2>1. Len(a \o b) = Len(a) + Len(b)
    BY <2>0, Joined
  <2> QED
    BY <1>4, <2>1, TotalOfBoth
<1>7. /\ \A i \in 1..m : (a \o b)[i] = a[i]
      /\ \A i \in (m + 1)..(m + n) : (a \o b)[i] = b[i - m]
  <2>0. a \in Seq(Int) /\ b \in Seq(Int) /\ Len(a) = m /\ Len(b) = n
    BY <1>4
  <2> QED
    BY ONLY <2>0, Joined
<1>8. ASSUME NEW i \in 1..(m + n) PROVE Amounts(u)[i] = (a \o b)[i]
  <2>1. CASE i <= m
    <3>1. i \in 1..m
      BY <1>1, <2>1
    <3>2. Amounts(u)[i] = u[i].amount /\ u[i] = s[i] /\ a[i] = s[i].amount /\ (a \o b)[i] = a[i]
      BY <1>2, <1>4, <1>5, <1>7, <3>1
    <3> QED
      BY ONLY <3>2
  <2>2. CASE i > m
    <3>1. i \in (m + 1)..(m + n) /\ i - m \in 1..n
      BY <1>1, <2>2
    <3>2. Amounts(u)[i] = u[i].amount /\ u[i] = t[i - m] /\ b[i - m] = t[i - m].amount /\ (a \o b)[i] = b[i - m]
      BY <1>2, <1>4, <1>5, <1>7, <3>1
    <3> QED
      BY ONLY <3>2
  <2>3. i <= m \/ i > m
    BY <1>1
  <2> QED
    BY ONLY <2>1, <2>2, <2>3
<1>9. Amounts(u) = a \o b
  <2> DEFINE p == Amounts(u)
             q == a \o b
  <2>1. p \in Seq(Int) /\ q \in Seq(Int) /\ Len(p) = Len(q) /\ \A i \in 1..Len(p) : p[i] = q[i]
    BY <1>5, <1>6, <1>8
  <2> HIDE DEF p, q
  <2>2. p = [i \in 1..Len(p) |-> p[i]] /\ q = [i \in 1..Len(q) |-> q[i]]
    BY <2>1
  <2>3. p = q
    BY ONLY <2>1, <2>2
  <2> QED
    BY <2>3 DEF p, q
<1> QED
  BY <1>3, <1>6, <1>9 DEF u, a, b

\* One line totals its amount.
LEMMA OneLine ==
    ASSUME NEW kind \in {"price", "trade", "down_payment"}, NEW amount \in Int
    PROVE  <<Line(kind, amount)>> \in Seq(LineRow) /\ Total(Amounts(<<Line(kind, amount)>>)) = amount
<1> DEFINE l == Line(kind, amount)
<1>1. l \in LineRow /\ l.amount = amount
  BY DEF Line, LineRow
<1> HIDE DEF l
<1>2. <<l>> \in Seq(LineRow) /\ DOMAIN <<l>> = 1..1 /\ <<l>>[1] = l
  BY <1>1
<1>3. Amounts(<<l>>) = <<amount>>
  BY <1>1, <1>2 DEF Amounts
<1> QED
  BY <1>2, <1>3, TotalOfOne DEF l

\* No lines total zero.
LEMMA NoLines == <<>> \in Seq(LineRow) /\ Total(Amounts(<<>>)) = 0
<1>1. Amounts(<<>>) = <<>>
  BY DEF Amounts
<1> QED
  BY <1>1, TotalOfNone

--------------------------------------------------------------------------------
(* The calculator *)

AppliedRow == [kind : LineKinds, code : Nat, amount : Int]

\* The lines of the rules applied come to the taxes and the fees less the incentives.
LEMMA AppliedLines ==
    ASSUME NEW applied \in Seq(AppliedRow)
    PROVE  /\ \A kind \in LineKinds : TotalOf(applied, kind) \in Int
           /\ LinesOf(applied) \in Seq(LineRow)
           /\ Total(Amounts(LinesOf(applied)))
                = TotalOf(applied, "tax") + TotalOf(applied, "fee") - TotalOf(applied, "incentive")
<1> DEFINE n == Len(applied)
           Of(kind) == [i \in 1..n |-> IF applied[i].kind = kind THEN applied[i].amount ELSE 0]
           lines == LinesOf(applied)
           w == Amounts(lines)
<1>1. n \in Nat /\ DOMAIN applied = 1..n /\ \A i \in 1..n : applied[i] \in AppliedRow
  OBVIOUS
<1>2. ASSUME NEW i \in 1..n
      PROVE  applied[i].kind \in LineKinds /\ applied[i].code \in Nat /\ applied[i].amount \in Int
             /\ applied[i] = [kind |-> applied[i].kind, code |-> applied[i].code, amount |-> applied[i].amount]
  BY <1>1 DEF AppliedRow
<1> HIDE DEF n
<1>3. ASSUME NEW kind \in LineKinds
      PROVE  Of(kind) \in Seq(Int) /\ Len(Of(kind)) = n /\ TotalOf(applied, kind) = Total(Of(kind))
             /\ \A i \in 1..n : Of(kind)[i] = IF applied[i].kind = kind THEN applied[i].amount ELSE 0
  <2>1. Of(kind) \in [1..n -> Int]
    <3>1. ASSUME NEW i \in 1..n PROVE (IF applied[i].kind = kind THEN applied[i].amount ELSE 0) \in Int
      <4>1. applied[i].amount \in Int
        BY <1>2
      <4> QED
        BY ONLY <4>1
    <3> QED
      BY ONLY <3>1
  <2>2. TotalOf(applied, kind) = Total(Of(kind))
    BY <1>1 DEF TotalOf
  <2>3. \A i \in 1..n : Of(kind)[i] = IF applied[i].kind = kind THEN applied[i].amount ELSE 0
    OBVIOUS
  <2> HIDE DEF Of
  <2> QED
    BY <1>1, <2>1, <2>2, <2>3, FunctionIsSeq
<1> HIDE DEF Of
<1>4. lines \in Seq(LineRow) /\ Len(lines) = n
      /\ \A i \in 1..n : lines[i].amount = IF applied[i].kind = "incentive" THEN -applied[i].amount ELSE applied[i].amount
  <2> DEFINE row(i) == [kind |-> applied[i].kind, code |-> applied[i].code,
                        amount |-> IF applied[i].kind = "incentive" THEN -applied[i].amount ELSE applied[i].amount]
  <2>1. lines = [i \in 1..n |-> [applied[i] EXCEPT !.amount = IF applied[i].kind = "incentive" THEN -@ ELSE @]]
    BY <1>1 DEF LinesOf
  <2>2. ASSUME NEW i \in 1..n
        PROVE  [applied[i] EXCEPT !.amount = IF applied[i].kind = "incentive" THEN -@ ELSE @] = row(i)
    <3> DEFINE a == applied[i]
    <3>1. a = [kind |-> a.kind, code |-> a.code, amount |-> a.amount]
      BY <1>2
    <3> HIDE DEF a
    <3>2. [a EXCEPT !.amount = IF a.kind = "incentive" THEN -@ ELSE @]
            = [kind |-> a.kind, code |-> a.code,
               amount |-> IF a.kind = "incentive" THEN -a.amount ELSE a.amount]
      BY ONLY <3>1
    <3> QED
      BY <3>2 DEF a
  <2>3. ASSUME NEW i \in 1..n PROVE row(i) \in LineRow
    <3>1. (IF applied[i].kind = "incentive" THEN -applied[i].amount ELSE applied[i].amount) \in Int
      <4>1. applied[i].amount \in Int
        BY <1>2
      <4> QED
        BY ONLY <4>1
    <3> QED
      BY <1>2, <3>1 DEF LineRow
  <2>4. lines = [i \in 1..n |-> row(i)]
    BY <2>1, <2>2
  <2>5. \A i \in 1..n : lines[i] = row(i)
    BY <2>4
  <2>6. lines \in [1..n -> LineRow]
    <3> HIDE DEF row
    <3> QED
      BY <2>3, <2>4
  <2> HIDE DEF lines
  <2>7. lines \in Seq(LineRow) /\ Len(lines) = n
    BY ONLY <1>1, <2>6, FunctionIsSeq
  <2> QED
    BY <2>5, <2>7
<1> HIDE DEF lines
<1>5. w \in Seq(Int) /\ Len(w) = n /\ \A i \in 1..n : w[i] = lines[i].amount
  BY <1>4, AmountsTyped
<1> HIDE DEF w
<1>6. {"tax", "fee", "incentive"} = LineKinds
  BY DEF LineKinds
<1>7. ASSUME NEW i \in 1..Len(w) PROVE w[i] = Of("tax")[i] + Of("fee")[i] - Of("incentive")[i]
  <2> DEFINE a == applied[i].amount
             k == applied[i].kind
  <2>1. i \in 1..n
    BY <1>5
  <2>2. w[i] = IF k = "incentive" THEN -a ELSE a
    BY <1>4, <1>5, <2>1
  <2>3. a \in Int /\ k \in {"tax", "fee", "incentive"}
    BY <1>2, <1>6, <2>1
  <2>4. /\ Of("tax")[i] = IF k = "tax" THEN a ELSE 0
        /\ Of("fee")[i] = IF k = "fee" THEN a ELSE 0
        /\ Of("incentive")[i] = IF k = "incentive" THEN a ELSE 0
    BY <1>3, <1>6, <2>1
  <2> HIDE DEF a, k
  <2> QED
    BY ONLY <2>2, <2>3, <2>4
<1>8. Total(w) = Total(Of("tax")) + Total(Of("fee")) - Total(Of("incentive"))
  <2>1. /\ Of("tax") \in Seq(Int) /\ Len(Of("tax")) = Len(w)
        /\ Of("fee") \in Seq(Int) /\ Len(Of("fee")) = Len(w)
        /\ Of("incentive") \in Seq(Int) /\ Len(Of("incentive")) = Len(w)
    BY <1>3, <1>5, <1>6
  <2> DEFINE x == Of("tax")
             y == Of("fee")
             z == Of("incentive")
  <2>2. \A i \in 1..Len(w) : w[i] = x[i] + y[i] - z[i]
    BY <1>7
  <2> HIDE DEF x, y, z
  <2>3. Total(w) = Total(x) + Total(y) - Total(z)
    <3>1. x \in Seq(Int) /\ Len(x) = Len(w) /\ y \in Seq(Int) /\ Len(y) = Len(w) /\ z \in Seq(Int) /\ Len(z) = Len(w)
      BY <2>1 DEF x, y, z
    <3>2. w \in Seq(Int)
      BY <1>5
    <3> QED
      BY ONLY <2>2, <3>1, <3>2, TotalEntrywise
  <2> QED
    BY <2>3 DEF x, y, z
<1>9. \A kind \in LineKinds : TotalOf(applied, kind) \in Int
  BY <1>3, TotalIsInteger
<1> QED
  BY <1>3, <1>4, <1>6, <1>8, <1>9 DEF w, lines

\* roundDiv gives an integer.
LEMMA RoundedIsInteger ==
    ASSUME NEW x \in Int, NEW d \in Nat \ {0}
    PROVE  roundDiv(x, d) \in Int
<1>1. CASE x >= 0
  BY <1>1, RoundedUp
<1>2. CASE x < 0
  <2> DEFINE y == -x * 2 + d
             e == d * 2
  <2>1. y \in Nat /\ e \in Nat \ {0}
    BY <1>2
  <2>2. roundDiv(x, d) = -(y \div e)
    BY <1>2 DEF roundDiv
  <2> HIDE DEF y, e
  <2>3. y \div e \in Nat
    BY <2>1, Division
  <2> QED
    BY <2>2, <2>3
<1> QED
  BY <1>1, <1>2

\* applyRate gives an integer.
LEMMA RateIsInteger ==
    ASSUME NEW amount \in Int, NEW rate \in Nat
    PROVE  applyRate(amount, rate) \in Int
<1> DEFINE x == amount * rate
<1>1. x \in Int /\ PPM \in Nat \ {0}
  BY DeskingAssumption
<1>2. applyRate(amount, rate) = roundDiv(x, PPM)
  BY DEF applyRate
<1> HIDE DEF x
<1> QED
  BY <1>1, <1>2, RoundedIsInteger

\* What a recorded rule is made of.
LEMMA RuleFields ==
    ASSUME NEW r \in RecordRuleInput
    PROVE  /\ r.kind \in RULE_KINDS /\ r.code \in Nat /\ r.scoped \in BOOLEAN /\ r.from \in 0..MaxDay
           /\ r.to \in (0..MaxDay) \cup {Forever} /\ r.basis \in RULE_BASES /\ r.magnitude \in Nat
           /\ r.appliesTo \in RULE_TARGETS
BY DEF RecordRuleInput

\* A rule's amount on a base is an integer.
LEMMA MagnitudeIsInteger ==
    ASSUME NEW r \in RecordRuleInput, NEW base \in Int
    PROVE  magnitude(r, base) \in Int
<1>1. applyRate(base, r.magnitude) \in Int /\ r.magnitude \in Nat
  BY RuleFields, RateIsInteger
<1> QED
  BY <1>1 DEF magnitude

\* The taxable amount is an integer.
LEMMA TaxableIsInteger ==
    ASSUME NEW in \in ScenarioInputs, NEW book \in SUBSET RecordRuleInput
    PROVE  taxableAmount(in, book) \in Int
<1>0. in.allowance \in Nat /\ in.price \in Nat
  BY DEF ScenarioInputs
<1> DEFINE credit == {r \in book : r.kind = "policy" /\ r.code = TRADE_TAX_CREDIT /\ r.basis = "rate_ppm"}
           c == CHOOSE r \in credit : TRUE
<1>1. creditCents(in, book) = IF credit = {} THEN 0 ELSE applyRate(in.allowance, c.magnitude)
  BY DEF creditCents
<1>2. credit # {} => c \in RecordRuleInput
  OBVIOUS
<1> HIDE DEF credit, c
<1>3. creditCents(in, book) \in Int
  <2>1. credit # {} => applyRate(in.allowance, c.magnitude) \in Int
    BY <1>0, <1>2, RuleFields, RateIsInteger
  <2> QED
    BY <1>1, <2>1
<1> DEFINE x == in.price - creditCents(in, book)
<1>4. x \in Int
  BY <1>0, <1>3
<1>5. taxableAmount(in, book) = Max({0, x})
  BY DEF taxableAmount
<1> HIDE DEF x
<1>6. \E y \in {0, x} : \A z \in {0, x} : y >= z
  BY <1>4
<1>7. Max({0, x}) \in {0, x}
  BY <1>6 DEF Max
<1> QED
  BY <1>4, <1>5, <1>7

\* A finite rule book that is not empty has a rule none of the others comes before.
LEMMA FirstRule ==
    ASSUME NEW book \in SUBSET RecordRuleInput, book # {}
    PROVE  \E r \in book : \A q \in book : ~Before(q, r)
<1> DEFINE rank(r) == RuleRank[r.kind]
           Ranks == {rank(r) : r \in book}
<1>1. \A r \in book : rank(r) \in Nat /\ r.code \in Nat
  BY RuleFields DEF RULE_KINDS, RuleRank
<1> HIDE DEF rank
<1>2. Ranks \subseteq Nat /\ Ranks # {}
  BY <1>1
<1>3. PICK m \in Ranks : \A x \in Ranks : m <= x
  <2> HIDE DEF Ranks
  <2> QED
    BY <1>2, LeastNat
<1> DEFINE Firsts == {r \in book : rank(r) = m}
           Codes == {r.code : r \in Firsts}
<1>4. Codes \subseteq Nat /\ Codes # {}
  BY <1>1, <1>3
<1>5. PICK c \in Codes : \A x \in Codes : c <= x
  <2> HIDE DEF Codes
  <2> QED
    BY <1>4, LeastNat
<1>6. PICK r \in Firsts : r.code = c
  BY <1>5
<1>7. ASSUME NEW q \in book, Before(q, r) PROVE FALSE
  <2>1. rank(q) < rank(r) \/ (q.kind = r.kind /\ q.code < r.code)
    BY ONLY <1>7, Zenon DEF Before, rank
  <2>2. rank(r) = m /\ m <= rank(q) /\ m \in Nat /\ rank(q) \in Nat
    BY <1>1, <1>2, <1>3, <1>6
  <2>3. CASE q.kind = r.kind /\ q.code < r.code
    <3>1. rank(q) = rank(r)
      BY <2>3 DEF rank
    <3>2. q \in Firsts
      BY <2>2, <3>1
    <3>3. c <= q.code /\ c \in Nat /\ q.code \in Nat
      BY <1>1, <1>4, <1>5, <3>2
    <3> QED
      BY <1>6, <2>3, <3>3
  <2> QED
    BY <2>1, <2>2, <2>3
<1> QED
  BY <1>6, <1>7

\* A finite rule book can be put in order.
LEMMA BookIsOrdered ==
    ASSUME NEW book \in SUBSET RecordRuleInput, IsFiniteSet(book)
    PROVE  /\ Cardinality(book) \in Nat
           /\ ordered(book) \in [1..Cardinality(book) -> book]
<1> DEFINE Sorted(s, b) ==
               Range(s) = b /\ \A i, j \in DOMAIN s : i < j => ~Before(s[j], s[i])
           Can(b, n) == \E s \in [1..n -> b] : Sorted(s, b)
           Good == {n \in Nat : \A b \in SUBSET RecordRuleInput :
                                    IsFiniteSet(b) /\ Cardinality(b) = n => Can(b, n)}
<1>1. 0 \in Good
  <2> SUFFICES ASSUME NEW b \in SUBSET RecordRuleInput, IsFiniteSet(b), Cardinality(b) = 0
               PROVE  Can(b, 0)
    OBVIOUS
  <2>1. b = {}
    BY FS_EmptySet
  <2> DEFINE s == [i \in 1..0 |-> 0]
  <2>2. s \in [1..0 -> b] /\ DOMAIN s = {} /\ Range(s) = b
    BY <2>1 DEF Range
  <2> HIDE DEF s
  <2> QED
    BY <2>2
<1>2. ASSUME NEW n \in Nat, n \in Good PROVE n + 1 \in Good
  <2> SUFFICES ASSUME NEW b \in SUBSET RecordRuleInput, IsFiniteSet(b), Cardinality(b) = n + 1
               PROVE  Can(b, n + 1)
    OBVIOUS
  <2>1. b # {}
    BY FS_EmptySet
  <2>2. PICK r \in b : \A q \in b : ~Before(q, r)
    BY <2>1, FirstRule
  <2> DEFINE rest == b \ {r}
  <2>3. IsFiniteSet(rest) /\ Cardinality(rest) = n
    <3>1. IsFiniteSet(rest) /\ Cardinality(rest) = Cardinality(b) - 1
      BY FS_RemoveElement
    <3>2. (n + 1) - 1 = n
      OBVIOUS
    <3> QED
      BY ONLY <3>1, <3>2, Cardinality(b) = n + 1
  <2>4. PICK t \in [1..n -> rest] : Sorted(t, rest)
    <3>1. rest \in SUBSET RecordRuleInput
      OBVIOUS
    <3> HIDE DEF rest
    <3> QED
      BY <1>2, <2>3, <3>1
  <2> DEFINE s == [i \in 1..(n + 1) |-> IF i = 1 THEN r ELSE t[i - 1]]
  <2>5. s[1] = r /\ DOMAIN s = 1..(n + 1) /\ \A i \in 2..(n + 1) : s[i] = t[i - 1]
    OBVIOUS
  <2>6. s \in [1..(n + 1) -> b]
    <3> SUFFICES ASSUME NEW i \in 1..(n + 1) PROVE (IF i = 1 THEN r ELSE t[i - 1]) \in b
      OBVIOUS
    <3>1. i # 1 => i - 1 \in 1..n
      OBVIOUS
    <3>2. i # 1 => t[i - 1] \in rest
      <4> HIDE DEF rest
      <4> QED
        BY <3>1
    <3> QED
      BY <3>2
  <2> HIDE DEF s
  <2>7. Range(s) = b
    <3>1. Range(s) \subseteq b
      BY <2>5, <2>6 DEF Range
    <3>2. ASSUME NEW q \in b PROVE q \in Range(s)
      <4>1. CASE q = r
        BY <2>5, <4>1 DEF Range
      <4>2. CASE q # r
        <5>1. q \in Range(t)
          BY <2>4, <4>2
        <5>2. PICK i \in 1..n : t[i] = q
          BY <2>4, <5>1 DEF Range
        <5>3. i + 1 \in 2..(n + 1) /\ i + 1 \in 1..(n + 1) /\ (i + 1) - 1 = i
          OBVIOUS
        <5>4. s[i + 1] = q
          BY <2>5, <5>2, <5>3
        <5> QED
          BY <2>5, <5>3, <5>4 DEF Range
      <4> QED
        BY <4>1, <4>2
    <3> QED
      BY <3>1, <3>2
  <2>8. ASSUME NEW i \in DOMAIN s, NEW j \in DOMAIN s, i < j PROVE ~Before(s[j], s[i])
    <3>1. i \in 1..(n + 1) /\ j \in 1..(n + 1) /\ j \in 2..(n + 1) /\ j - 1 \in 1..n
      BY <2>5, <2>8
    <3>2. CASE i = 1
      BY <2>2, <2>5, <2>6, <3>1, <3>2
    <3>3. CASE i # 1
      <4>1. i \in 2..(n + 1) /\ i - 1 \in 1..n /\ i - 1 < j - 1
        BY <2>8, <3>1, <3>3
      <4>2. s[i] = t[i - 1] /\ s[j] = t[j - 1] /\ DOMAIN t = 1..n
        BY <2>4, <2>5, <3>1, <4>1
      <4>3. ~Before(t[j - 1], t[i - 1])
        <5> DEFINE x == i - 1
                   y == j - 1
        <5>1. x \in DOMAIN t /\ y \in DOMAIN t /\ x < y
          BY <3>1, <4>1, <4>2
        <5> HIDE DEF x, y
        <5>2. ~Before(t[y], t[x])
          BY <2>4, <5>1
        <5> QED
          BY <5>2 DEF x, y
      <4> QED
        BY <4>2, <4>3
    <3> QED
      BY <3>2, <3>3
  <2> QED
    BY <2>6, <2>7, <2>8
<1>3. \A n \in Nat : n \in Good
  <2> HIDE DEF Good
  <2> QED
    BY <1>1, <1>2, EveryNat
<1>4. Cardinality(book) \in Nat
  BY FS_CardinalityType
<1> DEFINE c == Cardinality(book)
<1>5. Can(book, c)
  BY <1>3, <1>4
<1>6. ordered(book) = CHOOSE s \in [1..c -> book] : Sorted(s, book)
  BY DEF ordered
<1> HIDE DEF Sorted, c
<1>7. ordered(book) \in [1..c -> book]
  BY <1>5, <1>6
<1> QED
  BY <1>4, <1>7 DEF c

\* One pass over the rules of a book gives each of them an amount.
LEMMA PassTyped ==
    ASSUME NEW in, NEW book \in SUBSET RecordRuleInput, IsFiniteSet(book),
           \A r \in book : r.kind \in LineKinds, NEW bases, \A t \in RULE_TARGETS : bases[t] \in Int
    PROVE  Pass(in, ordered(book), bases) \in Seq(AppliedRow)
<1> DEFINE n == Cardinality(book)
           o == ordered(book)
           row(i) == [kind |-> o[i].kind, code |-> o[i].code, amount |-> magnitude(o[i], bases[o[i].appliesTo])]
<1>1. n \in Nat /\ o \in [1..n -> book]
  BY BookIsOrdered
<1> HIDE DEF n, o
<1>2. ASSUME NEW i \in 1..n PROVE row(i) \in AppliedRow
  <2>1. o[i] \in book
    BY <1>1
  <2>2. o[i] \in RecordRuleInput /\ o[i].kind \in LineKinds
    BY <2>1
  <2>3. o[i].code \in Nat /\ o[i].appliesTo \in RULE_TARGETS
    BY <2>2, RuleFields
  <2>4. magnitude(o[i], bases[o[i].appliesTo]) \in Int
    BY <2>2, <2>3, MagnitudeIsInteger
  <2> QED
    BY ONLY <2>2, <2>3, <2>4 DEF AppliedRow
<1>3. Pass(in, o, bases) = [i \in 1..n |-> row(i)]
  BY <1>1 DEF Pass
<1> HIDE DEF row
<1>4. Pass(in, o, bases) \in [1..n -> AppliedRow]
  BY <1>2, <1>3
<1> QED
  BY <1>1, <1>4, FunctionIsSeq DEF o

\* What a customer is shown adds up to what is financed, and the instalments repay it.
LEMMA ScenarioAddsUp ==
    ASSUME NEW in \in ScenarioInputs, NEW book \in SUBSET RecordRuleInput, IsFiniteSet(book)
    PROVE  LET out == computeScenario(in, book) IN
           /\ out.financed = Total([i \in DOMAIN out.lines |-> out.lines[i].amount])
           /\ in.term # 0 => 2 * in.term * out.monthly + in.term >= 2 * out.financed
<1> DEFINE priced == {r \in book : r.kind \in LineKinds}
           taxable == taxableAmount(in, book)
           A == {r \in priced : r.appliesTo # "total"}
           B == {r \in priced : r.appliesTo = "total"}
           basesA == [vehicle_price |-> in.price, taxable_amount |-> taxable, total |-> 0]
           first == Pass(in, ordered(A), basesA)
           subtotal == in.price + TotalOf(first, "tax") + TotalOf(first, "fee")
           basesB == [vehicle_price |-> 0, taxable_amount |-> 0, total |-> subtotal]
           second == Pass(in, ordered(B), basesB)
           applied == first \o second
           tax == TotalOf(applied, "tax")
           fee == TotalOf(applied, "fee")
           incentive == TotalOf(applied, "incentive")
           financed == in.price + tax + fee - incentive - in.down - tradeEquity(in)
           monthly == IF in.term = 0 THEN 0 ELSE monthlyPayment(financed, in.term, in.apr)
           trade == IF in.allowance # 0 \/ in.payoff # 0 THEN <<Line("trade", in.payoff - in.allowance)>>
                    ELSE <<>>
           down == IF in.down # 0 THEN <<Line("down_payment", -in.down)>> ELSE <<>>
           price == <<Line("price", in.price)>>
           lines == price \o trade \o LinesOf(applied) \o down
           out == computeScenario(in, book)
<1>0. /\ in.price \in Nat /\ in.allowance \in Nat /\ in.payoff \in Nat /\ in.down \in Nat
      /\ in.term \in Nat /\ in.apr \in Nat
  BY DEF ScenarioInputs
<1>1. out = [taxable |-> taxable, tax |-> tax, financed |-> financed, monthly |-> monthly, lines |-> lines]
  BY DEF computeScenario
<1>2. /\ A \in SUBSET RecordRuleInput /\ IsFiniteSet(A) /\ \A r \in A : r.kind \in LineKinds
      /\ B \in SUBSET RecordRuleInput /\ IsFiniteSet(B) /\ \A r \in B : r.kind \in LineKinds
  <2>1. A \subseteq book /\ B \subseteq book
    OBVIOUS
  <2>2. IsFiniteSet(A) /\ IsFiniteSet(B)
    <3> HIDE DEF A, B
    <3> QED
      BY <2>1, FS_Subset
  <2> QED
    BY <2>2
<1>3. taxable \in Int
  BY TaxableIsInteger
<1> HIDE DEF A, B, taxable
<1>4. first \in Seq(AppliedRow)
  <2>1. \A t \in RULE_TARGETS : basesA[t] \in Int
    BY <1>0, <1>3 DEF RULE_TARGETS
  <2> HIDE DEF basesA
  <2> QED
    BY <1>2, <2>1, PassTyped
<1> HIDE DEF first
<1>5. subtotal \in Int
  <2>1. TotalOf(first, "tax") \in Int /\ TotalOf(first, "fee") \in Int
    BY <1>4, AppliedLines DEF LineKinds
  <2> QED
    BY <1>0, <2>1
<1> HIDE DEF subtotal
<1>6. second \in Seq(AppliedRow)
  <2>1. \A t \in RULE_TARGETS : basesB[t] \in Int
    BY <1>5 DEF RULE_TARGETS
  <2> HIDE DEF basesB
  <2> QED
    BY <1>2, <2>1, PassTyped
<1> HIDE DEF second
<1>7. applied \in Seq(AppliedRow)
  BY <1>4, <1>6, Joined
<1> HIDE DEF applied
<1>8. /\ tax \in Int /\ fee \in Int /\ incentive \in Int /\ LinesOf(applied) \in Seq(LineRow)
      /\ Total(Amounts(LinesOf(applied))) = tax + fee - incentive
  BY <1>7, AppliedLines DEF LineKinds
<1> HIDE DEF tax, fee, incentive
<1>9. /\ financed \in Int
      /\ financed = in.price + (in.payoff - in.allowance) + (tax + fee - incentive) + (-in.down)
  <2> DEFINE p == in.price
             a == in.allowance
             o == in.payoff
             d == in.down
  <2>1. financed = p + tax + fee - incentive - d - (a - o)
    BY DEF tradeEquity
  <2>2. p \in Nat /\ a \in Nat /\ o \in Nat /\ d \in Nat
    BY <1>0
  <2>3. tax \in Int /\ fee \in Int /\ incentive \in Int
    BY <1>8
  <2> HIDE DEF p, a, o, d, financed
  <2>4. financed \in Int /\ financed = p + (o - a) + (tax + fee - incentive) + (-d)
    BY ONLY <2>1, <2>2, <2>3
  <2> QED
    BY <2>4 DEF p, a, o, d
<1>10. trade \in Seq(LineRow) /\ Total(Amounts(trade)) = in.payoff - in.allowance
  <2> DEFINE x == in.payoff - in.allowance
  <2>1. x \in Int /\ (~(in.allowance # 0 \/ in.payoff # 0) => x = 0)
    BY <1>0
  <2> HIDE DEF x
  <2>2. <<Line("trade", x)>> \in Seq(LineRow) /\ Total(Amounts(<<Line("trade", x)>>)) = x
    BY <2>1, OneLine
  <2>3. trade = IF in.allowance # 0 \/ in.payoff # 0 THEN <<Line("trade", x)>> ELSE <<>>
    BY DEF x
  <2> HIDE DEF trade
  <2>4. Total(Amounts(trade)) = x /\ trade \in Seq(LineRow)
    BY ONLY <2>1, <2>2, <2>3, NoLines
  <2> QED
    BY <2>4 DEF x
<1>11. down \in Seq(LineRow) /\ Total(Amounts(down)) = -in.down
  <2> DEFINE x == -in.down
  <2>1. x \in Int /\ (~(in.down # 0) => x = 0)
    BY <1>0
  <2> HIDE DEF x
  <2>2. <<Line("down_payment", x)>> \in Seq(LineRow) /\ Total(Amounts(<<Line("down_payment", x)>>)) = x
    BY <2>1, OneLine
  <2>3. down = IF in.down # 0 THEN <<Line("down_payment", x)>> ELSE <<>>
    BY DEF x
  <2> HIDE DEF down
  <2>4. Total(Amounts(down)) = x /\ down \in Seq(LineRow)
    BY ONLY <2>1, <2>2, <2>3, NoLines
  <2> QED
    BY <2>4 DEF x
<1>12. price \in Seq(LineRow) /\ Total(Amounts(price)) = in.price
  BY <1>0, OneLine
<1> DEFINE al == LinesOf(applied)
<1>13. al \in Seq(LineRow) /\ Total(Amounts(al)) = tax + fee - incentive /\ lines = price \o trade \o al \o down
  BY <1>8
<1> HIDE DEF price, trade, down, al
<1>14. Total(Amounts(lines)) = in.price + (in.payoff - in.allowance) + (tax + fee - incentive) + (-in.down)
  <2> HIDE DEF lines
  <2> DEFINE a == price \o trade
             b == a \o al
             c == b \o down
  <2>1. a \in Seq(LineRow) /\ Total(Amounts(a)) = in.price + (in.payoff - in.allowance)
    BY <1>10, <1>12, LinesAddUp
  <2>2. c = lines
    BY <1>13
  <2> HIDE DEF a
  <2>3. b \in Seq(LineRow) /\ Total(Amounts(b)) = in.price + (in.payoff - in.allowance) + (tax + fee - incentive)
    BY <1>13, <2>1, LinesAddUp
  <2> HIDE DEF b
  <2>4. c \in Seq(LineRow) /\ Total(Amounts(c)) = Total(Amounts(b)) + (-in.down)
    BY <1>11, <2>3, LinesAddUp
  <2> HIDE DEF c
  <2> QED
    BY <2>2, <2>3, <2>4
<1> HIDE DEF lines
<1>15. financed = Total(Amounts(lines))
  BY ONLY <1>9, <1>14
<1> HIDE DEF financed
<1>16. in.term # 0 => 2 * in.term * monthly + in.term >= 2 * financed
  <2>1. in.term # 0 => monthly = monthlyPayment(financed, in.term, in.apr) /\ in.term \in Nat \ {0}
    BY <1>0
  <2> HIDE DEF monthly
  <2> QED
    BY <1>0, <1>9, <2>1, PaymentsRepay
<1> HIDE DEF monthly, out
<1>17. out.financed = financed /\ out.monthly = monthly /\ out.lines = lines
  BY <1>1
<1> QED
  BY <1>15, <1>16, <1>17 DEF Amounts, out

--------------------------------------------------------------------------------
(* Stock *)

\* A transfer is of a vehicle in stock, and while it waits the vehicle is where it starts
\* and no other transfer of the vehicle waits.
TransfersAgree ==
    \A t \in 1..Len(transfers) :
        /\ transfers[t].item \in 1..Len(stockItems)
        /\ transfers[t].state = "requested" =>
            /\ stockItems[transfers[t].item].rooftop = transfers[t].from
            /\ \A u \in 1..Len(transfers) :
                transfers[u].item = transfers[t].item /\ transfers[u].state = "requested" => u = t

StockInv == StockTypeOK /\ TransfersAgree

\* The invariant gives what the run checks of transfers.
LEMMA TransfersStartThere == StockInv => OpenTransferStartsWhereTheVehicleIs
<1> SUFFICES ASSUME StockInv, NEW t \in DOMAIN transfers, transfers[t].state = "requested"
             PROVE  /\ stockItems[transfers[t].item].rooftop = transfers[t].from
                    /\ OpenTransfer(transfers[t].item) = {t}
  BY DEF OpenTransferStartsWhereTheVehicleIs
<1>1. DOMAIN transfers = 1..Len(transfers)
  BY DEF StockInv, StockTypeOK
<1> QED
  BY <1>1 DEF StockInv, TransfersAgree, OpenTransfer

\* Only the rows around the stock items change.
LEMMA StockAround ==
    ASSUME StockInv, UNCHANGED <<stockItems, transfers>>,
           vehicles' \in [Vin -> VehicleView \cup {NoVehicle}],
           documents' \subseteq StockDocumentView, costs' \subseteq StockCostView,
           prices' \in Seq(PriceView), media' \in Seq(MediaView),
           features' \in [Stock -> SUBSET Feature], holds' \in [Stock -> HOLD_TYPES \cup {NoHold}]
    PROVE  StockInv'
<1>1. StockTypeOK'
  BY DEF StockInv, StockTypeOK
<1>2. TransfersAgree'
  BY DEF StockInv, TransfersAgree
<1> QED
  BY <1>1, <1>2 DEF StockInv

\* Leaving stock alone keeps its invariant.
LEMMA StockStays == ASSUME StockInv, UNCHANGED stockVars PROVE StockInv'
<1>1. UNCHANGED <<vehicles, stockItems, documents, costs, prices, media, features, holds, transfers>>
  BY DEF stockVars
<1>2. StockTypeOK
  BY DEF StockInv
<1> QED
  BY <1>1, <1>2, StockAround DEF StockTypeOK

\* One stock item is written over and stays where it is.
LEMMA StockItemWritten ==
    ASSUME StockInv, NEW s \in Item, NEW row \in StockItemView, stockItems' = [stockItems EXCEPT ![s] = row],
           row.rooftop = stockItems[s].rooftop,
           UNCHANGED <<vehicles, documents, costs, prices, media, features, holds, transfers>>
    PROVE  StockInv'
<1>1. stockItems \in Seq(StockItemView) /\ Len(stockItems) <= MaxStock /\ s \in 1..Len(stockItems)
  BY DEF StockInv, StockTypeOK, Item
<1>2. /\ stockItems' \in Seq(StockItemView) /\ Len(stockItems') = Len(stockItems) /\ stockItems'[s] = row
      /\ \A j \in 1..Len(stockItems) : j # s => stockItems'[j] = stockItems[j]
  BY <1>1, WrittenRow
<1>3. StockTypeOK'
  BY <1>1, <1>2 DEF StockInv, StockTypeOK
<1>4. \A j \in 1..Len(stockItems) : stockItems'[j].rooftop = stockItems[j].rooftop
  BY <1>2
<1>5. TransfersAgree'
  BY <1>2, <1>4 DEF StockInv, TransfersAgree
<1> QED
  BY <1>3, <1>5 DEF StockInv

\* transitionStock changes the state of a vehicle and not its place.
LEMMA TransitionStep ==
    ASSUME StockInv, NEW s, NEW to, NEW listed, transitionStock(s, to, listed)
    PROVE  StockInv' /\ UNCHANGED partyVars
<1> DEFINE x == stockItems[s]
           hit == x.wasReady \/ to = "retail_ready"
           row == [x EXCEPT !.state = to, !.wasReady = hit]
<1>1. s \in Item /\ s \in 1..Len(stockItems) /\ stockItems \in Seq(StockItemView)
  BY DEF transitionStock, StockInv, StockTypeOK, Item
<1>2. x \in StockItemView
  BY <1>1
<1>3. to \in LIFECYCLE_TRANSITIONS[x.state]
  BY DEF transitionStock
<1>4. stockItems' = [stockItems EXCEPT ![s] = row]
  BY <1>1 DEF transitionStock
<1> HIDE DEF x
<1>5. to \in LifecycleState
  <2>1. x.state \in LifecycleState
    BY <1>2 DEF StockItemView
  <2> QED
    BY <1>3, <2>1 DEF LIFECYCLE_TRANSITIONS, LifecycleState
<1>6. hit \in BOOLEAN
  BY Zenon
<1> HIDE DEF hit
<1>7. row \in StockItemView /\ row.rooftop = x.rooftop
  BY <1>2, <1>5, <1>6 DEF StockItemView
<1> HIDE DEF row
<1> QED
  BY <1>1, <1>4, <1>7, StockItemWritten DEF transitionStock, x

\* updateStockDetails changes the title and not the place.
LEMMA DetailsStep ==
    ASSUME StockInv, NEW s \in Item, NEW title \in TitleStatus, updateStockDetails(s, title)
    PROVE  StockInv' /\ UNCHANGED partyVars
<1> DEFINE row == [stockItems[s] EXCEPT !.title = title]
<1>1. s \in 1..Len(stockItems) /\ stockItems \in Seq(StockItemView)
  BY DEF StockInv, StockTypeOK, Item
<1>2. stockItems[s] \in StockItemView
  BY <1>1
<1>3. stockItems' = [stockItems EXCEPT ![s] = row]
  BY <1>1 DEF updateStockDetails
<1>4. row \in StockItemView /\ row.rooftop = stockItems[s].rooftop
  BY <1>2 DEF StockItemView
<1> HIDE DEF row
<1> QED
  BY <1>3, <1>4, StockItemWritten DEF updateStockDetails

\* A bounded set of naturals that is not empty has a greatest and a least member.
LEMMA GreatestNat ==
    ASSUME NEW n \in Nat, NEW M \in SUBSET (0..n), M # {}
    PROVE  Max(M) \in M
<1> DEFINE Gaps == {n - x : x \in M}
<1>1. Gaps \subseteq Nat /\ Gaps # {}
  <2>1. ASSUME NEW x \in M PROVE n - x \in Nat
    <3>1. x \in 0..n
      OBVIOUS
    <3> QED
      BY <3>1
  <2> QED
    BY <2>1
<1>2. PICK g \in Gaps : \A y \in Gaps : g <= y
  <2> HIDE DEF Gaps
  <2> QED
    BY <1>1, LeastNat
<1>3. PICK x \in M : g = n - x
  BY <1>2
<1>4. ASSUME NEW y \in M PROVE x >= y
  <2>1. n - y \in Gaps
    OBVIOUS
  <2>2. n - x <= n - y
    BY <1>2, <1>3, <2>1
  <2>3. x \in 0..n /\ y \in 0..n
    OBVIOUS
  <2>4. x \in Int /\ y \in Int /\ n \in Int
    BY <2>3
  <2> QED
    BY ONLY <2>2, <2>4
<1>5. \E z \in M : \A y \in M : z >= y
  BY <1>3, <1>4
<1> QED
  BY <1>5, Zenon DEF Max

\* Min of a set of naturals is one of them.
LEMMA LeastMember ==
    ASSUME NEW M \in SUBSET Nat, M # {}
    PROVE  Min(M) \in M
<1>1. \E m \in M : \A x \in M : m <= x
  BY LeastNat
<1> QED
  BY <1>1, Zenon DEF Min

\* Writing a vehicle's build or look leaves stock and transfers alone.
LEMMA VehicleStep ==
    ASSUME StockInv, NEW v \in Vin, NEW row \in VehicleView \cup {NoVehicle}, vehicles' = [vehicles EXCEPT ![v] = row],
           UNCHANGED <<stockItems, documents, costs, prices, media, features, holds, transfers>>
    PROVE  StockInv'
<1>1. vehicles' \in [Vin -> VehicleView \cup {NoVehicle}]
  BY DEF StockInv, StockTypeOK
<1>2. StockTypeOK
  BY DEF StockInv
<1> QED
  BY <1>1, <1>2, StockAround DEF StockTypeOK

\* decodeVehicle writes the vehicle only.
LEMMA DecodeStep ==
    ASSUME StockInv, NEW v \in Vin, NEW answer \in DecodeAnswer, decodeVehicle(v, answer)
    PROVE  StockInv' /\ UNCHANGED partyVars
<1>1. vehicles[v] \in VehicleView /\ vehicles \in [Vin -> VehicleView \cup {NoVehicle}]
  BY DEF decodeVehicle, Known, StockInv, StockTypeOK
<1>2. CASE answer \in Build
  <2> DEFINE b == IF vehicles[v].build = NoBuild THEN answer ELSE vehicles[v].build
             row == [vehicles[v] EXCEPT !.status = "decoded", !.build = b]
  <2>1. vehicles' = [vehicles EXCEPT ![v] = row]
    BY <1>1, <1>2 DEF decodeVehicle
  <2>2. b \in Build \cup {NoBuild}
    BY <1>1, <1>2 DEF VehicleView
  <2> HIDE DEF b
  <2>3. row \in VehicleView
    BY <1>1, <2>2 DEF VehicleView, DecodeStatus
  <2> HIDE DEF row
  <2> QED
    BY <2>1, <2>3, VehicleStep DEF decodeVehicle
<1>3. CASE answer \notin Build
  <2> DEFINE row == [vehicles[v] EXCEPT !.status = answer]
  <2>1. vehicles' = [vehicles EXCEPT ![v] = row]
    BY <1>1, <1>3 DEF decodeVehicle
  <2>2. answer \in DecodeStatus
    BY <1>3 DEF DecodeAnswer, DecodeStatus
  <2>3. row \in VehicleView
    BY <1>1, <2>2 DEF VehicleView
  <2> HIDE DEF row
  <2> QED
    BY <2>1, <2>3, VehicleStep DEF decodeVehicle
<1> QED
  BY <1>2, <1>3

\* updateVehicleAppearance writes the vehicle only.
LEMMA AppearanceStep ==
    ASSUME StockInv, NEW v \in Vin, NEW c \in {"none", "painted"}, updateVehicleAppearance(v, c)
    PROVE  StockInv' /\ UNCHANGED partyVars
<1>1. vehicles[v] \in VehicleView /\ vehicles \in [Vin -> VehicleView \cup {NoVehicle}]
  BY DEF updateVehicleAppearance, Known, StockInv, StockTypeOK
<1> DEFINE row == [vehicles[v] EXCEPT !.color = c]
<1>2. vehicles' = [vehicles EXCEPT ![v] = row]
  BY <1>1 DEF updateVehicleAppearance
<1>3. row \in VehicleView
  BY <1>1 DEF VehicleView
<1> HIDE DEF row
<1> QED
  BY <1>2, <1>3, VehicleStep DEF updateVehicleAppearance

\* A vehicle is acquired, with the seller that is a new customer.
LEMMA AcquireStep ==
    ASSUME PartiesInv, StockInv, NEW in \in AcquisitionInput, acquireStock(in)
    PROVE  PartiesInv' /\ StockInv'
<1>0. /\ in.vin \in Vin /\ in.number \in StockNumber /\ in.rooftop \in Rooftop /\ in.source \in AcquisitionSource
      /\ in.partyId \in 0..MaxParty /\ in.newParty \in PartyInput \cup {NoSeller}
  BY DEF AcquisitionInput
<1>1. vehicles' \in [Vin -> VehicleView \cup {NoVehicle}]
  <2>1. vehicles' = [vehicles EXCEPT ![in.vin] = IF Known(in.vin) THEN @ ELSE NewVehicle]
    BY DEF acquireStock, resolveVehicleByVin
  <2>2. NewVehicle \in VehicleView
    BY DEF NewVehicle, VehicleView, DecodeStatus
  <2> QED
    BY <1>0, <2>1, <2>2 DEF StockInv, StockTypeOK
<1>2. UNCHANGED <<documents, costs, prices, media, features, holds, transfers>>
  BY DEF acquireStock
<1>3. CASE ~acquisitionAllowed(in)
  <2>1. UNCHANGED <<partyVars, stockItems>>
    BY <1>3 DEF acquireStock
  <2>2. StockTypeOK
    BY DEF StockInv
  <2>3. StockInv'
    BY <1>1, <1>2, <2>1, <2>2, StockAround DEF StockTypeOK
  <2> QED
    BY <2>1, <2>3, CustomersStay
<1>4. CASE acquisitionAllowed(in)
  <2> DEFINE row == NewStockItem(in)
             n == Len(stockItems)
  <2>1. n < MaxStock /\ stockItems' = Append(stockItems, row)
    BY <1>4 DEF acquireStock
  <2>2. row \in StockItemView
    BY <1>0 DEF NewStockItem, StockItemView, LifecycleState, TitleStatus
  <2> HIDE DEF row
  <2>3. /\ stockItems \in Seq(StockItemView) /\ n \in Nat /\ stockItems' \in Seq(StockItemView)
        /\ Len(stockItems') = n + 1 /\ \A i \in 1..n : stockItems'[i] = stockItems[i]
    <3>1. stockItems \in Seq(StockItemView) /\ n \in Nat
      BY DEF StockInv, StockTypeOK
    <3> QED
      BY <2>1, <2>2, <3>1, AppendedRow
  <2>4. StockTypeOK'
    <3>1. Len(stockItems') <= MaxStock
      BY <2>1, <2>3, StockAssumption
    <3> QED
      BY <1>1, <1>2, <2>3, <3>1 DEF StockInv, StockTypeOK
  <2>5. TransfersAgree'
    <3> SUFFICES ASSUME NEW t \in 1..Len(transfers)
                 PROVE  /\ transfers[t].item \in 1..Len(stockItems')
                        /\ transfers[t].state = "requested" =>
                            /\ stockItems'[transfers[t].item].rooftop = transfers[t].from
                            /\ \A u \in 1..Len(transfers) :
                                transfers[u].item = transfers[t].item /\ transfers[u].state = "requested" => u = t
      BY <1>2 DEF TransfersAgree
    <3>1. transfers[t].item \in 1..n
      BY DEF StockInv, TransfersAgree
    <3>2. transfers[t].item \in 1..(n + 1) /\ stockItems'[transfers[t].item] = stockItems[transfers[t].item]
      BY <2>3, <3>1
    <3> QED
      BY <2>3, <3>2 DEF StockInv, TransfersAgree
  <2>6. PartiesInv'
    <3>1. PartyList(parties) /\ PartiesTypeOK
      BY PartiesAreListed
    <3>2. PartyList(parties')
      <4>1. CASE in.newParty = NoSeller
        <5>1. parties' = parties
          BY <1>4, <4>1 DEF acquireStock
        <5> QED
          BY <3>1, <5>1
      <4>2. CASE in.newParty # NoSeller
        <5>1. in.newParty \in PartyDetails
          BY <1>0, <4>2, ContactAssumption
        <5>2. parties' = createPartyWithin(parties, in.newParty, FALSE)
          BY <1>4, <4>2 DEF acquireStock
        <5> QED
          BY <3>1, <5>1, <5>2, CreationIsListed
      <4> QED
        BY <4>1, <4>2
    <3>3. Len(parties') \in 0..MaxParty
      BY <3>2, ContactAssumption DEF PartyList
    <3>4. acquiredFrom' \in [Stock -> 0..MaxParty]
      <4>1. acquiredFrom' = [acquiredFrom EXCEPT ![Len(stockItems')] =
                                    IF in.newParty = NoSeller THEN in.partyId ELSE Len(parties')]
        BY <1>4 DEF acquireStock
      <4>2. (IF in.newParty = NoSeller THEN in.partyId ELSE Len(parties')) \in 0..MaxParty
        BY <1>0, <3>3
      <4>3. acquiredFrom \in [Stock -> 0..MaxParty]
        BY <3>1 DEF PartiesTypeOK
      <4> QED
        BY <4>1, <4>2, <4>3
    <3>5. PartiesTypeOK'
      <4>1. UNCHANGED channelConsent
        BY <1>4 DEF acquireStock
      <4> QED
        BY <3>1, <3>2, <3>4, <4>1 DEF PartiesTypeOK, PartyList
    <3>6. (PartiesInv <=> PartiesTypeOK /\ PartyList(parties))'
      BY PartiesAreListed, PTL
    <3> QED
      BY <3>2, <3>5, <3>6
  <2> QED
    BY <2>4, <2>5, <2>6 DEF StockInv
<1> QED
  BY <1>3, <1>4

\* setStockPrice supersedes the current price and appends the new one.
LEMMA PriceStep ==
    ASSUME StockInv, NEW s \in Stock, NEW type \in PRICE_TYPES, setStockPrice(s, type)
    PROVE  StockInv' /\ UNCHANGED partyVars
<1> DEFINE next == Len(prices) + 1
           row(p) == IF p \in CurrentPrice(s, type) THEN [prices[p] EXCEPT !.supersededBy = next] ELSE prices[p]
           old == [p \in DOMAIN prices |-> row(p)]
           new == [item |-> s, type |-> type, supersededBy |-> 0]
<1>1. prices \in Seq(PriceView) /\ Len(prices) \in Nat /\ DOMAIN prices = 1..Len(prices) /\ MaxPrice \in Nat
  BY StockAssumption DEF StockInv, StockTypeOK
<1>2. next <= MaxPrice /\ prices' = Append(old, new)
  BY DEF setStockPrice
<1>3. ASSUME NEW p \in 1..Len(prices) PROVE row(p) \in PriceView
  <2>1. prices[p] \in PriceView
    BY <1>1
  <2>2. next \in 0..MaxPrice
    BY <1>1, <1>2
  <2> HIDE DEF next
  <2>3. [prices[p] EXCEPT !.supersededBy = next] \in PriceView
    BY <2>1, <2>2 DEF PriceView
  <2> QED
    BY <2>1, <2>3
<1> HIDE DEF row
<1>4. old \in Seq(PriceView)
  <2>1. old \in [1..Len(prices) -> PriceView]
    BY <1>1, <1>3
  <2> QED
    BY <1>1, <2>1, FunctionIsSeq
<1>5. new \in PriceView
  BY <1>1 DEF PriceView
<1> HIDE DEF old, new
<1>6. prices' \in Seq(PriceView)
  BY <1>2, <1>4, <1>5, AppendedRow
<1>7. StockTypeOK
  BY DEF StockInv
<1> QED
  BY <1>6, <1>7, StockAround DEF StockTypeOK, setStockPrice

\* addStockMedia appends to the gallery.
LEMMA MediaStep ==
    ASSUME StockInv, NEW s \in Stock, NEW kind \in {"photo", "video"}, NEW at \in 0..(MaxPosition + 1),
           addStockMedia(s, kind, at)
    PROVE  StockInv' /\ UNCHANGED partyVars
<1> DEFINE taken == {0} \cup {media[m].position : m \in ActiveMedia(s)}
           position == IF at # 0 THEN at ELSE Max(taken) + 1
           new == [item |-> s, kind |-> kind, position |-> position, status |-> "active"]
<1>1. media \in Seq(MediaView) /\ Len(media) \in Nat /\ DOMAIN media = 1..Len(media) /\ MaxPosition \in Nat
  BY StockAssumption DEF StockInv, StockTypeOK
<1>2. position <= MaxPosition /\ media' = Append(media, new)
  BY DEF addStockMedia
<1>3. Max(taken) \in 0..MaxPosition
  <2>1. ASSUME NEW m \in ActiveMedia(s) PROVE media[m].position \in 0..MaxPosition
    <3>1. m \in 1..Len(media)
      BY <1>1 DEF ActiveMedia
    <3>2. media[m] \in MediaView
      BY <1>1, <3>1
    <3>3. media[m].position \in 1..MaxPosition
      BY <3>2 DEF MediaView
    <3> QED
      BY <1>1, <3>3
  <2>2. taken \in SUBSET (0..MaxPosition) /\ taken # {}
    BY <1>1, <2>1
  <2> HIDE DEF taken
  <2>3. Max(taken) \in taken
    BY <1>1, <2>2, GreatestNat
  <2> QED
    BY <2>2, <2>3
<1> HIDE DEF taken
<1>4. position \in 1..MaxPosition
  BY <1>1, <1>2, <1>3
<1> HIDE DEF position
<1>5. new \in MediaView
  BY <1>4 DEF MediaView
<1> HIDE DEF new
<1>6. media' \in Seq(MediaView)
  BY <1>1, <1>2, <1>5, AppendedRow
<1>7. StockTypeOK
  BY DEF StockInv
<1> QED
  BY <1>6, <1>7, StockAround DEF StockTypeOK, addStockMedia

\* removeStockMedia marks one item of the gallery.
LEMMA RemovalStep ==
    ASSUME StockInv, NEW m, removeStockMedia(m)
    PROVE  StockInv' /\ UNCHANGED partyVars
<1> DEFINE row == [media[m] EXCEPT !.status = "removed"]
<1>1. media \in Seq(MediaView) /\ m \in 1..Len(media)
  BY DEF StockInv, StockTypeOK, removeStockMedia
<1>2. media[m] \in MediaView /\ media' = [media EXCEPT ![m] = row]
  BY <1>1 DEF removeStockMedia
<1>3. row \in MediaView
  BY <1>2 DEF MediaView
<1> HIDE DEF row
<1>4. media' \in Seq(MediaView)
  BY <1>1, <1>2, <1>3, WrittenRow
<1>5. StockTypeOK
  BY DEF StockInv
<1> QED
  BY <1>4, <1>5, StockAround DEF StockTypeOK, removeStockMedia

\* Documents, costs, features and holds of an item that exists.
LEMMA PapersStep ==
    ASSUME StockInv,
           \/ \E d \in StockDocumentView : recordStockDocument(d)
           \/ \E c \in StockCostView : recordStockCost(c)
           \/ \E s \in Item, fs \in SUBSET Feature : replaceStockFeatures(s, fs)
           \/ \E s \in Item, type \in HOLD_TYPES : placeStockHold(s, type)
           \/ \E s \in Item : releaseStockHold(s)
    PROVE  StockInv' /\ UNCHANGED partyVars
<1>0. StockTypeOK
  BY DEF StockInv
<1>1. CASE \E d \in StockDocumentView : recordStockDocument(d)
  <2>1. PICK d \in StockDocumentView : recordStockDocument(d)
    BY <1>1
  <2> QED
    BY <1>0, <2>1, StockAround DEF StockTypeOK, recordStockDocument
<1>2. CASE \E c \in StockCostView : recordStockCost(c)
  <2>1. PICK c \in StockCostView : recordStockCost(c)
    BY <1>2
  <2> QED
    BY <1>0, <2>1, StockAround DEF StockTypeOK, recordStockCost
<1>3. CASE \E s \in Item, fs \in SUBSET Feature : replaceStockFeatures(s, fs)
  <2>1. PICK s \in Item, fs \in SUBSET Feature : replaceStockFeatures(s, fs)
    BY <1>3
  <2>2. features' \in [Stock -> SUBSET Feature]
    BY <1>0, <2>1 DEF StockTypeOK, replaceStockFeatures
  <2> QED
    BY <1>0, <2>1, <2>2, StockAround DEF StockTypeOK, replaceStockFeatures
<1>4. CASE \E s \in Item, type \in HOLD_TYPES : placeStockHold(s, type)
  <2>1. PICK s \in Item, type \in HOLD_TYPES : placeStockHold(s, type)
    BY <1>4
  <2>2. holds' \in [Stock -> HOLD_TYPES \cup {NoHold}]
    BY <1>0, <2>1 DEF StockTypeOK, placeStockHold
  <2> QED
    BY <1>0, <2>1, <2>2, StockAround DEF StockTypeOK, placeStockHold
<1>5. CASE \E s \in Item : releaseStockHold(s)
  <2>1. PICK s \in Item : releaseStockHold(s)
    BY <1>5
  <2>2. holds' \in [Stock -> HOLD_TYPES \cup {NoHold}]
    BY <1>0, <2>1 DEF StockTypeOK, releaseStockHold
  <2> QED
    BY <1>0, <2>1, <2>2, StockAround DEF StockTypeOK, releaseStockHold
<1> QED
  BY <1>1, <1>2, <1>3, <1>4, <1>5

\* A transfer is requested from where the vehicle is.
LEMMA RequestStep ==
    ASSUME StockInv, NEW s \in Item, NEW to \in Rooftop, requestStockTransfer(s, to)
    PROVE  StockInv' /\ UNCHANGED partyVars
<1> DEFINE new == [item |-> s, from |-> stockItems[s].rooftop, to |-> to, state |-> "requested"]
           n == Len(transfers)
<1>1. /\ transfers \in Seq(TransferView) /\ n \in Nat /\ DOMAIN transfers = 1..n
      /\ stockItems \in Seq(StockItemView) /\ s \in 1..Len(stockItems) /\ Len(stockItems) <= MaxStock
  BY DEF StockInv, StockTypeOK, Item
<1>2. new \in TransferView
  <2>1. s \in Stock
    BY <1>1, StockAssumption
  <2>2. stockItems[s] \in StockItemView
    BY <1>1
  <2>3. stockItems[s].rooftop \in Rooftop
    BY <2>2 DEF StockItemView
  <2> QED
    BY <2>1, <2>3 DEF TransferView, TransferState
<1>3. transfers' = Append(transfers, new) /\ OpenTransfer(s) = {}
      /\ UNCHANGED <<partyVars, vehicles, stockItems, documents, costs, prices, media, features, holds>>
  BY DEF requestStockTransfer
<1>4. new.item = s /\ new.from = stockItems[s].rooftop /\ new.state = "requested"
  OBVIOUS
<1> HIDE DEF new, n
<1>5. /\ transfers' \in Seq(TransferView) /\ Len(transfers') = n + 1 /\ transfers'[n + 1] = new
      /\ \A i \in 1..n : transfers'[i] = transfers[i]
  BY <1>1, <1>2, <1>3, AppendedRow DEF n
<1>6. StockTypeOK'
  BY <1>3, <1>5 DEF StockInv, StockTypeOK
<1>7. \A u \in 1..n : ~(transfers[u].item = s /\ transfers[u].state = "requested")
  BY <1>1, <1>3 DEF OpenTransfer
<1>8. TransfersAgree'
  <2> SUFFICES ASSUME NEW t \in 1..(n + 1)
               PROVE  /\ transfers'[t].item \in 1..Len(stockItems)
                      /\ transfers'[t].state = "requested" =>
                          /\ stockItems[transfers'[t].item].rooftop = transfers'[t].from
                          /\ \A u \in 1..(n + 1) :
                              transfers'[u].item = transfers'[t].item /\ transfers'[u].state = "requested" => u = t
    BY <1>3, <1>5 DEF TransfersAgree
  <2>1. CASE t = n + 1
    <3>1. ASSUME NEW u \in 1..(n + 1), transfers'[u].item = s, transfers'[u].state = "requested" PROVE u = n + 1
      <4>1. u # n + 1 => u \in 1..n
        BY <1>1
      <4> QED
        BY <1>5, <1>7, <3>1, <4>1
    <3> QED
      BY <1>1, <1>4, <1>5, <2>1, <3>1
  <2>2. CASE t # n + 1
    <3>1. t \in 1..n /\ transfers'[t] = transfers[t]
      BY <1>1, <1>5, <2>2
    <3>2. transfers[t].item \in 1..Len(stockItems)
      BY <3>1 DEF StockInv, TransfersAgree, n
    <3>3. ASSUME transfers[t].state = "requested", NEW u \in 1..(n + 1), transfers'[u].item = transfers[t].item,
                 transfers'[u].state = "requested"
          PROVE  u = t
      <4>1. u # n + 1
        BY <1>4, <1>5, <1>7, <3>1, <3>3
      <4>2. u \in 1..n /\ transfers'[u] = transfers[u]
        BY <1>1, <1>5, <4>1
      <4> QED
        BY <3>1, <3>3, <4>2 DEF StockInv, TransfersAgree, n
    <3>4. transfers[t].state = "requested" => stockItems[transfers[t].item].rooftop = transfers[t].from
      BY <3>1 DEF StockInv, TransfersAgree, n
    <3> QED
      BY <3>1, <3>2, <3>3, <3>4
  <2> QED
    BY <2>1, <2>2
<1> QED
  BY <1>3, <1>6, <1>8 DEF StockInv

\* A transfer is settled: completed, it moves the vehicle, and no other one waited for it.
LEMMA SettleStep ==
    ASSUME StockInv, NEW t, NEW state \in {"completed", "cancelled"}, settleStockTransfer(t, state)
    PROVE  StockInv' /\ UNCHANGED partyVars
<1> DEFINE row == [transfers[t] EXCEPT !.state = state]
           s == transfers[t].item
           n == Len(transfers)
           moved == [stockItems[s] EXCEPT !.rooftop = transfers[t].to]
<1>1. /\ transfers \in Seq(TransferView) /\ t \in 1..n /\ transfers[t].state = "requested"
      /\ stockItems \in Seq(StockItemView) /\ Len(stockItems) <= MaxStock
  BY DEF StockInv, StockTypeOK, settleStockTransfer
<1>2. s \in 1..Len(stockItems) /\ \A u \in 1..n : transfers[u].item = s /\ transfers[u].state = "requested" => u = t
  BY <1>1 DEF StockInv, TransfersAgree
<1>3. transfers[t] \in TransferView /\ stockItems[s] \in StockItemView
  BY <1>1, <1>2
<1>4. /\ transfers' = [transfers EXCEPT ![t] = row]
      /\ stockItems' = IF state = "completed" THEN [stockItems EXCEPT ![s] = moved] ELSE stockItems
      /\ UNCHANGED <<partyVars, vehicles, documents, costs, prices, media, features, holds>>
  BY <1>1, <1>2 DEF settleStockTransfer
<1>5. row \in TransferView /\ row.item = s /\ row.state # "requested"
  BY <1>3 DEF TransferView, TransferState
<1>6. moved \in StockItemView
  BY <1>3 DEF StockItemView, TransferView
<1> HIDE DEF row, moved, s, n
<1>7. /\ transfers' \in Seq(TransferView) /\ Len(transfers') = n /\ transfers'[t] = row
      /\ \A i \in 1..n : i # t => transfers'[i] = transfers[i]
  BY <1>1, <1>4, <1>5, WrittenRow DEF n
<1>8. /\ stockItems' \in Seq(StockItemView) /\ Len(stockItems') = Len(stockItems)
      /\ \A i \in 1..Len(stockItems) : i # s => stockItems'[i] = stockItems[i]
  <2>1. CASE state = "completed"
    <3>1. stockItems' = [stockItems EXCEPT ![s] = moved]
      BY <1>4, <2>1
    <3> QED
      BY <1>1, <1>2, <1>6, <3>1, WrittenRow
  <2>2. CASE state # "completed"
    BY <1>1, <1>4, <2>2
  <2> QED
    BY <2>1, <2>2
<1>9. StockTypeOK'
  BY <1>1, <1>4, <1>7, <1>8 DEF StockInv, StockTypeOK
<1>10. TransfersAgree'
  <2> SUFFICES ASSUME NEW v \in 1..n
               PROVE  /\ transfers'[v].item \in 1..Len(stockItems')
                      /\ transfers'[v].state = "requested" =>
                          /\ stockItems'[transfers'[v].item].rooftop = transfers'[v].from
                          /\ \A u \in 1..n :
                              transfers'[u].item = transfers'[v].item /\ transfers'[u].state = "requested" => u = v
    BY <1>7 DEF TransfersAgree
  <2>1. CASE v = t
    BY <1>2, <1>5, <1>7, <1>8, <2>1
  <2>2. CASE v # t
    <3>1. transfers'[v] = transfers[v] /\ transfers[v].item \in 1..Len(stockItems)
      BY <1>7, <2>2 DEF StockInv, TransfersAgree, n
    <3>2. ASSUME transfers[v].state = "requested"
          PROVE  stockItems'[transfers[v].item].rooftop = transfers[v].from
      <4>1. transfers[v].item # s
        BY <1>2, <2>2, <3>2
      <4>2. stockItems[transfers[v].item].rooftop = transfers[v].from
        BY <3>2 DEF StockInv, TransfersAgree, n
      <4> QED
        BY <1>8, <3>1, <4>1, <4>2
    <3>3. ASSUME transfers[v].state = "requested", NEW u \in 1..n, transfers'[u].item = transfers[v].item,
                 transfers'[u].state = "requested"
          PROVE  u = v
      <4>1. u # t
        BY <1>5, <1>7, <3>3
      <4>2. transfers'[u] = transfers[u]
        BY <1>7, <4>1
      <4> QED
        BY <3>3, <4>2 DEF StockInv, TransfersAgree, n
    <3> QED
      BY <1>8, <3>1, <3>2, <3>3
  <2> QED
    BY <2>1, <2>2
<1> QED
  BY <1>4, <1>9, <1>10 DEF StockInv

\* Every operation on stock.
LEMMA StockStep ==
    ASSUME PartiesInv, StockInv, StockNext
    PROVE  PartiesInv' /\ StockInv'
<1>0. Item \subseteq Stock
  <2>1. stockItems \in Seq(StockItemView) /\ Len(stockItems) <= MaxStock
    BY DEF StockInv, StockTypeOK
  <2> QED
    BY <2>1, StockAssumption DEF Item
<1>1. ASSUME NEW v \in Vin, NEW answer \in DecodeAnswer, decodeVehicle(v, answer) PROVE PartiesInv' /\ StockInv'
  BY <1>1, DecodeStep, CustomersStay
<1>2. ASSUME NEW v \in Vin, NEW c \in {"none", "painted"}, updateVehicleAppearance(v, c) PROVE PartiesInv' /\ StockInv'
  BY <1>2, AppearanceStep, CustomersStay
<1>3. ASSUME NEW in \in AcquisitionInput, acquireStock(in) PROVE PartiesInv' /\ StockInv'
  BY <1>3, AcquireStep
<1>4. ASSUME NEW s \in Item, NEW title \in TitleStatus, updateStockDetails(s, title) PROVE PartiesInv' /\ StockInv'
  BY <1>4, DetailsStep, CustomersStay
<1>5. ASSUME NEW s \in Item, NEW type \in PRICE_TYPES, setStockPrice(s, type) PROVE PartiesInv' /\ StockInv'
  BY <1>0, <1>5, PriceStep, CustomersStay
<1>6. ASSUME NEW s \in Item, NEW kind \in {"photo", "video"}, NEW at \in 0..(MaxPosition + 1), addStockMedia(s, kind, at)
      PROVE  PartiesInv' /\ StockInv'
  BY <1>0, <1>6, MediaStep, CustomersStay
<1>7. ASSUME NEW m \in DOMAIN media, removeStockMedia(m) PROVE PartiesInv' /\ StockInv'
  BY <1>7, RemovalStep, CustomersStay
<1>8. ASSUME NEW s \in Item, NEW r \in Rooftop, requestStockTransfer(s, r) PROVE PartiesInv' /\ StockInv'
  BY <1>8, RequestStep, CustomersStay
<1>9. ASSUME NEW t \in DOMAIN transfers, NEW state \in {"completed", "cancelled"}, settleStockTransfer(t, state)
      PROVE  PartiesInv' /\ StockInv'
  BY <1>9, SettleStep, CustomersStay
<1>10. ASSUME \/ \E d \in StockDocumentView : recordStockDocument(d)
              \/ \E c \in StockCostView : recordStockCost(c)
              \/ \E s \in Item, fs \in SUBSET Feature : replaceStockFeatures(s, fs)
              \/ \E s \in Item, type \in HOLD_TYPES : placeStockHold(s, type)
              \/ \E s \in Item : releaseStockHold(s)
       PROVE  PartiesInv' /\ StockInv'
  BY <1>10, PapersStep, CustomersStay
<1> QED
  BY <1>1, <1>2, <1>3, <1>4, <1>5, <1>6, <1>7, <1>8, <1>9, <1>10, Zenon DEF StockNext

--------------------------------------------------------------------------------
(* Listings *)

Pending == {"publish_pending", "withdraw_pending"}
AnswerOf(type) == IF type = "publish" THEN "publish_pending" ELSE "withdraw_pending"

\* A failure waiting to be written is of an event in the outbox.
ListingsTyped ==
    /\ ListingsTypeOK /\ Len(listingOutbox) <= MaxEvent
    /\ failed \subseteq (1..Len(listingOutbox)) \X Nat

PendingBacked ==
    \A l \in Listing :
        listings[l].state \in Pending =>
            \E e \in 1..Len(listingOutbox) :
                /\ listingOutbox[e].listing = l /\ ~listingOutbox[e].delivered
                /\ listings[l].state = AnswerOf(listingOutbox[e].type)

ListingsInv == ListingsTyped /\ PendingBacked

\* The invariant gives what the run checks of waiting listings.
LEMMA ListingsHaveEvents == ListingsInv => PendingListingsHaveAnEvent
<1> SUFFICES ASSUME ListingsInv PROVE PendingListingsHaveAnEvent
  OBVIOUS
<1>1. DOMAIN listingOutbox = 1..Len(listingOutbox)
  BY DEF ListingsInv, ListingsTyped, ListingsTypeOK
<1> QED
  BY <1>1 DEF ListingsInv, PendingBacked, PendingListingsHaveAnEvent, Pending, AnswerOf

\* The undelivered events of a listing are still there.
EventsKept(l) ==
    \A e \in 1..Len(listingOutbox) :
        listingOutbox[e].listing = l =>
            /\ e \in 1..Len(listingOutbox')
            /\ listingOutbox'[e].listing = l /\ listingOutbox'[e].type = listingOutbox[e].type
            /\ listingOutbox'[e].delivered = listingOutbox[e].delivered

\* A step that keeps every undelivered event behind a waiting listing keeps the invariant.
LEMMA ListingsMove ==
    ASSUME ListingsInv, ListingsTyped',
           \A l \in Listing : listings'[l].state \in Pending =>
               \/ listings'[l].state = listings[l].state /\ EventsKept(l)
               \/ \E e \in 1..Len(listingOutbox') :
                    /\ listingOutbox'[e].listing = l /\ ~listingOutbox'[e].delivered
                    /\ listings'[l].state = AnswerOf(listingOutbox'[e].type)
    PROVE  ListingsInv'
<1> SUFFICES ASSUME NEW l \in Listing, listings'[l].state \in Pending,
                    listings'[l].state = listings[l].state, EventsKept(l)
             PROVE  \E e \in 1..Len(listingOutbox') :
                        /\ listingOutbox'[e].listing = l /\ ~listingOutbox'[e].delivered
                        /\ listings'[l].state = AnswerOf(listingOutbox'[e].type)
  BY DEF ListingsInv, PendingBacked
<1>1. PICK e \in 1..Len(listingOutbox) :
          /\ listingOutbox[e].listing = l /\ ~listingOutbox[e].delivered
          /\ listings[l].state = AnswerOf(listingOutbox[e].type)
  BY DEF ListingsInv, PendingBacked
<1> QED
  BY <1>1 DEF EventsKept

\* Leaving the listings alone keeps their invariant.
LEMMA ListingsStay == ASSUME ListingsInv, UNCHANGED listingVars PROVE ListingsInv'
<1>1. UNCHANGED <<listings, listingOutbox, failed>>
  BY DEF listingVars
<1>2. ListingsTyped'
  BY <1>1 DEF ListingsInv, ListingsTyped, ListingsTypeOK
<1>3. \A l \in Listing : EventsKept(l)
  BY <1>1 DEF EventsKept
<1> QED
  BY <1>1, <1>2, <1>3, ListingsMove

\* A listing's row after a request or an answer: a listing that never was becomes one.
LEMMA ListingRow ==
    ASSUME ListingsInv, NEW l \in Listing
    PROVE  /\ listings[l].externalRef \in BOOLEAN /\ listings[l].attempts \in Nat
           /\ listings[l] \in [state : ListingState \cup {"none"}, externalRef : BOOLEAN, attempts : Nat]
<1> DEFINE x == listings[l]
<1>1. x \in ListingView \cup {NoListing}
  BY DEF ListingsInv, ListingsTyped, ListingsTypeOK
<1> HIDE DEF x
<1>2. x \in [state : ListingState \cup {"none"}, externalRef : BOOLEAN, attempts : Nat]
  <2>1. CASE x \in ListingView
    BY <2>1 DEF ListingView
  <2>2. CASE x = NoListing
    <3>1. NoListing \in [state : ListingState \cup {"none"}, externalRef : BOOLEAN, attempts : Nat]
      BY DEF NoListing
    <3> QED
      BY ONLY <2>2, <3>1
  <2> QED
    BY <1>1, <2>1, <2>2
<1>3. x.externalRef \in BOOLEAN /\ x.attempts \in Nat
  BY <1>2
<1> QED
  BY <1>2, <1>3 DEF x

\* An event joins the outbox.
LEMMA EnqueueStep ==
    ASSUME ListingsInv, NEW l \in Listing, NEW type \in {"publish", "withdraw"},
           listings' = [listings EXCEPT ![l].state = AnswerOf(type)],
           listingOutbox' = Enqueue(l, type), Len(listingOutbox) < MaxEvent, failed' = failed
    PROVE  ListingsInv'
<1> DEFINE row == [listings[l] EXCEPT !.state = AnswerOf(type)]
           new == [listing |-> l, type |-> type, attempts |-> 0, wait |-> 0, delivered |-> FALSE]
           n == Len(listingOutbox)
<1>1. /\ listings \in [Listing -> ListingView \cup {NoListing}] /\ listingOutbox \in Seq(OutboxEvent)
      /\ n \in Nat /\ failed \subseteq (1..n) \X Nat /\ MaxEvent \in Nat
  BY ListingAssumption DEF ListingsInv, ListingsTyped, ListingsTypeOK
<1>2. listings' = [listings EXCEPT ![l] = row] /\ listingOutbox' = Append(listingOutbox, new)
  BY <1>1 DEF Enqueue
<1>3. row \in ListingView /\ row.state = AnswerOf(type)
  <2>1. AnswerOf(type) \in ListingState
    BY DEF AnswerOf, ListingState
  <2> QED
    BY <2>1, ListingRow DEF ListingView
<1>4. new \in OutboxEvent /\ new.listing = l /\ new.type = type /\ ~new.delivered
  BY DEF OutboxEvent
<1> HIDE DEF row, new, n
<1>5. /\ listingOutbox' \in Seq(OutboxEvent) /\ Len(listingOutbox') = n + 1 /\ listingOutbox'[n + 1] = new
      /\ \A i \in 1..n : listingOutbox'[i] = listingOutbox[i]
  BY <1>1, <1>2, <1>4, AppendedRow DEF n
<1>6. /\ listings' \in [Listing -> ListingView \cup {NoListing}] /\ listings'[l] = row
      /\ \A m \in Listing : m # l => listings'[m] = listings[m]
  BY <1>1, <1>2, <1>3
<1>7. ListingsTyped'
  <2>1. n + 1 <= MaxEvent /\ 1..n \subseteq 1..(n + 1)
    BY <1>1 DEF n
  <2>2. failed' \subseteq (1..(n + 1)) \X Nat
    BY <1>1, <2>1
  <2>3. failed' \subseteq (1..MaxEvent) \X Nat
    BY <1>1, <2>1, <2>2
  <2> QED
    BY <1>5, <1>6, <2>1, <2>2, <2>3 DEF ListingsTyped, ListingsTypeOK
<1>8. \A m \in Listing : EventsKept(m)
  <2>1. 1..n \subseteq 1..(n + 1)
    BY <1>1
  <2> QED
    BY <1>5, <2>1 DEF EventsKept, n
<1>9. n + 1 \in 1..Len(listingOutbox')
  BY <1>1, <1>5
<1> QED
  BY <1>3, <1>4, <1>5, <1>6, <1>7, <1>8, <1>9, ListingsMove

\* An event is delivered and the listing answered.
LEMMA DeliveryStep ==
    ASSUME ListingsInv, NEW e \in Due, NEW row \in ListingView, row.state \notin Pending,
           listings' = [listings EXCEPT ![listingOutbox[e].listing] = row],
           listingOutbox' = Delivered(e), failed' = failed
    PROVE  ListingsInv'
<1> DEFINE l == listingOutbox[e].listing
           x == listingOutbox[e]
           new == [x EXCEPT !.delivered = TRUE, !.attempts = x.attempts + 1]
           n == Len(listingOutbox)
<1>1. /\ listings \in [Listing -> ListingView \cup {NoListing}] /\ listingOutbox \in Seq(OutboxEvent)
      /\ n \in Nat /\ failed \subseteq (1..n) \X Nat /\ e \in 1..n
  BY DEF ListingsInv, ListingsTyped, ListingsTypeOK, Due
<1>2. x \in OutboxEvent
  BY <1>1
<1>3. l \in Listing /\ x.attempts + 1 \in Nat
  BY <1>2 DEF OutboxEvent
<1>4. listingOutbox' = [listingOutbox EXCEPT ![e] = new]
  BY <1>1 DEF Delivered, Attempt
<1> HIDE DEF x
<1>5. new \in OutboxEvent
  BY <1>2, <1>3 DEF OutboxEvent
<1> HIDE DEF new, n, l
<1>6. /\ listingOutbox' \in Seq(OutboxEvent) /\ Len(listingOutbox') = n
      /\ \A i \in 1..n : i # e => listingOutbox'[i] = listingOutbox[i]
  BY <1>1, <1>4, <1>5, WrittenRow DEF n
<1>7. /\ listings' \in [Listing -> ListingView \cup {NoListing}] /\ listings'[l] = row
      /\ \A m \in Listing : m # l => listings'[m] = listings[m]
  BY <1>1, <1>3 DEF l
<1>8. ListingsTyped'
  BY <1>6, <1>7 DEF ListingsInv, ListingsTyped, ListingsTypeOK, n
<1>9. ASSUME NEW m \in Listing, m # l PROVE EventsKept(m)
  BY <1>6, <1>9 DEF EventsKept, n, l
<1> QED
  BY <1>7, <1>8, <1>9, ListingsMove

\* The outbox is rescheduled: waits and attempts change, and nothing else of an event.
LEMMA RescheduleStep ==
    ASSUME ListingsInv, UNCHANGED listings, NEW q \in Seq(OutboxEvent), listingOutbox' = q,
           Len(q) = Len(listingOutbox), failed' \subseteq failed,
           \A i \in 1..Len(q) : q[i].listing = listingOutbox[i].listing /\ q[i].type = listingOutbox[i].type
                                /\ q[i].delivered = listingOutbox[i].delivered
    PROVE  ListingsInv'
<1>1. ListingsTyped'
  BY DEF ListingsInv, ListingsTyped, ListingsTypeOK
<1>2. \A m \in Listing : EventsKept(m)
  BY DEF EventsKept
<1> QED
  BY <1>1, <1>2, ListingsMove

\* deliverWithdrawal: the listing waits no longer, or waits for a later event.
LEMMA WithdrawalDelivered ==
    ASSUME ListingsInv, NEW e \in Due, deliverWithdrawal(e)
    PROVE  ListingsInv' /\ UNCHANGED <<partyVars, stockVars>>
<1> DEFINE l == listingOutbox[e].listing
           a == Attempt(e)
           row == [listings[l] EXCEPT !.state = "withdrawn", !.attempts = a]
<1>1. /\ listings \in [Listing -> ListingView \cup {NoListing}] /\ listingOutbox \in Seq(OutboxEvent)
      /\ e \in 1..Len(listingOutbox)
  BY DEF ListingsInv, ListingsTyped, ListingsTypeOK, Due
<1>2. listingOutbox[e] \in OutboxEvent
  BY <1>1
<1>3. l \in Listing /\ a \in Nat
  BY <1>2 DEF OutboxEvent, Attempt
<1>4. listings' = [listings EXCEPT ![l] = row]
  BY <1>1, <1>3 DEF deliverWithdrawal
<1> HIDE DEF a
<1>5. row \in ListingView /\ row.state = "withdrawn"
  BY <1>3, ListingRow DEF ListingView, ListingState
<1> HIDE DEF row
<1> QED
  BY <1>4, <1>5, DeliveryStep DEF deliverWithdrawal, Pending

\* deliverPublication: the listing waits no longer, or waits for a later event.
LEMMA PublicationDelivered ==
    ASSUME ListingsInv, NEW e \in Due, deliverPublication(e)
    PROVE  ListingsInv' /\ UNCHANGED <<partyVars, stockVars>>
<1> DEFINE l == listingOutbox[e].listing
           a == Attempt(e)
           answer == publish(buildSubmission(l, a))
           state == IF answer = "accepted" THEN "published" ELSE "rejected"
           hit == listings[l].externalRef \/ answer = "accepted"
           row == [listings[l] EXCEPT !.state = state, !.attempts = a, !.externalRef = hit]
<1>1. /\ listings \in [Listing -> ListingView \cup {NoListing}] /\ listingOutbox \in Seq(OutboxEvent)
      /\ e \in 1..Len(listingOutbox)
  BY DEF ListingsInv, ListingsTyped, ListingsTypeOK, Due
<1>2. listingOutbox[e] \in OutboxEvent
  BY <1>1
<1>3. l \in Listing /\ a \in Nat
  BY <1>2 DEF OutboxEvent, Attempt
<1>4. listings' = [listings EXCEPT ![l].state = state, ![l].attempts = a, ![l].externalRef = @ \/ answer = "accepted"]
      /\ listingOutbox' = Delivered(e) /\ UNCHANGED <<partyVars, stockVars, failed>>
  BY DEF deliverPublication
<1> HIDE DEF a, answer
<1>5. listings' = [listings EXCEPT ![l] = row]
  BY <1>1, <1>3, <1>4
<1>6. hit \in BOOLEAN
  BY Zenon
<1> HIDE DEF hit
<1>7. state \in {"published", "rejected"}
  OBVIOUS
<1> HIDE DEF state
<1>8. row \in ListingView /\ row.state = state
  BY <1>3, <1>6, <1>7, ListingRow DEF ListingView, ListingState
<1> HIDE DEF row
<1>9. row.state \notin Pending
  BY <1>7, <1>8 DEF Pending
<1> QED
  BY <1>4, <1>5, <1>8, <1>9, DeliveryStep

\* deferEvent leaves the event undelivered, with a wait.
LEMMA DeferralStep ==
    ASSUME ListingsInv, NEW f \in failed, deferEvent(f)
    PROVE  ListingsInv' /\ UNCHANGED <<partyVars, stockVars>>
<1> DEFINE i == f[1]
           n == Len(listingOutbox)
           x == listingOutbox[i]
           w == Min({x.attempts + 1, 8})
           k == IF f[2] = 0 THEN x.attempts + 1 ELSE f[2]
           row == [x EXCEPT !.wait = w, !.attempts = k]
<1>1. listingOutbox \in Seq(OutboxEvent) /\ i \in 1..n /\ f[2] \in Nat
  BY DEF ListingsInv, ListingsTyped, ListingsTypeOK
<1>2. x \in OutboxEvent
  BY <1>1
<1>3. x.attempts \in Nat
  BY <1>2 DEF OutboxEvent
<1>4. UNCHANGED <<partyVars, stockVars, listings>> /\ failed' \subseteq failed
  BY DEF deferEvent
<1>5. CASE x.delivered
  <2>1. listingOutbox' = listingOutbox
    BY <1>5 DEF deferEvent
  <2> QED
    BY <1>1, <1>4, <2>1, RescheduleStep
<1>6. CASE ~x.delivered
  <2>1. listingOutbox' = [listingOutbox EXCEPT ![i] = row]
    BY <1>1, <1>6 DEF deferEvent
  <2>2. w \in Nat /\ k \in Nat
    <3> DEFINE M == {x.attempts + 1, 8}
    <3>1. M \in SUBSET Nat /\ M # {}
      BY <1>3
    <3> HIDE DEF M
    <3>2. Min(M) \in Nat
      BY <3>1, LeastMember
    <3> QED
      BY <1>1, <1>3, <3>2 DEF M
  <2> HIDE DEF w, k, x
  <2>3. row \in OutboxEvent /\ row.listing = x.listing /\ row.type = x.type /\ row.delivered = x.delivered
    BY <1>2, <2>2 DEF OutboxEvent
  <2> HIDE DEF row
  <2>4. /\ listingOutbox' \in Seq(OutboxEvent) /\ Len(listingOutbox') = n /\ listingOutbox'[i] = row
        /\ \A j \in 1..n : j # i => listingOutbox'[j] = listingOutbox[j]
    <3> HIDE DEF i
    <3> QED
      BY <1>1, <2>1, <2>3, WrittenRow
  <2>5. \A j \in 1..n : /\ listingOutbox'[j].listing = listingOutbox[j].listing
                        /\ listingOutbox'[j].type = listingOutbox[j].type
                        /\ listingOutbox'[j].delivered = listingOutbox[j].delivered
    BY <2>3, <2>4 DEF x
  <2> QED
    BY <1>4, <2>4, <2>5, RescheduleStep
<1> QED
  BY <1>5, <1>6

\* Time shortens the wait of an event and delivers none.
LEMMA TickOfBackoff ==
    ASSUME ListingsInv, backoffTick
    PROVE  ListingsInv' /\ UNCHANGED <<partyVars, stockVars>>
<1> DEFINE n == Len(listingOutbox)
           w(e) == Max({0, listingOutbox[e].wait - 1})
           row(e) == [listingOutbox[e] EXCEPT !.wait = w(e)]
           q == [e \in 1..n |-> row(e)]
<1>1. listingOutbox \in Seq(OutboxEvent) /\ n \in Nat /\ DOMAIN listingOutbox = 1..n
  BY DEF ListingsInv, ListingsTyped, ListingsTypeOK
<1>2. UNCHANGED <<partyVars, stockVars, listings, failed>>
  BY DEF backoffTick
<1>3. listingOutbox' = q
  BY <1>1 DEF backoffTick
<1>4. ASSUME NEW e \in 1..n
      PROVE  row(e) \in OutboxEvent /\ row(e).listing = listingOutbox[e].listing
             /\ row(e).type = listingOutbox[e].type /\ row(e).delivered = listingOutbox[e].delivered
  <2>1. listingOutbox[e] \in OutboxEvent
    BY <1>1
  <2>2. listingOutbox[e].wait \in Nat
    BY <2>1 DEF OutboxEvent
  <2> DEFINE y == listingOutbox[e].wait - 1
  <2>3. y \in Int
    BY <2>2
  <2>4. w(e) = Max({0, y})
    OBVIOUS
  <2> HIDE DEF y
  <2>5. \E z \in {0, y} : \A v \in {0, y} : z >= v
    BY <2>3
  <2>6. Max({0, y}) \in {0, y} /\ Max({0, y}) >= 0
    BY <2>5 DEF Max
  <2>7. w(e) \in Nat
    BY <2>3, <2>4, <2>6
  <2> HIDE DEF w
  <2> QED
    BY <2>1, <2>7 DEF OutboxEvent
<1> HIDE DEF row
<1>5. q \in [1..n -> OutboxEvent]
  BY <1>4
<1>6. q \in Seq(OutboxEvent) /\ Len(q) = n
  <2> HIDE DEF q, n
  <2> QED
    BY <1>1, <1>5, FunctionIsSeq
<1>7. \A e \in 1..n : q[e] = row(e)
  OBVIOUS
<1> HIDE DEF q
<1>8. \A i \in 1..Len(q) : q[i].listing = listingOutbox[i].listing /\ q[i].type = listingOutbox[i].type
                           /\ q[i].delivered = listingOutbox[i].delivered
  BY <1>4, <1>6, <1>7
<1> QED
  BY <1>2, <1>3, <1>6, <1>8, RescheduleStep

\* reconcileListing delivers no event and leaves no listing waiting without one.
LEMMA ReconciliationStep ==
    ASSUME ListingsInv, NEW l \in Listing, reconcileListing(l)
    PROVE  ListingsInv' /\ UNCHANGED <<partyVars, stockVars>>
<1>1. UNCHANGED <<partyVars, stockVars, listingOutbox, failed>> /\ listings[l] # NoListing
  BY DEF reconcileListing
<1>2. \A m \in Listing : EventsKept(m)
  BY <1>1 DEF EventsKept
<1>3. CASE UNCHANGED listings
  <2>1. ListingsTyped'
    BY <1>1, <1>3 DEF ListingsInv, ListingsTyped, ListingsTypeOK
  <2> QED
    BY <1>1, <1>2, <1>3, <2>1, ListingsMove
<1>4. CASE \E st \in {"published", "withdrawn"} : listings' = [listings EXCEPT ![l].state = st]
  <2>1. PICK st \in {"published", "withdrawn"} : listings' = [listings EXCEPT ![l].state = st]
    BY <1>4
  <2> DEFINE row == [listings[l] EXCEPT !.state = st]
  <2>2. listings \in [Listing -> ListingView \cup {NoListing}]
    BY DEF ListingsInv, ListingsTyped, ListingsTypeOK
  <2>3. listings' = [listings EXCEPT ![l] = row]
    BY <2>1, <2>2
  <2>4. row \in ListingView /\ row.state = st
    BY ListingRow DEF ListingView, ListingState
  <2> HIDE DEF row
  <2>5. /\ listings' \in [Listing -> ListingView \cup {NoListing}] /\ listings'[l] = row
        /\ \A m \in Listing : m # l => listings'[m] = listings[m]
    BY <2>2, <2>3, <2>4
  <2>6. ListingsTyped'
    BY <1>1, <2>5 DEF ListingsInv, ListingsTyped, ListingsTypeOK
  <2>7. listings'[l].state \notin Pending
    BY <2>4, <2>5 DEF Pending
  <2> QED
    BY <1>1, <1>2, <2>5, <2>6, <2>7, ListingsMove
<1> QED
  BY <1>3, <1>4 DEF reconcileListing

\* Every step of the listings.
LEMMA ListingsStep ==
    ASSUME PartiesInv, StockInv, ListingsInv, ListingsNext
    PROVE  PartiesInv' /\ StockInv' /\ ListingsInv'
<1> DEFINE Kept == PartiesInv' /\ StockInv' /\ ListingsInv'
<1>0. ASSUME UNCHANGED <<partyVars, stockVars>>, ListingsInv' PROVE Kept
  BY <1>0, CustomersStay, StockStays
<1>1. ASSUME NEW s \in Item, NEW c \in Channel, requestListingPublication(s, c) PROVE Kept
  <2>1. <<s, c>> \in Listing
    <3>1. s \in Stock
      BY StockAssumption DEF StockInv, StockTypeOK, Item
    <3> QED
      BY <3>1 DEF Listing
  <2>2. /\ listings' = [listings EXCEPT ![<<s, c>>].state = AnswerOf("publish")] /\ Len(listingOutbox) < MaxEvent
        /\ listingOutbox' = Enqueue(<<s, c>>, "publish") /\ UNCHANGED <<partyVars, stockVars, failed>>
    BY <1>1 DEF requestListingPublication, AnswerOf
  <2> QED
    BY <1>0, <2>1, <2>2, EnqueueStep
<1>2. ASSUME NEW l \in Listing, requestListingWithdrawal(l) PROVE Kept
  <2>2. /\ listings' = [listings EXCEPT ![l].state = AnswerOf("withdraw")] /\ Len(listingOutbox) < MaxEvent
        /\ listingOutbox' = Enqueue(l, "withdraw") /\ UNCHANGED <<partyVars, stockVars, failed>>
    BY <1>2 DEF requestListingWithdrawal, AnswerOf
  <2> QED
    BY <1>0, <2>2, EnqueueStep
<1>3. ASSUME NEW l \in Listing, reconcileListing(l) PROVE Kept
  BY <1>0, <1>3, ReconciliationStep
<1>4. ASSUME NEW s \in Item, retire(s) PROVE Kept
  BY <1>4, TransitionStep, CustomersStay, ListingsStay DEF retire
<1>5. ASSUME NEW s \in Item, NEW to \in LifecycleState, advance(s, to) PROVE Kept
  BY <1>5, TransitionStep, CustomersStay, ListingsStay DEF advance
<1>6. ASSUME dispatchDueListingEvents PROVE Kept
  <2>1. PICK e \in Due : deliverWithdrawal(e) \/ deliverPublication(e) \/ deferPublication(e)
    BY <1>6 DEF dispatchDueListingEvents
  <2>2. ASSUME deferPublication(e) PROVE Kept
    <3>1. UNCHANGED <<partyVars, stockVars, listings, listingOutbox>> /\ failed' = failed \cup {<<e, Attempt(e)>>}
      BY <2>2 DEF deferPublication
    <3>2. listingOutbox \in Seq(OutboxEvent) /\ e \in 1..Len(listingOutbox)
      BY DEF ListingsInv, ListingsTyped, ListingsTypeOK, Due
    <3>3. Attempt(e) \in Nat /\ e \in 1..MaxEvent
      <4>1. listingOutbox[e] \in OutboxEvent
        BY <3>2
      <4> QED
        BY <3>2, <4>1, ListingAssumption DEF OutboxEvent, Attempt, ListingsInv, ListingsTyped
    <3>4. ListingsTyped'
      BY <3>1, <3>2, <3>3 DEF ListingsInv, ListingsTyped, ListingsTypeOK
    <3>5. \A m \in Listing : EventsKept(m)
      BY <3>1 DEF EventsKept
    <3> QED
      BY <1>0, <3>1, <3>4, <3>5, ListingsMove
  <2> QED
    BY <1>0, <2>1, <2>2, WithdrawalDelivered, PublicationDelivered
<1>7. ASSUME NEW e \in Due, dispatchFails(e) PROVE Kept
  <2>1. UNCHANGED <<partyVars, stockVars, listings, listingOutbox>> /\ failed' \subseteq failed \cup {<<e, 0>>}
    BY <1>7 DEF dispatchFails
  <2>2. listingOutbox \in Seq(OutboxEvent) /\ e \in 1..Len(listingOutbox)
    BY DEF ListingsInv, ListingsTyped, ListingsTypeOK, Due
  <2>3. e \in 1..MaxEvent
    BY <2>2, ListingAssumption DEF ListingsInv, ListingsTyped
  <2>4. ListingsTyped'
    BY <2>1, <2>2, <2>3 DEF ListingsInv, ListingsTyped, ListingsTypeOK
  <2>5. \A m \in Listing : EventsKept(m)
    BY <2>1 DEF EventsKept
  <2> QED
    BY <1>0, <2>1, <2>4, <2>5, ListingsMove
<1>8. ASSUME NEW f \in failed, deferEvent(f) PROVE Kept
  BY <1>0, <1>8, DeferralStep
<1>9. ASSUME NEW f \in failed, deferralLost(f) PROVE Kept
  <2>1. UNCHANGED <<partyVars, stockVars, listings, listingOutbox>> /\ failed' \subseteq failed
    BY <1>9 DEF deferralLost
  <2>2. ListingsTyped'
    BY <2>1 DEF ListingsInv, ListingsTyped, ListingsTypeOK
  <2>3. \A m \in Listing : EventsKept(m)
    BY <2>1 DEF EventsKept
  <2> QED
    BY <1>0, <2>1, <2>2, <2>3, ListingsMove
<1>10. ASSUME backoffTick PROVE Kept
  BY <1>0, <1>10, TickOfBackoff
<1> HIDE DEF Kept
<1>11. Kept
  BY <1>1, <1>2, <1>3, <1>4, <1>5, <1>6, <1>7, <1>8, <1>9, <1>10, Zenon DEF ListingsNext
<1> QED
  BY <1>11 DEF Kept

--------------------------------------------------------------------------------
(* The sales floor *)

OpportunitiesOK == opportunities \in Seq(OpportunityView) /\ Len(opportunities) <= MaxOpportunity

ReadingOK == reading \in [Clerk -> RequestView]

\* No customer has two vehicles selected.
ShortlistOK ==
    /\ shortlist \in [1..MaxOpportunity -> [Stock -> VEHICLE_INTEREST_STATUSES \cup {"none"}]]
    /\ \A o \in 1..MaxOpportunity : \A s, t \in Stock :
        shortlist[o][s] = "selected" /\ shortlist[o][t] = "selected" => s = t

\* Two drives that are out differ in the car, the driver and the escort.
DemosOK ==
    /\ demos \in Seq(DemonstrationView)
    /\ \A d, e \in 1..Len(demos) :
        d # e /\ demos[d].state \in ACTIVE_DEMONSTRATION_STATES /\ demos[e].state \in ACTIVE_DEMONSTRATION_STATES =>
            demos[d].item # demos[e].item /\ demos[d].driver # demos[e].driver /\ demos[d].escort # demos[e].escort

\* A car whose lock a request holds is not out, and no other request holds its lock.
CarsHeld ==
    /\ \A k \in Clerk : \A d \in 1..Len(demos) :
        reading[k].phase = "drive" /\ demos[d].state \in ACTIVE_DEMONSTRATION_STATES =>
            demos[d].item # reading[k].demo.item
    /\ \A j, k \in Clerk :
        j # k /\ reading[j].phase = "drive" /\ reading[k].phase = "drive" =>
            reading[j].demo.item # reading[k].demo.item

OwedOK == owed \in Seq(SalesActivityView)

FloorOK ==
    /\ rotation \in [Rooftop -> Seq(User)]
    /\ floor \in [Rooftop -> [User -> RotationStatus \cup {"none"}]]

VisitsOK == visits \in Seq(VisitView) /\ Len(visits) <= MaxVisit

HandoffsOK == deskHandoffs \in [1..MaxOpportunity -> DeskingHandoffFact \cup {NoDeskHandoff}]

SellingInv ==
    /\ OpportunitiesOK /\ ReadingOK /\ ShortlistOK /\ DemosOK /\ CarsHeld
    /\ OwedOK /\ FloorOK /\ VisitsOK /\ HandoffsOK

\* The invariant includes the types of the sales floor.
LEMMA SellingTypes == SellingInv => SellingTypeOK
BY DEF SellingInv, SellingTypeOK, OpportunitiesOK, ReadingOK, ShortlistOK, DemosOK, OwedOK, FloorOK, VisitsOK, HandoffsOK

\* The invariant gives what the run checks of drives and selections.
LEMMA SellingExcludes == SellingInv => DrivesAndSelectionsAreExclusive
<1> SUFFICES ASSUME SellingInv PROVE DrivesAndSelectionsAreExclusive
  OBVIOUS
<1>1. DOMAIN demos = 1..Len(demos)
  BY DEF SellingInv, DemosOK
<1>2. ASSUME NEW o \in Opportunity PROVE Cardinality(Selected(o)) <= 1
  <2>1. o \in 1..MaxOpportunity
    BY SellingAssumption DEF SellingInv, OpportunitiesOK, Opportunity
  <2>2. \A s, t \in Selected(o) : s = t
    BY <2>1 DEF SellingInv, ShortlistOK, Selected
  <2>3. CASE Selected(o) = {}
    BY <2>3, FS_EmptySet
  <2>4. CASE Selected(o) # {}
    <3>1. PICK s : Selected(o) = {s}
      BY <2>2, <2>4
    <3>2. Cardinality({s}) = 1
      BY FS_Singleton
    <3> QED
      BY <3>1, <3>2
  <2> QED
    BY <2>3, <2>4
<1> QED
  BY <1>1, <1>2 DEF DrivesAndSelectionsAreExclusive, SellingInv, DemosOK, CarsHeld, Out

\* Each part of the invariant stands while its tables do: opportunities,
LEMMA OpportunitiesStay == OpportunitiesOK /\ UNCHANGED opportunities => OpportunitiesOK'
BY DEF OpportunitiesOK

\* what requests have read,
LEMMA ReadingStays == ReadingOK /\ UNCHANGED reading => ReadingOK'
BY DEF ReadingOK

\* selections,
LEMMA ShortlistStays == ShortlistOK /\ UNCHANGED shortlist => ShortlistOK'
BY DEF ShortlistOK

\* drives,
LEMMA DemosStay == DemosOK /\ UNCHANGED demos => DemosOK'
BY DEF DemosOK

\* cars held by requests,
LEMMA CarsStay == CarsHeld /\ UNCHANGED <<reading, demos>> => CarsHeld'
BY DEF CarsHeld

\* activities,
LEMMA OwedStays == OwedOK /\ UNCHANGED owed => OwedOK'
BY DEF OwedOK

\* the rotation,
LEMMA FloorStays == FloorOK /\ UNCHANGED <<rotation, floor>> => FloorOK'
BY DEF FloorOK

\* visits,
LEMMA VisitsStay == VisitsOK /\ UNCHANGED visits => VisitsOK'
BY DEF VisitsOK

\* and handoffs to desking.
LEMMA HandoffsStay == HandoffsOK /\ UNCHANGED deskHandoffs => HandoffsOK'
BY DEF HandoffsOK

\* Leaving the sales floor alone keeps its invariant.
LEMMA SellingStays == ASSUME SellingInv, UNCHANGED salesVars PROVE SellingInv'
BY OpportunitiesStay, ReadingStays, ShortlistStays, DemosStay, CarsStay, OwedStays, FloorStays, VisitsStay, HandoffsStay
   DEF SellingInv, salesVars

\* What a request has read, by the phase it is in.
LEMMA RequestTyped ==
    ASSUME ReadingOK, NEW k \in Clerk
    PROVE  /\ reading[k].phase = "open" => reading[k].opportunity \in 1..MaxOpportunity
           /\ reading[k].phase = "drive" => reading[k].demo \in DemonstrationView
           /\ reading[k].phase = "select" =>
                /\ reading[k].opportunity \in 1..MaxOpportunity /\ reading[k].item \in Stock
                /\ reading[k].stood \in SUBSET Stock
<1>1. reading[k] \in RequestView
  BY DEF ReadingOK
<1>2. CASE reading[k] = NoRequest
  BY <1>2 DEF NoRequest
<1>3. CASE reading[k] \in [phase : {"open"}, opportunity : 1..MaxOpportunity]
  BY <1>3
<1>4. CASE reading[k] \in [phase : {"drive"}, demo : DemonstrationView]
  BY <1>4
<1>5. CASE reading[k] \in [phase : {"select"}, opportunity : 1..MaxOpportunity, item : Stock, stood : SUBSET Stock]
  BY <1>5
<1> QED
  BY <1>1, <1>2, <1>3, <1>4, <1>5 DEF RequestView

\* A request moves on without taking a car.
LEMMA RequestMoves ==
    ASSUME ReadingOK, CarsHeld, NEW k \in Clerk, NEW row \in RequestView, row.phase # "drive",
           reading' = [reading EXCEPT ![k] = row], UNCHANGED demos
    PROVE  ReadingOK' /\ CarsHeld'
<1>1. /\ reading' \in [Clerk -> RequestView] /\ reading'[k] = row
      /\ \A j \in Clerk : j # k => reading'[j] = reading[j]
  BY DEF ReadingOK
<1> QED
  BY <1>1 DEF ReadingOK, CarsHeld

\* A request is answered.
LEMMA AnsweredStep ==
    ASSUME ReadingOK, CarsHeld, NEW k \in Clerk, Answered(k), UNCHANGED demos
    PROVE  ReadingOK' /\ CarsHeld'
<1>1. NoRequest \in RequestView /\ NoRequest.phase # "drive"
  BY DEF RequestView, NoRequest
<1> QED
  BY <1>1, RequestMoves DEF Answered

\* An opportunity is inserted.
LEMMA OpenedRow ==
    ASSUME OpportunitiesOK, NEW row \in OpportunityView, opportunities' = Append(opportunities, row),
           Len(opportunities) < MaxOpportunity
    PROVE  OpportunitiesOK'
<1>1. opportunities \in Seq(OpportunityView) /\ Len(opportunities) \in Nat
  BY DEF OpportunitiesOK
<1>2. opportunities' \in Seq(OpportunityView) /\ Len(opportunities') = Len(opportunities) + 1
  BY <1>1, AppendedRow
<1> QED
  BY <1>1, <1>2, SellingAssumption DEF OpportunitiesOK

\* An opportunity is written over.
LEMMA OpportunityWritten ==
    ASSUME OpportunitiesOK, NEW o \in Opportunity, NEW row \in OpportunityView,
           opportunities' = [opportunities EXCEPT ![o] = row]
    PROVE  OpportunitiesOK'
<1>1. opportunities \in Seq(OpportunityView) /\ o \in 1..Len(opportunities)
  BY DEF OpportunitiesOK, Opportunity
<1>2. opportunities' \in Seq(OpportunityView) /\ Len(opportunities') = Len(opportunities)
  BY <1>1, WrittenRow
<1> QED
  BY <1>2 DEF OpportunitiesOK

\* What the row of an opportunity is, and where.
LEMMA OpportunityTyped ==
    ASSUME OpportunitiesOK, NEW o \in Opportunity
    PROVE  opportunities[o] \in OpportunityView /\ o \in 1..MaxOpportunity /\ opportunities \in Seq(OpportunityView)
           /\ o \in 1..Len(opportunities)
<1>1. opportunities \in Seq(OpportunityView) /\ o \in 1..Len(opportunities)
  BY DEF OpportunitiesOK, Opportunity
<1> QED
  BY <1>1, SellingAssumption DEF OpportunitiesOK

\* receiveHandoff inserts the opportunity its snapshot describes.
LEMMA ReceiptStep ==
    ASSUME OpportunitiesOK, NEW u \in User, NEW h \in Handoff, receiveHandoff(u, h)
    PROVE  OpportunitiesOK'
<1> DEFINE s == Snapshot[h]
           b == KeptBooking(s.party)
           w == OwnerAtReceipt(u, s)
           row == NewOpportunity(s.rooftop, s.party, h, s.item, b, w)
<1>1. opportunities' = Append(opportunities, row) /\ Len(opportunities) < MaxOpportunity
  BY DEF receiveHandoff
<1>2. s \in [rooftop : Rooftop, party : PartyId, item : Stock \cup {0}, to : User \cup {Unowned}]
  BY SellingAssumption
<1> HIDE DEF s
<1>3. b \in Booking \cup {Unowned}
  BY DEF KeptBooking
<1>4. w \in User \cup {Unowned}
  BY DEF OwnerAtReceipt
<1> HIDE DEF b, w
<1>5. row \in OpportunityView
  BY <1>2, <1>3, <1>4 DEF NewOpportunity, OpportunityView, OPPORTUNITY_STAGES
<1> HIDE DEF row
<1> QED
  BY <1>1, <1>5, OpenedRow

\* openWalkIn inserts an opportunity of a known customer.
LEMMA WalkInStep ==
    ASSUME OpportunitiesOK, NEW u \in User, NEW r \in Rooftop, NEW p \in PartyId, NEW s \in Stock \cup {0},
           openWalkIn(u, r, p, s)
    PROVE  OpportunitiesOK'
<1> DEFINE row == NewOpportunity(r, p, Unowned, s, Unowned, u)
<1>1. opportunities' = Append(opportunities, row) /\ Len(opportunities) < MaxOpportunity
  BY DEF openWalkIn
<1>2. row \in OpportunityView
  BY DEF NewOpportunity, OpportunityView, OPPORTUNITY_STAGES
<1> HIDE DEF row
<1> QED
  BY <1>1, <1>2, OpenedRow

\* acceptOpportunity and assignOpportunity write the owner.
LEMMA OwnerStep ==
    ASSUME OpportunitiesOK, NEW u \in User, NEW o \in Opportunity,
           acceptOpportunity(u, o) \/ assignOpportunity(o, u)
    PROVE  OpportunitiesOK'
<1> DEFINE row == [opportunities[o] EXCEPT !.owner = u]
<1>1. opportunities' = [opportunities EXCEPT ![o] = row]
  BY OpportunityTyped DEF acceptOpportunity, assignOpportunity
<1>2. row \in OpportunityView
  BY OpportunityTyped DEF OpportunityView
<1> HIDE DEF row
<1> QED
  BY <1>1, <1>2, OpportunityWritten

\* moveOpportunityStage writes the stage and, at the end, the handoff to desking.
LEMMA StageStep ==
    ASSUME OpportunitiesOK, ShortlistOK, HandoffsOK, NEW o \in Opportunity, NEW to \in OPPORTUNITY_STAGES,
           moveOpportunityStage(o, to)
    PROVE  OpportunitiesOK' /\ HandoffsOK'
<1> DEFINE row == [opportunities[o] EXCEPT !.stage = to]
<1>1. opportunities' = [opportunities EXCEPT ![o] = row]
  BY OpportunityTyped DEF moveOpportunityStage
<1>2. row \in OpportunityView
  BY OpportunityTyped DEF OpportunityView
<1> HIDE DEF row
<1>3. OpportunitiesOK'
  BY <1>1, <1>2, OpportunityWritten
<1>4. DeskingFact(o) \in DeskingHandoffFact
  <2>1. TheSelected(o) \in Stock \cup {0}
    BY DEF TheSelected, Selected
  <2> QED
    BY <2>1 DEF DeskingFact, DeskingHandoffFact
<1>5. HandoffsOK'
  <2>1. deskHandoffs' = IF to = "ready_for_desking" THEN [deskHandoffs EXCEPT ![o] = DeskingFact(o)] ELSE deskHandoffs
    BY DEF moveOpportunityStage
  <2> QED
    BY <1>4, <2>1 DEF HandoffsOK
<1> QED
  BY <1>3, <1>5

\* One vehicle of a shortlist changes status and is not the selected one.
LEMMA ShortlistWritten ==
    ASSUME ShortlistOK, NEW o \in 1..MaxOpportunity, NEW s \in Stock,
           NEW st \in VEHICLE_INTEREST_STATUSES \cup {"none"}, st # "selected" \/ st = shortlist[o][s],
           shortlist' = [shortlist EXCEPT ![o][s] = st]
    PROVE  ShortlistOK'
<1>1. shortlist \in [1..MaxOpportunity -> [Stock -> VEHICLE_INTEREST_STATUSES \cup {"none"}]]
  BY DEF ShortlistOK
<1>2. shortlist' \in [1..MaxOpportunity -> [Stock -> VEHICLE_INTEREST_STATUSES \cup {"none"}]]
  BY <1>1
<1>3. \A p \in 1..MaxOpportunity, t \in Stock :
        shortlist'[p][t] = IF p = o /\ t = s THEN st ELSE shortlist[p][t]
  BY <1>1
<1>4. \A p \in 1..MaxOpportunity, t \in Stock : shortlist'[p][t] = "selected" => shortlist[p][t] = "selected"
  BY <1>3
<1> QED
  BY <1>2, <1>4 DEF ShortlistOK

\* selectVehicleChecked changes what the request has read.
LEMMA SelectionChecked ==
    ASSUME ReadingOK, CarsHeld, NEW k \in Clerk, NEW s \in Stock, selectVehicleChecked(k, s)
    PROVE  ReadingOK' /\ CarsHeld'
<1> DEFINE o == reading[k].opportunity
           row == [phase |-> "select", opportunity |-> o, item |-> s, stood |-> Selected(o)]
<1>1. o \in 1..MaxOpportunity
  BY RequestTyped DEF selectVehicleChecked
<1>2. reading' = [reading EXCEPT ![k] = row] /\ UNCHANGED demos
  BY DEF selectVehicleChecked
<1> HIDE DEF o
<1>3. Selected(o) \in SUBSET Stock
  BY DEF Selected
<1>4. row \in RequestView /\ row.phase # "drive"
  BY <1>1, <1>3 DEF RequestView
<1> HIDE DEF row
<1> QED
  BY <1>2, <1>4, RequestMoves

\* selectVehicleWritten leaves the vehicle it selects as the only one.
LEMMA SelectionStep ==
    ASSUME ShortlistOK, ReadingOK, NEW k \in Clerk, selectVehicleWritten(k)
    PROVE  ShortlistOK'
<1> DEFINE o == reading[k].opportunity
           s == reading[k].item
           stood == reading[k].stood
           row == [StandDown(o, stood) EXCEPT ![s] = "selected"]
<1>1. o \in 1..MaxOpportunity /\ s \in Stock /\ stood \in SUBSET Stock
  BY RequestTyped DEF selectVehicleWritten
<1>2. shortlist \in [1..MaxOpportunity -> [Stock -> VEHICLE_INTEREST_STATUSES \cup {"none"}]]
  BY DEF ShortlistOK
<1>3. shortlist' = [shortlist EXCEPT ![o] = row]
  BY DEF selectVehicleWritten
<1>4. \A t \in Stock : shortlist[o][t] = "selected" => t \in stood
  BY DEF selectVehicleWritten, SelectionAdmitted, Selected
<1> HIDE DEF o, s, stood
<1>5. /\ row \in [Stock -> VEHICLE_INTEREST_STATUSES \cup {"none"}]
      /\ \A t \in Stock : row[t] = "selected" => t = s
  <2>1. shortlist[o] \in [Stock -> VEHICLE_INTEREST_STATUSES \cup {"none"}]
    BY <1>1, <1>2
  <2> QED
    BY <1>1, <1>4, <2>1 DEF StandDown, VEHICLE_INTEREST_STATUSES
<1> HIDE DEF row
<1>6. /\ shortlist' \in [1..MaxOpportunity -> [Stock -> VEHICLE_INTEREST_STATUSES \cup {"none"}]]
      /\ shortlist'[o] = row /\ \A p \in 1..MaxOpportunity : p # o => shortlist'[p] = shortlist[p]
  BY <1>1, <1>2, <1>3, <1>5
<1> QED
  BY <1>5, <1>6 DEF ShortlistOK

\* A request that has passed its check holds a car that is neither out nor held.
LEMMA IssueChecked ==
    ASSUME ReadingOK, DemosOK, CarsHeld, VisitsOK, NEW k \in Clerk, NEW s \in Stock,
           NEW v \in DOMAIN visits \cup {0}, NEW p \in PartyId, NEW u \in User,
           issueDemonstrationChecked(k, s, v, p, u)
    PROVE  ReadingOK' /\ CarsHeld'
<1> DEFINE o == reading[k].opportunity
           demo == [opportunity |-> o, item |-> s, visit |-> v, driver |-> p, escort |-> u, state |-> "issued"]
           row == [phase |-> "drive", demo |-> demo]
<1>1. o \in 1..MaxOpportunity
  BY RequestTyped DEF issueDemonstrationChecked
<1>2. v \in 0..MaxVisit
  BY SellingAssumption DEF VisitsOK
<1>3. reading' = [reading EXCEPT ![k] = row] /\ UNCHANGED demos
  BY DEF issueDemonstrationChecked
<1>4. /\ \A j \in Clerk : reading[j].phase = "drive" => reading[j].demo.item # s
      /\ \A d \in 1..Len(demos) : demos[d].state \in ACTIVE_DEMONSTRATION_STATES => demos[d].item # s
  BY DEF issueDemonstrationChecked, CarLocked, available, Out, DemosOK
<1> HIDE DEF o
<1>5. demo \in DemonstrationView /\ demo.item = s
  BY <1>1, <1>2 DEF DemonstrationView, DemonstrationState
<1> HIDE DEF demo
<1>6. row \in RequestView /\ row.phase = "drive" /\ row.demo.item = s
  BY <1>5 DEF RequestView
<1> HIDE DEF row
<1>7. /\ reading' \in [Clerk -> RequestView] /\ reading'[k] = row
      /\ \A j \in Clerk : j # k => reading'[j] = reading[j]
  BY <1>3, <1>6 DEF ReadingOK
<1>8. CarsHeld'
  BY <1>3, <1>4, <1>6, <1>7 DEF CarsHeld
<1> QED
  BY <1>7, <1>8 DEF ReadingOK

\* A drive begins with a car, a driver and an escort that no other drive has out.
LEMMA IssueStep ==
    ASSUME ReadingOK, DemosOK, CarsHeld, NEW k \in Clerk, issueDemonstrationWritten(k)
    PROVE  ReadingOK' /\ DemosOK' /\ CarsHeld'
<1> DEFINE row == reading[k].demo
           n == Len(demos)
<1>1. row \in DemonstrationView /\ reading[k].phase = "drive"
  BY RequestTyped DEF issueDemonstrationWritten
<1>2. demos' = Append(demos, row) /\ DriveAdmitted(row) /\ reading' = [reading EXCEPT ![k] = NoRequest]
  BY DEF issueDemonstrationWritten, Answered
<1>3. \A j \in Clerk : j # k /\ reading[j].phase = "drive" => reading[j].demo.item # row.item
  BY <1>1 DEF CarsHeld
<1> HIDE DEF row
<1>4. /\ reading' \in [Clerk -> RequestView] /\ reading'[k].phase = "none"
      /\ \A j \in Clerk : j # k => reading'[j] = reading[j]
  BY <1>2 DEF ReadingOK, RequestView, NoRequest
<1>5. demos \in Seq(DemonstrationView) /\ n \in Nat /\ DOMAIN demos = 1..n
  BY DEF DemosOK
<1>6. /\ demos' \in Seq(DemonstrationView) /\ Len(demos') = n + 1 /\ demos'[n + 1] = row
      /\ \A i \in 1..n : demos'[i] = demos[i]
  BY <1>1, <1>2, <1>5, AppendedRow
<1>7. \A d \in 1..n : demos[d].state \in ACTIVE_DEMONSTRATION_STATES =>
          demos[d].item # row.item /\ demos[d].driver # row.driver /\ demos[d].escort # row.escort
  BY <1>2, <1>5 DEF DriveAdmitted, Out
<1>8. \A d \in 1..n : \A j \in Clerk :
          reading[j].phase = "drive" /\ demos[d].state \in ACTIVE_DEMONSTRATION_STATES =>
              demos[d].item # reading[j].demo.item
  BY DEF CarsHeld
<1>9. \A i, j \in Clerk :
          i # j /\ reading[i].phase = "drive" /\ reading[j].phase = "drive" =>
              reading[i].demo.item # reading[j].demo.item
  BY DEF CarsHeld
<1> HIDE DEF n
<1>10. ASSUME NEW d \in 1..(n + 1), NEW e \in 1..(n + 1), d # e, demos'[d].state \in ACTIVE_DEMONSTRATION_STATES,
              demos'[e].state \in ACTIVE_DEMONSTRATION_STATES
       PROVE  demos'[d].item # demos'[e].item /\ demos'[d].driver # demos'[e].driver /\ demos'[d].escort # demos'[e].escort
  <2>1. (d = n + 1 \/ d \in 1..n) /\ (e = n + 1 \/ e \in 1..n)
    BY <1>5
  <2>2. CASE d = n + 1
    BY <1>6, <1>7, <1>10, <2>1, <2>2
  <2>3. CASE e = n + 1
    BY <1>6, <1>7, <1>10, <2>1, <2>3
  <2>4. CASE d \in 1..n /\ e \in 1..n
    BY <1>6, <1>10, <2>4 DEF DemosOK, n
  <2> QED
    BY <2>1, <2>2, <2>3, <2>4
<1>11. ASSUME NEW j \in Clerk, NEW d \in 1..(n + 1), reading'[j].phase = "drive",
              demos'[d].state \in ACTIVE_DEMONSTRATION_STATES
       PROVE  demos'[d].item # reading'[j].demo.item
  <2>1. d = n + 1 \/ d \in 1..n
    BY <1>5
  <2>2. j # k /\ reading'[j] = reading[j]
    BY <1>4, <1>11
  <2>3. CASE d = n + 1
    BY <1>3, <1>6, <1>11, <2>2, <2>3
  <2>4. CASE d \in 1..n
    BY <1>6, <1>8, <1>11, <2>2, <2>4
  <2> QED
    BY <2>1, <2>3, <2>4
<1>12. \A i, j \in Clerk :
          i # j /\ reading'[i].phase = "drive" /\ reading'[j].phase = "drive" =>
              reading'[i].demo.item # reading'[j].demo.item
  BY <1>4, <1>9
<1>13. CarsHeld'
  BY <1>6, <1>11, <1>12 DEF CarsHeld
<1> QED
  BY <1>4, <1>6, <1>10, <1>13 DEF DemosOK, ReadingOK

\* A drive moves on: it was out, and keeps its car, driver and escort.
LEMMA DriveMoves ==
    ASSUME DemosOK, CarsHeld, NEW d \in DOMAIN demos, NEW st \in DemonstrationState,
           demos[d].state \in ACTIVE_DEMONSTRATION_STATES, demos' = [demos EXCEPT ![d].state = st],
           UNCHANGED reading
    PROVE  DemosOK' /\ CarsHeld'
<1> DEFINE row == [demos[d] EXCEPT !.state = st]
           n == Len(demos)
<1>1. demos \in Seq(DemonstrationView) /\ d \in 1..n
  BY DEF DemosOK
<1>2. demos[d] \in DemonstrationView /\ demos' = [demos EXCEPT ![d] = row]
  BY <1>1
<1>3. row \in DemonstrationView /\ row.item = demos[d].item /\ row.driver = demos[d].driver /\ row.escort = demos[d].escort
  BY <1>2 DEF DemonstrationView
<1> HIDE DEF row, n
<1>4. /\ demos' \in Seq(DemonstrationView) /\ Len(demos') = n /\ demos'[d] = row
      /\ \A i \in 1..n : i # d => demos'[i] = demos[i]
  BY <1>1, <1>2, <1>3, WrittenRow DEF n
<1>5. \A i \in 1..n : /\ demos'[i].item = demos[i].item /\ demos'[i].driver = demos[i].driver
                      /\ demos'[i].escort = demos[i].escort
                      /\ demos'[i].state \in ACTIVE_DEMONSTRATION_STATES => demos[i].state \in ACTIVE_DEMONSTRATION_STATES
  BY <1>3, <1>4
<1>6. CarsHeld'
  BY <1>4, <1>5 DEF CarsHeld, n
<1> QED
  BY <1>4, <1>5, <1>6 DEF DemosOK, n

\* returnDemonstration ends the drive and never selects.
LEMMA ReturnStep ==
    ASSUME ShortlistOK, DemosOK, CarsHeld, NEW d \in DOMAIN demos, returnDemonstration(d)
    PROVE  ShortlistOK' /\ DemosOK' /\ CarsHeld'
<1> DEFINE o == demos[d].opportunity
           s == demos[d].item
           st == IF shortlist[o][s] = "considering" THEN "demonstrated" ELSE shortlist[o][s]
<1>1. demos \in Seq(DemonstrationView) /\ d \in 1..Len(demos)
  BY DEF DemosOK
<1>2. demos[d] \in DemonstrationView
  BY <1>1
<1>3. o \in 1..MaxOpportunity /\ s \in Stock
  BY <1>2 DEF DemonstrationView
<1>4. /\ demos[d].state \in ACTIVE_DEMONSTRATION_STATES /\ demos' = [demos EXCEPT ![d].state = "returned"]
      /\ shortlist' = [shortlist EXCEPT ![o][s] = IF @ = "considering" THEN "demonstrated" ELSE @]
      /\ UNCHANGED reading
  BY DEF returnDemonstration, Out
<1>5. DemosOK' /\ CarsHeld'
  BY <1>4, DriveMoves DEF DemonstrationState
<1> HIDE DEF o, s
<1>6. shortlist[o] \in [Stock -> VEHICLE_INTEREST_STATUSES \cup {"none"}]
      /\ shortlist \in [1..MaxOpportunity -> [Stock -> VEHICLE_INTEREST_STATUSES \cup {"none"}]]
  BY <1>3 DEF ShortlistOK
<1>7. shortlist' = [shortlist EXCEPT ![o][s] = st]
  BY <1>3, <1>4, <1>6
<1>8. st \in VEHICLE_INTEREST_STATUSES \cup {"none"} /\ (st # "selected" \/ st = shortlist[o][s])
  BY <1>3, <1>6 DEF VEHICLE_INTEREST_STATUSES
<1> HIDE DEF st
<1> QED
  BY <1>3, <1>5, <1>7, <1>8, ShortlistWritten

\* logSalesActivity appends what is owed.
LEMMA LoggedStep ==
    ASSUME ReadingOK, OwedOK, NEW k \in Clerk, NEW kind \in SALES_ACTIVITY_KINDS, NEW due \in BOOLEAN,
           logSalesActivity(k, kind, due)
    PROVE  OwedOK'
<1> DEFINE o == reading[k].opportunity
           st == IF kind \in OWED_KINDS THEN "open" ELSE "completed"
           row == [opportunity |-> o, kind |-> kind, due |-> due, state |-> st]
<1>1. o \in 1..MaxOpportunity
  BY RequestTyped DEF logSalesActivity
<1>2. owed' = Append(owed, row)
  BY DEF logSalesActivity
<1> HIDE DEF o
<1>3. st \in {"open", "completed", "cancelled"}
  OBVIOUS
<1> HIDE DEF st
<1>4. row \in SalesActivityView
  BY <1>1, <1>3 DEF SalesActivityView
<1> HIDE DEF row
<1> QED
  BY <1>2, <1>4, AppendedRow DEF OwedOK

\* closeSalesActivity closes one activity.
LEMMA ActivityClosed ==
    ASSUME OwedOK, NEW a \in DOMAIN owed, NEW st \in {"completed", "cancelled"}, closeSalesActivity(a, st)
    PROVE  OwedOK'
<1> DEFINE row == [owed[a] EXCEPT !.state = st]
<1>1. owed \in Seq(SalesActivityView) /\ a \in 1..Len(owed)
  BY DEF OwedOK
<1>2. owed[a] \in SalesActivityView /\ owed' = [owed EXCEPT ![a] = row]
  BY <1>1 DEF closeSalesActivity
<1>3. row \in SalesActivityView
  BY <1>2 DEF SalesActivityView
<1> HIDE DEF row
<1> QED
  BY <1>1, <1>2, <1>3, WrittenRow DEF OwedOK

\* Whoever is taken from the floor goes to the back of the rotation.
LEMMA BackOfRotation ==
    ASSUME FloorOK, NEW r \in Rooftop, NEW u \in Range(rotation[r])
    PROVE  u \in User /\ ToTheBack(r, u) \in [Rooftop -> Seq(User)]
<1> DEFINE q == rotation[r]
           i == PlaceOf(r, u)
<1>1. q \in Seq(User) /\ Len(q) \in Nat /\ DOMAIN q = 1..Len(q) /\ rotation \in [Rooftop -> Seq(User)]
  BY DEF FloorOK
<1>2. \E j \in DOMAIN q : q[j] = u
  BY DEF Range
<1>3. i \in DOMAIN q /\ q[i] = u
  <2>1. i = CHOOSE j \in DOMAIN q : q[j] = u
    BY DEF PlaceOf
  <2> QED
    BY <1>2, <2>1
<1>4. ToTheBack(r, u) = [rotation EXCEPT ![r] = Append(RemoveAt(q, i), u)]
  BY <1>1 DEF ToTheBack
<1> HIDE DEF q, i
<1>5. u \in User
  BY <1>1, <1>3
<1>6. RemoveAt(q, i) \in Seq(User)
  <2>1. i \in 1..Len(q)
    BY <1>1, <1>3
  <2>2. SubSeq(q, 1, i - 1) \in Seq(User)
    BY <1>1, <2>1
  <2>3. SubSeq(q, i + 1, Len(q)) \in Seq(User)
    BY <1>1, <2>1
  <2> QED
    BY <2>2, <2>3, Joined DEF RemoveAt
<1>7. Append(RemoveAt(q, i), u) \in Seq(User)
  BY <1>5, <1>6, AppendedRow
<1> QED
  BY <1>1, <1>4, <1>5, <1>7

\* joinFloor and releaseToFloor keep the rotation a sequence of people.
LEMMA FloorSteps ==
    ASSUME FloorOK, NEW u \in User, NEW r \in Rooftop, joinFloor(u, r) \/ releaseToFloor(u, r)
    PROVE  FloorOK'
<1>1. "available" \in RotationStatus \cup {"none"}
  BY DEF RotationStatus
<1>2. floor' \in [Rooftop -> [User -> RotationStatus \cup {"none"}]]
  <2>1. floor' = [floor EXCEPT ![r][u] = "available"]
    BY DEF joinFloor, releaseToFloor
  <2>2. floor \in [Rooftop -> [User -> RotationStatus \cup {"none"}]]
    BY DEF FloorOK
  <2> QED
    BY <1>1, <2>1, <2>2
<1>3. Append(rotation[r], u) \in Seq(User)
  BY AppendedRow DEF FloorOK
<1>4. rotation' \in [Rooftop -> Seq(User)]
  BY <1>3 DEF FloorOK, joinFloor, releaseToFloor
<1> QED
  BY <1>2, <1>4 DEF FloorOK

\* checkIn appends a visit.
LEMMA ArrivalStep ==
    ASSUME OpportunitiesOK, VisitsOK, NEW r \in Rooftop, NEW p \in PartyId, NEW o \in Opportunity \cup {0},
           NEW b, checkIn(r, p, o, b)
    PROVE  VisitsOK'
<1> DEFINE row == [rooftop |-> r, party |-> p, opportunity |-> o, state |-> "arrived",
                   greeter |-> Unowned, acceptedBy |-> Unowned]
<1>1. visits' = Append(visits, row) /\ Len(visits) < MaxVisit
  BY DEF checkIn
<1>2. o \in 0..MaxOpportunity
  BY OpportunityTyped, SellingAssumption
<1>3. row \in VisitView
  BY <1>2 DEF VisitView, VisitState
<1> HIDE DEF row
<1>4. visits \in Seq(VisitView) /\ Len(visits) \in Nat
  BY DEF VisitsOK
<1>5. visits' \in Seq(VisitView) /\ Len(visits') = Len(visits) + 1
  BY <1>1, <1>3, <1>4, AppendedRow
<1> QED
  BY <1>1, <1>4, <1>5, SellingAssumption DEF VisitsOK

\* A visit is written over.
LEMMA VisitWritten ==
    ASSUME VisitsOK, NEW v \in DOMAIN visits, NEW row \in VisitView, visits' = [visits EXCEPT ![v] = row]
    PROVE  VisitsOK'
<1>1. visits \in Seq(VisitView) /\ v \in 1..Len(visits)
  BY DEF VisitsOK
<1>2. visits' \in Seq(VisitView) /\ Len(visits') = Len(visits)
  BY <1>1, WrittenRow
<1> QED
  BY <1>2 DEF VisitsOK

\* What the row of a visit is, and where.
LEMMA VisitTyped ==
    ASSUME VisitsOK, NEW v \in DOMAIN visits
    PROVE  visits[v] \in VisitView /\ visits[v].rooftop \in Rooftop
<1>1. visits \in Seq(VisitView) /\ v \in 1..Len(visits)
  BY DEF VisitsOK
<1>2. visits[v] \in VisitView
  BY <1>1
<1> QED
  BY <1>2 DEF VisitView

\* greetVisit names the greeter and takes the turn.
LEMMA GreetingStep ==
    ASSUME FloorOK, VisitsOK, NEW v \in DOMAIN visits, NEW named \in User \cup {Unowned}, greetVisit(v, named)
    PROVE  FloorOK' /\ VisitsOK'
<1> DEFINE r == visits[v].rooftop
           u == IF named = Unowned THEN takeNextTurn(r) ELSE named
           row == [visits[v] EXCEPT !.state = "greeted", !.greeter = u]
<1>1. visits[v] \in VisitView /\ r \in Rooftop
  BY VisitTyped
<1>2. /\ visits' = [visits EXCEPT ![v] = row] /\ floor' = [floor EXCEPT ![r][u] = "with_customer"]
      /\ rotation' = ToTheBack(r, u)
  BY DEF greetVisit
<1>3. IF named = Unowned THEN FreeOn(r) # {} ELSE GreeterTakes(r, named)
  BY DEF greetVisit
<1> HIDE DEF r
<1>4. u \in Range(rotation[r])
  <2>1. CASE named = Unowned
    <3>1. rotation[r] \in Seq(User) /\ DOMAIN rotation[r] = 1..Len(rotation[r])
      BY <1>1 DEF FloorOK
    <3>2. FreeOn(r) \in SUBSET Nat /\ FreeOn(r) # {} /\ FreeOn(r) \subseteq DOMAIN rotation[r]
      BY <1>3, <2>1, <3>1 DEF FreeOn
    <3>3. Min(FreeOn(r)) \in DOMAIN rotation[r]
      BY <3>2, LeastMember
    <3> QED
      BY <2>1, <3>3 DEF takeNextTurn, Range
  <2>2. CASE named # Unowned
    BY <1>3, <2>2 DEF GreeterTakes
  <2> QED
    BY <2>1, <2>2
<1> HIDE DEF u
<1>5. u \in User /\ rotation' \in [Rooftop -> Seq(User)]
  BY <1>1, <1>2, <1>4, BackOfRotation
<1>6. floor' \in [Rooftop -> [User -> RotationStatus \cup {"none"}]]
  <2>1. "with_customer" \in RotationStatus \cup {"none"}
    BY DEF RotationStatus
  <2> QED
    BY <1>1, <1>2, <1>5, <2>1 DEF FloorOK
<1>7. row \in VisitView
  BY <1>1, <1>5 DEF VisitView, VisitState
<1> HIDE DEF row
<1>8. VisitsOK'
  BY <1>2, <1>7, VisitWritten
<1> QED
  BY <1>5, <1>6, <1>8 DEF FloorOK

\* acceptVisit names who takes the customer on.
LEMMA AcceptanceStep ==
    ASSUME VisitsOK, NEW v \in DOMAIN visits, NEW u \in User, acceptVisit(v, u)
    PROVE  VisitsOK'
<1> DEFINE row == [visits[v] EXCEPT !.state = "with_salesperson", !.acceptedBy = u]
<1>1. visits' = [visits EXCEPT ![v] = row]
  BY DEF acceptVisit
<1>2. row \in VisitView
  BY VisitTyped DEF VisitView, VisitState
<1> HIDE DEF row
<1> QED
  BY <1>1, <1>2, VisitWritten

\* departVisit ends the visit and frees who was with the customer.
LEMMA DepartureStep ==
    ASSUME FloorOK, VisitsOK, NEW v \in DOMAIN visits, departVisit(v)
    PROVE  FloorOK' /\ VisitsOK'
<1> DEFINE r == visits[v].rooftop
           u == WithCustomer(v)
           row == [visits[v] EXCEPT !.state = "departed"]
<1>1. visits[v] \in VisitView /\ r \in Rooftop
  BY VisitTyped
<1>2. visits' = [visits EXCEPT ![v] = row] /\ floor' = releaseWithin(r, u) /\ UNCHANGED rotation
  BY DEF departVisit
<1>3. row \in VisitView
  BY <1>1 DEF VisitView, VisitState
<1> HIDE DEF row, r, u
<1>4. VisitsOK'
  BY <1>2, <1>3, VisitWritten
<1>5. floor' \in [Rooftop -> [User -> RotationStatus \cup {"none"}]]
  <2>1. CASE u \in Range(rotation[r]) /\ floor[r][u] = "with_customer"
    <3>1. floor' = [floor EXCEPT ![r][u] = "available"]
      BY <1>2, <2>1 DEF releaseWithin
    <3>2. u \in User
      BY <1>1, <2>1, BackOfRotation
    <3>3. "available" \in RotationStatus \cup {"none"}
      BY DEF RotationStatus
    <3> QED
      BY <1>1, <3>1, <3>2, <3>3 DEF FloorOK
  <2>2. CASE ~(u \in Range(rotation[r]) /\ floor[r][u] = "with_customer")
    <3>1. floor' = floor
      BY <1>2, <2>2 DEF releaseWithin
    <3> QED
      BY <3>1 DEF FloorOK
  <2> QED
    BY <2>1, <2>2
<1> QED
  BY <1>2, <1>4, <1>5 DEF FloorOK

\* Every step of the sales floor.
LEMMA SellingStep ==
    ASSUME PartiesInv, StockInv, SellingInv, SellingNext
    PROVE  SellingInv' /\ UNCHANGED inventoryVars
<1> DEFINE Kept == SellingInv' /\ UNCHANGED inventoryVars
<1>0. /\ OpportunitiesOK /\ ReadingOK /\ ShortlistOK /\ DemosOK /\ CarsHeld /\ OwedOK /\ FloorOK /\ VisitsOK /\ HandoffsOK
      /\ Party \subseteq PartyId
  BY ContactAssumption DEF SellingInv, PartiesInv, PartiesTypeOK, Party, PartyId
<1>1. ASSUME UNCHANGED inventoryVars, OpportunitiesOK', ReadingOK', ShortlistOK', DemosOK', CarsHeld', OwedOK', FloorOK',
             VisitsOK', HandoffsOK'
      PROVE  Kept
  BY <1>1 DEF SellingInv
<1> HIDE DEF Kept
<1>2. ASSUME NEW u \in User, NEW h \in Handoff, receiveHandoff(u, h) PROVE Kept
  <2>1. OpportunitiesOK'
    BY <1>0, <1>2, ReceiptStep
  <2>2. UNCHANGED <<inventoryVars, reading, shortlist, demos, owed, rotation, floor, visits, deskHandoffs>>
    BY <1>2 DEF receiveHandoff
  <2> QED
    BY <1>0, <1>1, <2>1, <2>2, ReadingStays, ShortlistStays, DemosStay, CarsStay, OwedStays, FloorStays, VisitsStay, HandoffsStay
<1>3. ASSUME NEW u \in User, NEW r \in Rooftop, NEW p \in Party, NEW s \in Stock \cup {0}, openWalkIn(u, r, p, s) PROVE Kept
  <2>1. OpportunitiesOK'
    BY <1>0, <1>3, WalkInStep
  <2>2. UNCHANGED <<inventoryVars, reading, shortlist, demos, owed, rotation, floor, visits, deskHandoffs>>
    BY <1>3 DEF openWalkIn
  <2> QED
    BY <1>0, <1>1, <2>1, <2>2, ReadingStays, ShortlistStays, DemosStay, CarsStay, OwedStays, FloorStays, VisitsStay, HandoffsStay
<1>4. ASSUME NEW u \in User, NEW o \in Opportunity, acceptOpportunity(u, o) \/ assignOpportunity(o, u) PROVE Kept
  <2>1. OpportunitiesOK'
    BY <1>0, <1>4, OwnerStep
  <2>2. UNCHANGED <<inventoryVars, reading, shortlist, demos, owed, rotation, floor, visits, deskHandoffs>>
    BY <1>4 DEF acceptOpportunity, assignOpportunity
  <2> QED
    BY <1>0, <1>1, <2>1, <2>2, ReadingStays, ShortlistStays, DemosStay, CarsStay, OwedStays, FloorStays, VisitsStay, HandoffsStay
<1>5. ASSUME NEW o \in Opportunity, NEW to \in OPPORTUNITY_STAGES, moveOpportunityStage(o, to) PROVE Kept
  <2>1. OpportunitiesOK' /\ HandoffsOK'
    BY <1>0, <1>5, StageStep
  <2>2. UNCHANGED <<inventoryVars, reading, shortlist, demos, owed, rotation, floor, visits>>
    BY <1>5 DEF moveOpportunityStage
  <2> QED
    BY <1>0, <1>1, <2>1, <2>2, ReadingStays, ShortlistStays, DemosStay, CarsStay, OwedStays, FloorStays, VisitsStay
<1>6. ASSUME NEW k \in Clerk, NEW o \in Opportunity, assertOpportunityOpen(k, o) PROVE Kept
  <2>1. ReadingOK' /\ CarsHeld'
    <3>1. o \in 1..MaxOpportunity
      BY <1>0, OpportunityTyped
    <3> DEFINE row == [phase |-> "open", opportunity |-> o]
    <3>2. reading' = [reading EXCEPT ![k] = row] /\ UNCHANGED demos
      BY <1>6 DEF assertOpportunityOpen
    <3>3. row \in RequestView /\ row.phase # "drive"
      BY <3>1 DEF RequestView
    <3> HIDE DEF row
    <3> QED
      BY <1>0, <3>2, <3>3, RequestMoves
  <2>2. UNCHANGED <<inventoryVars, opportunities, shortlist, demos, owed, rotation, floor, visits, deskHandoffs>>
    BY <1>6 DEF assertOpportunityOpen
  <2> QED
    BY <1>0, <1>1, <2>1, <2>2, OpportunitiesStay, ShortlistStays, DemosStay, CarsStay, OwedStays, FloorStays, VisitsStay, HandoffsStay
<1>7. ASSUME NEW k \in Clerk, Answered(k), UNCHANGED demos PROVE ReadingOK' /\ CarsHeld'
  BY <1>0, <1>7, AnsweredStep
<1>8. ASSUME NEW k \in Clerk, readingDropped(k) \/ uniqueViolation(k) PROVE Kept
  <2>1. ReadingOK' /\ CarsHeld'
    BY <1>7, <1>8 DEF readingDropped, uniqueViolation
  <2>2. UNCHANGED <<inventoryVars, opportunities, shortlist, demos, owed, rotation, floor, visits, deskHandoffs>>
    BY <1>8 DEF readingDropped, uniqueViolation
  <2> QED
    BY <1>0, <1>1, <2>1, <2>2, OpportunitiesStay, ShortlistStays, DemosStay, CarsStay, OwedStays, FloorStays, VisitsStay, HandoffsStay
<1>9. ASSUME NEW k \in Clerk, NEW s \in Stock,
             shortlistVehicle(k, s) \/ \E status \in VEHICLE_INTEREST_STATUSES : setVehicleStatus(k, s, status)
      PROVE  Kept
  <2>1. ReadingOK' /\ CarsHeld'
    BY <1>7, <1>9 DEF shortlistVehicle, setVehicleStatus
  <2>2. UNCHANGED <<inventoryVars, opportunities, demos, owed, rotation, floor, visits, deskHandoffs>>
    BY <1>9 DEF shortlistVehicle, setVehicleStatus
  <2>3. ShortlistOK'
    <3>1. reading[k].opportunity \in 1..MaxOpportunity
      BY <1>0, <1>9, RequestTyped DEF shortlistVehicle, setVehicleStatus
    <3>2. PICK st \in VEHICLE_INTEREST_STATUSES :
            st # "selected" /\ shortlist' = [shortlist EXCEPT ![reading[k].opportunity][s] = st]
      BY <1>9 DEF shortlistVehicle, setVehicleStatus, VEHICLE_INTEREST_STATUSES
    <3> QED
      BY <1>0, <3>1, <3>2, ShortlistWritten
  <2> QED
    BY <1>0, <1>1, <2>1, <2>2, <2>3, OpportunitiesStay, DemosStay, CarsStay, OwedStays, FloorStays, VisitsStay, HandoffsStay
<1>10. ASSUME NEW k \in Clerk, selectVehicleWritten(k) \/ \E s \in Stock : selectVehicleChecked(k, s) PROVE Kept
  <2>1. UNCHANGED <<inventoryVars, opportunities, demos, owed, rotation, floor, visits, deskHandoffs>>
    BY <1>10 DEF selectVehicleWritten, selectVehicleChecked
  <2>2. ReadingOK' /\ CarsHeld'
    BY <1>0, <1>7, <1>10, SelectionChecked DEF selectVehicleWritten
  <2>3. ShortlistOK'
    <3>1. CASE selectVehicleWritten(k)
      BY <1>0, <3>1, SelectionStep
    <3>2. CASE \E s \in Stock : selectVehicleChecked(k, s)
      BY <1>0, <3>2, ShortlistStays DEF selectVehicleChecked
    <3> QED
      BY <1>10, <3>1, <3>2
  <2> QED
    BY <1>0, <1>1, <2>1, <2>2, <2>3, OpportunitiesStay, DemosStay, CarsStay, OwedStays, FloorStays, VisitsStay, HandoffsStay
<1>11. ASSUME NEW k \in Clerk, NEW s \in Item, NEW v \in DOMAIN visits \cup {0}, NEW p \in Party, NEW u \in User,
              issueDemonstrationChecked(k, s, v, p, u)
       PROVE  Kept
  <2>1. UNCHANGED <<inventoryVars, opportunities, shortlist, demos, owed, rotation, floor, visits, deskHandoffs>>
    BY <1>11 DEF issueDemonstrationChecked
  <2>2. ReadingOK' /\ CarsHeld'
    <3>1. s \in Stock
      BY StockAssumption DEF StockInv, StockTypeOK, Item
    <3> QED
      BY <1>0, <1>11, <3>1, IssueChecked
  <2> QED
    BY <1>0, <1>1, <2>1, <2>2, OpportunitiesStay, ShortlistStays, DemosStay, CarsStay, OwedStays, FloorStays, VisitsStay, HandoffsStay
<1>11b. ASSUME NEW k \in Clerk, issueDemonstrationWritten(k) PROVE Kept
  <2>1. UNCHANGED <<inventoryVars, opportunities, shortlist, owed, rotation, floor, visits, deskHandoffs>>
    BY <1>11b DEF issueDemonstrationWritten
  <2> QED
    BY <1>0, <1>1, <1>11b, <2>1, IssueStep, OpportunitiesStay, ShortlistStays, OwedStays, FloorStays, VisitsStay, HandoffsStay
<1>12. ASSUME NEW d \in DOMAIN demos, startDemonstration(d) \/ cancelDemonstration(d) \/ recordDemonstrationException(d) PROVE Kept
  <2>1. UNCHANGED <<inventoryVars, opportunities, reading, shortlist, owed, rotation, floor, visits, deskHandoffs>>
    BY <1>12 DEF startDemonstration, cancelDemonstration, recordDemonstrationException
  <2>2. \E st \in DemonstrationState :
            demos[d].state \in ACTIVE_DEMONSTRATION_STATES /\ demos' = [demos EXCEPT ![d].state = st]
    BY <1>12 DEF startDemonstration, cancelDemonstration, recordDemonstrationException, Out, ACTIVE_DEMONSTRATION_STATES,
                 DemonstrationState
  <2>3. DemosOK' /\ CarsHeld'
    BY <1>0, <2>1, <2>2, DriveMoves
  <2> QED
    BY <1>0, <1>1, <2>1, <2>3, OpportunitiesStay, ReadingStays, ShortlistStays, OwedStays, FloorStays, VisitsStay, HandoffsStay
<1>13. ASSUME NEW d \in DOMAIN demos, returnDemonstration(d) PROVE Kept
  <2>1. UNCHANGED <<inventoryVars, opportunities, reading, owed, rotation, floor, visits, deskHandoffs>>
    BY <1>13 DEF returnDemonstration
  <2> QED
    BY <1>0, <1>1, <1>13, <2>1, ReturnStep, OpportunitiesStay, ReadingStays, OwedStays, FloorStays, VisitsStay, HandoffsStay
<1>14. ASSUME NEW k \in Clerk, NEW kind \in SALES_ACTIVITY_KINDS, NEW due \in BOOLEAN, logSalesActivity(k, kind, due) PROVE Kept
  <2>1. ReadingOK' /\ CarsHeld'
    BY <1>7, <1>14 DEF logSalesActivity
  <2>2. UNCHANGED <<inventoryVars, opportunities, shortlist, demos, rotation, floor, visits, deskHandoffs>>
    BY <1>14 DEF logSalesActivity
  <2> QED
    BY <1>0, <1>1, <1>14, <2>1, <2>2, LoggedStep, OpportunitiesStay, ShortlistStays, DemosStay, FloorStays, VisitsStay, HandoffsStay
<1>15. ASSUME NEW a \in DOMAIN owed, NEW state \in {"completed", "cancelled"}, closeSalesActivity(a, state) PROVE Kept
  <2>1. UNCHANGED <<inventoryVars, opportunities, reading, shortlist, demos, rotation, floor, visits, deskHandoffs>>
    BY <1>15 DEF closeSalesActivity
  <2> QED
    BY <1>0, <1>1, <1>15, <2>1, ActivityClosed, OpportunitiesStay, ReadingStays, ShortlistStays, DemosStay, CarsStay, FloorStays, VisitsStay,
       HandoffsStay
<1>16. ASSUME NEW o \in Opportunity, recordNegotiationRound(o) PROVE Kept
  <2>1. UNCHANGED <<inventoryVars, opportunities, reading, shortlist, demos, owed, rotation, floor, visits, deskHandoffs>>
    BY <1>16 DEF recordNegotiationRound
  <2> QED
    BY <1>0, <1>1, <2>1, OpportunitiesStay, ReadingStays, ShortlistStays, DemosStay, CarsStay, OwedStays, FloorStays, VisitsStay, HandoffsStay
<1>17. ASSUME NEW k \in Clerk, NEW u \in User, NEW m \in User, recordTurnover(k, u, m) PROVE Kept
  <2>1. ReadingOK' /\ CarsHeld'
    BY <1>7, <1>17 DEF recordTurnover
  <2>2. UNCHANGED <<inventoryVars, opportunities, shortlist, demos, owed, rotation, floor, visits, deskHandoffs>>
    BY <1>17 DEF recordTurnover
  <2> QED
    BY <1>0, <1>1, <2>1, <2>2, OpportunitiesStay, ShortlistStays, DemosStay, CarsStay, OwedStays, FloorStays, VisitsStay, HandoffsStay
<1>18. ASSUME NEW u \in User, NEW r \in Rooftop, joinFloor(u, r) \/ releaseToFloor(u, r) PROVE Kept
  <2>1. UNCHANGED <<inventoryVars, opportunities, reading, shortlist, demos, owed, visits, deskHandoffs>>
    BY <1>18 DEF joinFloor, releaseToFloor
  <2> QED
    BY <1>0, <1>1, <1>18, <2>1, FloorSteps, OpportunitiesStay, ReadingStays, ShortlistStays, DemosStay, CarsStay, OwedStays, VisitsStay,
       HandoffsStay
<1>19. ASSUME NEW r \in Rooftop, NEW p \in Party, NEW o \in Opportunity \cup {0}, NEW b \in Booking \cup {Unowned}, checkIn(r, p, o, b)
       PROVE  Kept
  <2>1. UNCHANGED <<inventoryVars, opportunities, reading, shortlist, demos, owed, rotation, floor, deskHandoffs>>
    BY <1>19 DEF checkIn
  <2>2. VisitsOK'
    BY <1>0, <1>19, ArrivalStep
  <2> QED
    BY <1>0, <1>1, <2>1, <2>2, OpportunitiesStay, ReadingStays, ShortlistStays, DemosStay, CarsStay, OwedStays, FloorStays, HandoffsStay
<1>20. ASSUME NEW v \in DOMAIN visits, NEW u \in User \cup {Unowned}, greetVisit(v, u) PROVE Kept
  <2>1. UNCHANGED <<inventoryVars, opportunities, reading, shortlist, demos, owed, deskHandoffs>>
    BY <1>20 DEF greetVisit
  <2> QED
    BY <1>0, <1>1, <1>20, <2>1, GreetingStep, OpportunitiesStay, ReadingStays, ShortlistStays, DemosStay, CarsStay, OwedStays, HandoffsStay
<1>21. ASSUME NEW v \in DOMAIN visits, NEW u \in User, acceptVisit(v, u) PROVE Kept
  <2>1. UNCHANGED <<inventoryVars, opportunities, reading, shortlist, demos, owed, rotation, floor, deskHandoffs>>
    BY <1>21 DEF acceptVisit
  <2> QED
    BY <1>0, <1>1, <1>21, <2>1, AcceptanceStep, OpportunitiesStay, ReadingStays, ShortlistStays, DemosStay, CarsStay, OwedStays, FloorStays,
       HandoffsStay
<1>22. ASSUME NEW v \in DOMAIN visits, departVisit(v) PROVE Kept
  <2>1. UNCHANGED <<inventoryVars, opportunities, reading, shortlist, demos, owed, deskHandoffs>>
    BY <1>22 DEF departVisit
  <2> QED
    BY <1>0, <1>1, <1>22, <2>1, DepartureStep, OpportunitiesStay, ReadingStays, ShortlistStays, DemosStay, CarsStay, OwedStays, HandoffsStay
<1>23. ASSUME NEW b \in Booking, NEW state \in BOOKING_MOVES[bookings[b]], bookingMoves(b, state) PROVE Kept
  <2>1. UNCHANGED <<inventoryVars, opportunities, reading, shortlist, demos, owed, rotation, floor, visits, deskHandoffs>>
    BY <1>23 DEF bookingMoves
  <2> QED
    BY <1>0, <1>1, <2>1, OpportunitiesStay, ReadingStays, ShortlistStays, DemosStay, CarsStay, OwedStays, FloorStays, VisitsStay, HandoffsStay
<1>24. Kept
  BY <1>2, <1>3, <1>4, <1>5, <1>6, <1>8, <1>9, <1>10, <1>11, <1>11b, <1>12, <1>13, <1>14, <1>15, <1>16, <1>17,
     <1>18, <1>19, <1>20, <1>21, <1>22, <1>23, Zenon DEF SellingNext
<1> QED
  BY <1>24 DEF Kept

--------------------------------------------------------------------------------
(* Desking *)

CasesOK == today \in 0..MaxDay /\ cases \in [1..MaxOpportunity -> DeskingCaseView \cup {NoCase}]

\* Only an appraisal that was recorded has quotations and attachments.
AppraisalsOK ==
    /\ appraisals \in [1..MaxOpportunity -> AppraisalView]
    /\ \A c \in 1..MaxOpportunity : appraisals[c].version = 0 => appraisals[c] = NoAppraisal

RulesOK == rules \in Seq(RecordRuleInput)

Figures == {computeScenario(in, book) : in \in ScenarioInputs, book \in SUBSET RecordRuleInput}

ScenarioRow ==
    [case : 1..MaxOpportunity, versionNo : Nat, in : ScenarioInputs, state : ScenarioState, out : Figures,
     applied : SUBSET RecordRuleInput, decision : {"none", "approved", "rejected"},
     decidedBy : User \cup {Unowned}, decidedOn : 0..MaxDay]

\* The figures of a version are those of its own inputs and the rules it was priced with.
PricedAsShown(row) == IsFiniteSet(row.applied) /\ row.out = computeScenario(row.in, row.applied)

ScenariosOK == scenarios \in Seq(ScenarioRow) /\ \A n \in DOMAIN scenarios : PricedAsShown(scenarios[n])

\* What the approval of a version was good for.
GoodApproval(row, rooftop) ==
    row.state = "approved" =>
        row.decision = "approved" /\ <<row.decidedBy, rooftop>> \in Manager /\ row.decidedOn < row.in.expiresAt

ApprovalsOK ==
    /\ \A n \in DOMAIN scenarios :
        cases[scenarios[n].case] # NoCase /\ GoodApproval(scenarios[n], cases[scenarios[n].case].rooftop)
    /\ \A n, m \in DOMAIN scenarios :
        scenarios[n].case = scenarios[m].case /\ scenarios[n].state = "approved" /\ scenarios[m].state = "approved"
            => n = m
    /\ \A c \in 1..MaxOpportunity : cases[c].state = "approved" =>
        \E n \in DOMAIN scenarios : scenarios[n].case = c /\ scenarios[n].state = "approved"

DeskingInv == CasesOK /\ AppraisalsOK /\ RulesOK /\ ScenariosOK /\ ApprovalsOK

\* Each part of the invariant stands while its tables do: appraisals,
LEMMA AppraisalsStay == AppraisalsOK /\ UNCHANGED appraisals => AppraisalsOK'
BY DEF AppraisalsOK

\* rules,
LEMMA RulesStay == RulesOK /\ UNCHANGED rules => RulesOK'
BY DEF RulesOK

\* versions,
LEMMA ScenariosStay == ScenariosOK /\ UNCHANGED scenarios => ScenariosOK'
BY DEF ScenariosOK

\* cases,
LEMMA CasesStay == CasesOK /\ UNCHANGED <<today, cases>> => CasesOK'
BY DEF CasesOK

\* and approvals.
LEMMA ApprovalsStay == ApprovalsOK /\ UNCHANGED <<cases, scenarios>> => ApprovalsOK'
BY DEF ApprovalsOK

\* Leaving the desk alone keeps its invariant.
LEMMA DeskingStays == ASSUME DeskingInv, UNCHANGED deskVars PROVE DeskingInv'
BY AppraisalsStay, RulesStay, ScenariosStay, CasesStay, ApprovalsStay DEF DeskingInv, deskVars

\* What the row of a version is, and where.
LEMMA ScenarioTyped ==
    ASSUME ScenariosOK, NEW n \in DOMAIN scenarios
    PROVE  /\ scenarios \in Seq(ScenarioRow) /\ n \in 1..Len(scenarios) /\ scenarios[n] \in ScenarioRow
           /\ PricedAsShown(scenarios[n])
<1>1. scenarios \in Seq(ScenarioRow) /\ n \in 1..Len(scenarios)
  BY DEF ScenariosOK
<1> QED
  BY <1>1 DEF ScenariosOK

\* The rule book in force is a finite set of rules.
LEMMA BookIsFinite ==
    ASSUME RulesOK, NEW at
    PROVE  IsFiniteSet(resolveRuleBook(at)) /\ resolveRuleBook(at) \in SUBSET RecordRuleInput
<1>1. rules \in Seq(RecordRuleInput) /\ Len(rules) \in Nat /\ DOMAIN rules = 1..Len(rules)
  BY DEF RulesOK
<1>2. IsFiniteSet(Range(rules))
  <2>1. IsFiniteSet(DOMAIN rules)
    BY <1>1, FS_Interval
  <2>2. rules \in Surjection(DOMAIN rules, Range(rules))
    BY <1>1 DEF Surjection, Range
  <2> QED
    BY <2>1, <2>2, FS_Surjection
<1>3. Range(rules) \subseteq RecordRuleInput
  BY <1>1 DEF Range
<1>4. resolveRuleBook(at) \subseteq Range(rules)
  BY DEF resolveRuleBook
<1> QED
  BY <1>2, <1>3, <1>4, FS_Subset

\* A case is opened for a handoff that has none: no version and no approval is its own yet.
LEMMA CaseOpened ==
    ASSUME CasesOK, OpportunitiesOK, HandoffsOK, ScenariosOK, ApprovalsOK,
           NEW u \in User, NEW o \in Opportunity, openDeskingCase(u, o)
    PROVE  CasesOK' /\ HandoffsOK' /\ ApprovalsOK'
<1> DEFINE row == [rooftop |-> opportunities[o].rooftop, item |-> deskHandoffs[o].item, state |-> "open"]
<1>0. opportunities[o] \in OpportunityView /\ o \in 1..MaxOpportunity
  BY OpportunityTyped
<1>1. /\ deskHandoffs[o] # NoDeskHandoff /\ cases[o] = NoCase /\ cases' = [cases EXCEPT ![o] = row]
      /\ deskHandoffs' = [deskHandoffs EXCEPT ![o].status = "AVAILABLE"] /\ UNCHANGED <<today, scenarios>>
  BY DEF openDeskingCase
<1>2. deskHandoffs[o] \in DeskingHandoffFact
  BY <1>0, <1>1 DEF HandoffsOK
<1>3. row \in DeskingCaseView /\ row.state = "open"
  BY <1>0, <1>2 DEF DeskingCaseView, DeskingHandoffFact, OpportunityView
<1> HIDE DEF row
<1>4. cases \in [1..MaxOpportunity -> DeskingCaseView \cup {NoCase}]
  BY DEF CasesOK
<1>5. CasesOK'
  BY <1>0, <1>1, <1>3, <1>4 DEF CasesOK
<1>6. HandoffsOK'
  <2> DEFINE fact == [deskHandoffs[o] EXCEPT !.status = "AVAILABLE"]
  <2>1. fact \in DeskingHandoffFact
    BY <1>2 DEF DeskingHandoffFact
  <2>2. deskHandoffs' = [deskHandoffs EXCEPT ![o] = fact]
    BY <1>1
  <2> HIDE DEF fact
  <2> QED
    BY <1>0, <2>1, <2>2 DEF HandoffsOK
<1>7. ApprovalsOK'
  <2>1. cases'[o] = row /\ \A c \in 1..MaxOpportunity : c # o => cases'[c] = cases[c]
    BY <1>0, <1>1, <1>4
  <2>2. ASSUME NEW n \in DOMAIN scenarios
        PROVE  scenarios[n].case \in 1..MaxOpportunity /\ scenarios[n].case # o
    <3>1. scenarios[n].case \in 1..MaxOpportunity
      BY ScenarioTyped DEF ScenarioRow
    <3> QED
      BY <1>1, <3>1 DEF ApprovalsOK
  <2>3. \A n \in DOMAIN scenarios : cases'[scenarios[n].case] = cases[scenarios[n].case]
    BY <2>1, <2>2
  <2>4. \A n \in DOMAIN scenarios' : cases'[scenarios'[n].case] # NoCase /\
             GoodApproval(scenarios'[n], cases'[scenarios'[n].case].rooftop)
    BY <1>1, <2>3 DEF ApprovalsOK
  <2>5. ASSUME NEW c \in 1..MaxOpportunity, cases'[c].state = "approved"
        PROVE  \E n \in DOMAIN scenarios : scenarios[n].case = c /\ scenarios[n].state = "approved"
    <3>1. c # o
      BY <1>3, <2>1, <2>5
    <3> QED
      BY <2>1, <2>5, <3>1 DEF ApprovalsOK
  <2> QED
    BY <1>1, <2>4, <2>5 DEF ApprovalsOK
<1> QED
  BY <1>5, <1>6, <1>7

\* Recording, revising, quoting and attaching write one appraisal that exists.
LEMMA AppraisalSteps ==
    ASSUME AppraisalsOK, NEW c \in 1..MaxOpportunity,
           \/ recordAppraisal(c)
           \/ reviseAppraisal(c)
           \/ recordSourceQuotation(c)
           \/ addAppraisalAttachment(c)
    PROVE  AppraisalsOK'
<1>0. /\ appraisals \in [1..MaxOpportunity -> AppraisalView] /\ appraisals[c] \in AppraisalView /\ MaxAppraisal \in Nat \ {0}
      /\ \A d \in 1..MaxOpportunity : appraisals[d].version = 0 => appraisals[d] = NoAppraisal
  BY DeskingAssumption DEF AppraisalsOK
<1>1. ASSUME NEW row \in AppraisalView, row.version # 0, appraisals' = [appraisals EXCEPT ![c] = row]
      PROVE  AppraisalsOK'
  <2>1. appraisals' \in [1..MaxOpportunity -> AppraisalView]
    BY <1>0, <1>1
  <2>2. appraisals'[c] = row /\ \A d \in 1..MaxOpportunity : d # c => appraisals'[d] = appraisals[d]
    BY <1>0, <1>1
  <2> QED
    BY <1>0, <1>1, <2>1, <2>2 DEF AppraisalsOK
<1>2. appraisals[c] # NoAppraisal => appraisals[c].version \in 1..MaxAppraisal
  BY <1>0 DEF AppraisalView
<1>3. CASE recordAppraisal(c)
  <2> DEFINE row == [appraisals[c] EXCEPT !.version = 1]
  <2>1. row \in AppraisalView /\ row.version # 0
    BY <1>0 DEF AppraisalView
  <2>2. appraisals' = [appraisals EXCEPT ![c] = row]
    BY <1>3 DEF recordAppraisal
  <2> HIDE DEF row
  <2> QED
    BY <1>1, <2>1, <2>2
<1>4. CASE reviseAppraisal(c)
  <2> DEFINE row == [appraisals[c] EXCEPT !.version = @ + 1]
  <2>0. appraisals[c].version \in 1..(MaxAppraisal - 1)
    BY <1>4 DEF reviseAppraisal
  <2>1. row \in AppraisalView /\ row.version # 0
    BY <1>0, <2>0 DEF AppraisalView
  <2>2. appraisals' = [appraisals EXCEPT ![c] = row]
    BY <1>4 DEF reviseAppraisal
  <2> HIDE DEF row
  <2> QED
    BY <1>1, <2>1, <2>2
<1>5. CASE recordSourceQuotation(c)
  <2> DEFINE row == [appraisals[c] EXCEPT !.quotes = @ \cup {appraisals[c].version}]
  <2>1. row \in AppraisalView /\ row.version # 0
    BY <1>0, <1>2, <1>5 DEF AppraisalView, recordSourceQuotation
  <2>2. appraisals' = [appraisals EXCEPT ![c] = row]
    BY <1>5 DEF recordSourceQuotation
  <2> HIDE DEF row
  <2> QED
    BY <1>1, <2>1, <2>2
<1>6. CASE addAppraisalAttachment(c)
  <2> DEFINE row == [appraisals[c] EXCEPT !.files = @ \cup {appraisals[c].version}]
  <2>1. row \in AppraisalView /\ row.version # 0
    BY <1>0, <1>2, <1>6 DEF AppraisalView, addAppraisalAttachment
  <2>2. appraisals' = [appraisals EXCEPT ![c] = row]
    BY <1>6 DEF addAppraisalAttachment
  <2> HIDE DEF row
  <2> QED
    BY <1>1, <2>1, <2>2
<1> QED
  BY <1>3, <1>4, <1>5, <1>6

\* A new version is a draft, priced with the book that answers for its day.
LEMMA VersionBuilt ==
    ASSUME CasesOK, RulesOK, ScenariosOK, ApprovalsOK, NEW c \in 1..MaxOpportunity, NEW in \in ScenarioInput, buildScenario(c, in)
    PROVE  ScenariosOK' /\ ApprovalsOK'
<1> DEFINE row == NewScenario(c, in)
<1>0. /\ scenarios \in Seq(ScenarioRow) /\ Len(scenarios) \in Nat /\ DOMAIN scenarios = 1..Len(scenarios)
      /\ \A n \in DOMAIN scenarios : PricedAsShown(scenarios[n])
  BY DEF ScenariosOK
<1>1. cases[c] # NoCase /\ scenarios' = Append(scenarios, row) /\ UNCHANGED cases
  BY DEF buildScenario
<1>2. row \in ScenarioRow /\ PricedAsShown(row) /\ row.case = c /\ row.state = "draft"
  <2> DEFINE book == resolveRuleBook(in.pricedAt)
             size == Cardinality(ScenariosOf(c))
             out == computeScenario(in, book)
  <2>1. IsFiniteSet(book) /\ book \in SUBSET RecordRuleInput
    BY BookIsFinite
  <2>2. size \in Nat
    <3>1. IsFiniteSet(DOMAIN scenarios)
      BY <1>0, FS_Interval
    <3>2. IsFiniteSet(ScenariosOf(c))
      BY <3>1, FS_Subset DEF ScenariosOf
    <3> QED
      BY <3>2, FS_CardinalityType
  <2>3. in \in ScenarioInputs /\ 0 \in 0..MaxDay
    BY DeskingAssumption
  <2>4. out \in Figures
    BY <2>1, <2>3 DEF Figures
  <2>5. row = [case |-> c, versionNo |-> size + 1, in |-> in, state |-> "draft", out |-> out, applied |-> book,
               decision |-> "none", decidedBy |-> Unowned, decidedOn |-> 0]
    BY DEF NewScenario
  <2>6. out = computeScenario(in, book)
    OBVIOUS
  <2> HIDE DEF row, book, size, out
  <2>7. row \in ScenarioRow
    BY <2>1, <2>2, <2>3, <2>4, <2>5 DEF ScenarioRow, ScenarioState
  <2> QED
    BY <2>1, <2>5, <2>6, <2>7 DEF PricedAsShown
<1> HIDE DEF row
<1>3. /\ scenarios' \in Seq(ScenarioRow) /\ DOMAIN scenarios' = 1..(Len(scenarios) + 1)
      /\ scenarios'[Len(scenarios) + 1] = row /\ \A n \in DOMAIN scenarios : scenarios'[n] = scenarios[n]
  BY <1>0, <1>1, <1>2, AppendedRow
<1>4. \A n \in DOMAIN scenarios' : n \in DOMAIN scenarios \/ n = Len(scenarios) + 1
  BY <1>0, <1>3
<1>5. ScenariosOK'
  BY <1>0, <1>2, <1>3, <1>4 DEF ScenariosOK
<1>6. ApprovalsOK'
  <2>1. \A n \in DOMAIN scenarios' : cases[scenarios'[n].case] # NoCase /\ GoodApproval(scenarios'[n], cases[scenarios'[n].case].rooftop)
    BY <1>1, <1>2, <1>3, <1>4 DEF ApprovalsOK, GoodApproval
  <2>2. \A n \in DOMAIN scenarios' : scenarios'[n].state = "approved" => n \in DOMAIN scenarios
    BY <1>2, <1>3, <1>4
  <2>3. \A n, m \in DOMAIN scenarios' :
            scenarios'[n].case = scenarios'[m].case /\ scenarios'[n].state = "approved" /\ scenarios'[m].state = "approved" => n = m
    BY <1>3, <2>2 DEF ApprovalsOK
  <2>4. DOMAIN scenarios \subseteq DOMAIN scenarios'
    BY <1>0, <1>3
  <2>5. \A d \in 1..MaxOpportunity : cases[d].state = "approved" =>
            \E n \in DOMAIN scenarios' : scenarios'[n].case = d /\ scenarios'[n].state = "approved"
    BY <1>3, <2>4 DEF ApprovalsOK
  <2> QED
    BY <1>1, <2>1, <2>3, <2>5 DEF ApprovalsOK
<1> QED
  BY <1>5, <1>6

\* A version that was not approved moves to a state that is not an approval.
LEMMA VersionMoved ==
    ASSUME ScenariosOK, ApprovalsOK, NEW n \in DOMAIN scenarios, NEW row \in ScenarioRow, UNCHANGED cases,
           scenarios[n].state # "approved", row.state # "approved", PricedAsShown(row), row.case = scenarios[n].case,
           scenarios' = [scenarios EXCEPT ![n] = row]
    PROVE  ScenariosOK' /\ ApprovalsOK'
<1>0. /\ scenarios \in Seq(ScenarioRow) /\ DOMAIN scenarios = 1..Len(scenarios) /\ n \in 1..Len(scenarios)
      /\ \A m \in DOMAIN scenarios : PricedAsShown(scenarios[m])
  BY DEF ScenariosOK
<1>1. /\ scenarios' \in Seq(ScenarioRow) /\ DOMAIN scenarios' = DOMAIN scenarios /\ scenarios'[n] = row
      /\ \A m \in DOMAIN scenarios : m # n => scenarios'[m] = scenarios[m]
  BY <1>0, WrittenRow
<1>2. ScenariosOK'
  BY <1>0, <1>1 DEF ScenariosOK
<1>3. \A m \in DOMAIN scenarios : /\ scenarios'[m].case = scenarios[m].case
                                  /\ scenarios'[m].state = "approved" <=> scenarios[m].state = "approved"
                                  /\ scenarios[m].state = "approved" => scenarios'[m] = scenarios[m]
  BY <1>1
<1>4. ASSUME NEW m \in DOMAIN scenarios'
      PROVE  cases[scenarios'[m].case] # NoCase /\ GoodApproval(scenarios'[m], cases[scenarios'[m].case].rooftop)
  <2>1. m \in DOMAIN scenarios /\ scenarios'[m].case = scenarios[m].case
    BY <1>1, <1>3
  <2>2. cases[scenarios[m].case] # NoCase /\ GoodApproval(scenarios[m], cases[scenarios[m].case].rooftop)
    BY <2>1 DEF ApprovalsOK
  <2>3. CASE scenarios[m].state = "approved"
    <3>1. scenarios'[m] = scenarios[m]
      BY <1>3, <2>1, <2>3
    <3> QED
      BY <2>2, <3>1
  <2>4. CASE scenarios[m].state # "approved"
    <3>1. scenarios'[m].state # "approved"
      BY <1>3, <2>1, <2>4
    <3> QED
      BY <2>1, <2>2, <3>1 DEF GoodApproval
  <2> QED
    BY <2>3, <2>4
<1>5. \A m, k \in DOMAIN scenarios' :
          scenarios'[m].case = scenarios'[k].case /\ scenarios'[m].state = "approved" /\ scenarios'[k].state = "approved" => m = k
  BY <1>1, <1>3 DEF ApprovalsOK
<1>6. \A d \in 1..MaxOpportunity : cases[d].state = "approved" =>
          \E m \in DOMAIN scenarios' : scenarios'[m].case = d /\ scenarios'[m].state = "approved"
  BY <1>1, <1>3 DEF ApprovalsOK
<1> QED
  BY <1>2, <1>4, <1>5, <1>6 DEF ApprovalsOK

\* submitScenario and expireScenario never touch an approved version.
LEMMA SubmissionAndExpiry ==
    ASSUME ScenariosOK, ApprovalsOK, NEW n \in DOMAIN scenarios, submitScenario(n) \/ expireScenario(n)
    PROVE  ScenariosOK' /\ ApprovalsOK'
<1>1. PICK st \in {"submitted", "expired"} :
          /\ scenarios[n].state # "approved" /\ UNCHANGED cases
          /\ scenarios' = [scenarios EXCEPT ![n].state = st]
  BY DEF submitScenario, expireScenario
<1> DEFINE row == [scenarios[n] EXCEPT !.state = st]
<1>2. scenarios[n] \in ScenarioRow /\ PricedAsShown(scenarios[n])
  BY ScenarioTyped
<1>3. /\ row \in ScenarioRow /\ row.state = st /\ row.case = scenarios[n].case /\ row.in = scenarios[n].in
      /\ row.out = scenarios[n].out /\ row.applied = scenarios[n].applied
  BY <1>2 DEF ScenarioRow, ScenarioState
<1>4. scenarios' = [scenarios EXCEPT ![n] = row]
  BY <1>1
<1> HIDE DEF row
<1>5. PricedAsShown(row)
  BY <1>2, <1>3 DEF PricedAsShown
<1>6. row.state # "approved"
  BY <1>1, <1>3
<1> QED
  BY <1>1, <1>3, <1>4, <1>5, <1>6, VersionMoved

\* The row of a version that a manager decides.
LEMMA DecidedRow ==
    ASSUME CasesOK, ScenariosOK, NEW u \in User, NEW n \in DOMAIN scenarios, NEW decision \in {"approved", "rejected"}
    PROVE  \E row \in ScenarioRow :
               /\ Decided(n, u, decision) = [scenarios EXCEPT ![n] = row]
               /\ PricedAsShown(row) /\ row.case = scenarios[n].case /\ row.in = scenarios[n].in
               /\ row.state = decision /\ row.decision = decision /\ row.decidedBy = u /\ row.decidedOn = today
<1> DEFINE row == [scenarios[n] EXCEPT !.state = decision, !.decision = decision, !.decidedBy = u, !.decidedOn = today]
<1>1. scenarios[n] \in ScenarioRow /\ PricedAsShown(scenarios[n]) /\ today \in 0..MaxDay
  BY ScenarioTyped DEF CasesOK
<1>2. /\ row \in ScenarioRow /\ row.state = decision /\ row.case = scenarios[n].case /\ row.in = scenarios[n].in
      /\ row.out = scenarios[n].out /\ row.applied = scenarios[n].applied
      /\ row.decision = decision /\ row.decidedBy = u /\ row.decidedOn = today
  BY <1>1 DEF ScenarioRow, ScenarioState
<1>3. Decided(n, u, decision) = [scenarios EXCEPT ![n] = row]
  BY DEF Decided
<1> HIDE DEF row
<1>4. PricedAsShown(row)
  BY <1>1, <1>2 DEF PricedAsShown
<1> QED
  BY <1>2, <1>3, <1>4

\* rejectScenario leaves the standing approval alone.
LEMMA RejectionStep ==
    ASSUME CasesOK, ScenariosOK, ApprovalsOK, NEW u \in User, NEW n \in DOMAIN scenarios, NEW reviewed,
           rejectScenario(u, n, reviewed)
    PROVE  ScenariosOK' /\ ApprovalsOK'
<1>1. PICK row \in ScenarioRow :
          /\ Decided(n, u, "rejected") = [scenarios EXCEPT ![n] = row]
          /\ PricedAsShown(row) /\ row.case = scenarios[n].case /\ row.state = "rejected"
  BY DecidedRow
<1>2. scenarios[n].state = "submitted" /\ scenarios' = [scenarios EXCEPT ![n] = row] /\ UNCHANGED cases
  BY <1>1 DEF rejectScenario, decidable
<1> QED
  BY <1>1, <1>2, VersionMoved

\* Approving a version stands the version approved before down, in the same transaction.
LEMMA ApprovalStep ==
    ASSUME CasesOK, ScenariosOK, ApprovalsOK, NEW u \in User, NEW n \in DOMAIN scenarios, NEW reviewed,
           approveScenario(u, n, reviewed)
    PROVE  CasesOK' /\ ScenariosOK' /\ ApprovalsOK'
<1> DEFINE c == scenarios[n].case
           rows == Decided(n, u, "approved")
           stands(m) == m # n /\ rows[m].case = rows[n].case /\ rows[m].state = "approved"
           case == [cases[c] EXCEPT !.state = "approved"]
<1>0. /\ scenarios \in Seq(ScenarioRow) /\ DOMAIN scenarios = 1..Len(scenarios) /\ Len(scenarios) \in Nat
      /\ n \in 1..Len(scenarios) /\ \A m \in DOMAIN scenarios : PricedAsShown(scenarios[m]) /\ scenarios[m] \in ScenarioRow
  BY DEF ScenariosOK
<1>1. PICK row \in ScenarioRow :
          /\ rows = [scenarios EXCEPT ![n] = row]
          /\ PricedAsShown(row) /\ row.case = c /\ row.in = scenarios[n].in
          /\ row.state = "approved" /\ row.decision = "approved" /\ row.decidedBy = u /\ row.decidedOn = today
  BY DecidedRow
<1>2. /\ <<u, cases[c].rooftop>> \in Manager
      /\ scenarios[n].in.expiresAt = Forever \/ today < scenarios[n].in.expiresAt
      /\ scenarios' = Superseded(rows, n)
      /\ cases' = [cases EXCEPT ![c].state = "approved"] /\ UNCHANGED today
  BY DEF approveScenario, decidable, isEligibleManager
<1>3. c \in 1..MaxOpportunity /\ cases[c] # NoCase /\ cases \in [1..MaxOpportunity -> DeskingCaseView \cup {NoCase}]
  BY <1>0 DEF ApprovalsOK, CasesOK, ScenarioRow
<1>4. case \in DeskingCaseView /\ case.state = "approved" /\ case.rooftop = cases[c].rooftop
  <2>1. cases[c] \in DeskingCaseView
    BY <1>3
  <2> QED
    BY <2>1 DEF DeskingCaseView
<1>5. cases' = [cases EXCEPT ![c] = case]
  BY <1>2
<1> HIDE DEF case, rows
<1>6. /\ cases'[c] = case /\ cases' \in [1..MaxOpportunity -> DeskingCaseView \cup {NoCase}]
      /\ \A d \in 1..MaxOpportunity : d # c => cases'[d] = cases[d]
  BY <1>3, <1>4, <1>5
<1>7. case # NoCase
  BY <1>4 DEF NoCase
<1>8. CasesOK'
  BY <1>2, <1>6 DEF CasesOK
<1>9. /\ rows \in Seq(ScenarioRow) /\ Len(rows) = Len(scenarios) /\ DOMAIN rows = 1..Len(scenarios) /\ rows[n] = row
      /\ \A m \in 1..Len(scenarios) : m # n => rows[m] = scenarios[m]
  BY <1>0, <1>1, WrittenRow
<1>10. ASSUME NEW m \in DOMAIN scenarios
       PROVE  /\ [rows[m] EXCEPT !.state = "superseded"] \in ScenarioRow
              /\ [rows[m] EXCEPT !.state = "superseded"].state = "superseded"
              /\ [rows[m] EXCEPT !.state = "superseded"].case = rows[m].case
              /\ PricedAsShown([rows[m] EXCEPT !.state = "superseded"])
              /\ rows[m] \in ScenarioRow /\ PricedAsShown(rows[m])
  <2> DEFINE old == [rows[m] EXCEPT !.state = "superseded"]
  <2>1. rows[m] \in ScenarioRow /\ PricedAsShown(rows[m])
    BY <1>0, <1>1, <1>9
  <2>2. /\ old \in ScenarioRow /\ old.state = "superseded" /\ old.case = rows[m].case
        /\ old.in = rows[m].in /\ old.out = rows[m].out /\ old.applied = rows[m].applied
    BY <2>1 DEF ScenarioRow, ScenarioState
  <2>3. PricedAsShown(old)
    <3> HIDE DEF old
    <3> QED
      BY <2>1, <2>2 DEF PricedAsShown
  <2> QED
    BY <2>1, <2>2, <2>3
<1>11. scenarios' = [m \in DOMAIN rows |-> IF stands(m) THEN [rows[m] EXCEPT !.state = "superseded"] ELSE rows[m]]
  BY <1>2 DEF Superseded
<1>12. /\ DOMAIN scenarios' = DOMAIN scenarios
       /\ \A m \in DOMAIN scenarios : /\ stands(m) => scenarios'[m] = [rows[m] EXCEPT !.state = "superseded"]
                                      /\ ~stands(m) => scenarios'[m] = rows[m]
  BY <1>0, <1>9, <1>11
<1>13. \A m \in DOMAIN scenarios : /\ scenarios'[m] \in ScenarioRow /\ PricedAsShown(scenarios'[m])
                                   /\ scenarios'[m].case = rows[m].case
                                   /\ stands(m) => scenarios'[m].state = "superseded"
  BY <1>10, <1>12
<1>14. ScenariosOK'
  <2>1. scenarios' \in [1..Len(scenarios) -> ScenarioRow]
    BY <1>0, <1>9, <1>11, <1>13
  <2>2. scenarios' \in Seq(ScenarioRow)
    BY <1>0, <2>1, FunctionIsSeq
  <2> QED
    BY <1>12, <1>13, <2>2 DEF ScenariosOK
<1>15. ASSUME NEW m \in DOMAIN scenarios
       PROVE  /\ scenarios'[m].case = scenarios[m].case
              /\ scenarios'[m].state = "approved" =>
                     \/ m = n /\ scenarios'[m] = row
                     \/ m # n /\ scenarios'[m] = scenarios[m] /\ scenarios[m].case # c
              /\ scenarios[m].case # c => scenarios'[m] = scenarios[m]
  BY <1>0, <1>1, <1>9, <1>12, <1>13
<1>16. scenarios'[n] = row
  BY <1>0, <1>9, <1>12
<1>17. row.decidedOn < row.in.expiresAt
  BY <1>1, <1>2, DeskingAssumption DEF CasesOK
<1>18. ASSUME NEW m \in DOMAIN scenarios
       PROVE  cases'[scenarios'[m].case] # NoCase /\ GoodApproval(scenarios'[m], cases'[scenarios'[m].case].rooftop)
  <2>1. scenarios[m].case \in 1..MaxOpportunity
    BY <1>0 DEF ScenarioRow
  <2>2. cases[scenarios[m].case] # NoCase /\ GoodApproval(scenarios[m], cases[scenarios[m].case].rooftop)
    BY DEF ApprovalsOK
  <2>3. cases'[scenarios'[m].case] # NoCase
    BY <1>6, <1>7, <1>15, <2>1, <2>2
  <2>4. ASSUME scenarios'[m].state = "approved", m = n PROVE GoodApproval(scenarios'[m], cases'[scenarios'[m].case].rooftop)
    <3>1. scenarios'[m] = row /\ cases'[scenarios'[m].case].rooftop = cases[c].rooftop
      BY <1>1, <1>4, <1>6, <1>16, <2>4
    <3> QED
      BY <1>1, <1>2, <1>17, <3>1 DEF GoodApproval
  <2>5. ASSUME scenarios'[m].state = "approved", m # n PROVE GoodApproval(scenarios'[m], cases'[scenarios'[m].case].rooftop)
    <3>1. scenarios'[m] = scenarios[m] /\ cases'[scenarios'[m].case] = cases[scenarios[m].case]
      BY <1>6, <1>15, <2>1, <2>5
    <3> QED
      BY <2>2, <3>1
  <2> QED
    BY <2>3, <2>4, <2>5 DEF GoodApproval
<1>19. ASSUME NEW m \in DOMAIN scenarios, NEW k \in DOMAIN scenarios, scenarios'[m].case = scenarios'[k].case,
              scenarios'[m].state = "approved", scenarios'[k].state = "approved"
       PROVE  m = k
  <2>1. CASE m = n
    BY <1>15, <1>19, <2>1
  <2>2. CASE k = n
    BY <1>15, <1>19, <2>2
  <2>3. CASE m # n /\ k # n
    BY <1>15, <1>19, <2>3 DEF ApprovalsOK
  <2> QED
    BY <2>1, <2>2, <2>3
<1>20. ASSUME NEW d \in 1..MaxOpportunity, cases'[d].state = "approved"
       PROVE  \E m \in DOMAIN scenarios : scenarios'[m].case = d /\ scenarios'[m].state = "approved"
  <2>1. CASE d = c
    BY <1>1, <1>16, <2>1
  <2>2. CASE d # c
    <3>1. PICK m \in DOMAIN scenarios : scenarios[m].case = d /\ scenarios[m].state = "approved"
      BY <1>6, <1>20, <2>2 DEF ApprovalsOK
    <3> QED
      BY <1>15, <2>2, <3>1
  <2> QED
    BY <2>1, <2>2
<1>21. ApprovalsOK'
  BY <1>12, <1>18, <1>19, <1>20 DEF ApprovalsOK
<1> QED
  BY <1>8, <1>14, <1>21

\* Every operation of the desk keeps the invariant, and the inventory as it is.
LEMMA DeskingStep ==
    ASSUME SellingInv, DeskingInv, DeskingNext
    PROVE  SellingInv' /\ DeskingInv' /\ UNCHANGED inventoryVars
<1> DEFINE Kept == SellingInv' /\ DeskingInv' /\ UNCHANGED inventoryVars
           Others == UNCHANGED <<inventoryVars, opportunities, reading, shortlist, demos, owed, rotation, floor, visits>>
<1>0. /\ OpportunitiesOK /\ ReadingOK /\ ShortlistOK /\ DemosOK /\ CarsHeld /\ OwedOK /\ FloorOK /\ VisitsOK /\ HandoffsOK
      /\ CasesOK /\ AppraisalsOK /\ RulesOK /\ ScenariosOK /\ ApprovalsOK
  BY DEF SellingInv, DeskingInv
<1>1. ASSUME Others, HandoffsOK', CasesOK', AppraisalsOK', RulesOK', ScenariosOK', ApprovalsOK' PROVE Kept
  <2>1. SellingInv'
    BY <1>0, <1>1, OpportunitiesStay, ReadingStays, ShortlistStays, DemosStay, CarsStay, OwedStays, FloorStays, VisitsStay DEF SellingInv
  <2> QED
    BY <1>1, <2>1 DEF DeskingInv
<1>2. UNCHANGED floorVars => Others
  BY DEF floorVars
<1>3. Case \subseteq 1..MaxOpportunity
  BY <1>0 DEF Case, CasesOK
<1> HIDE DEF Kept, Others
<1>4. ASSUME NEW u \in User, NEW o \in Opportunity, openDeskingCase(u, o) PROVE Kept
  <2>1. UNCHANGED floorVars /\ UNCHANGED <<appraisals, rules, scenarios>>
    BY <1>4 DEF openDeskingCase
  <2> QED
    BY <1>0, <1>1, <1>2, <1>4, <2>1, CaseOpened, AppraisalsStay, RulesStay, ScenariosStay
<1>5. ASSUME NEW c \in Case, recordAppraisal(c) \/ reviseAppraisal(c) \/ recordSourceQuotation(c) \/ addAppraisalAttachment(c)
      PROVE  Kept
  <2>1. UNCHANGED floorVars /\ UNCHANGED <<deskHandoffs, today, cases, rules, scenarios>>
    BY <1>5 DEF recordAppraisal, reviseAppraisal, recordSourceQuotation, addAppraisalAttachment
  <2>2. AppraisalsOK'
    BY <1>0, <1>3, <1>5, AppraisalSteps
  <2> QED
    BY <1>0, <1>1, <1>2, <2>1, <2>2, HandoffsStay, CasesStay, RulesStay, ScenariosStay, ApprovalsStay
<1>6. ASSUME NEW rule \in RuleInput, recordRule(rule) PROVE Kept
  <2>1. UNCHANGED floorVars /\ UNCHANGED <<deskHandoffs, today, cases, appraisals, scenarios>>
    BY <1>6 DEF recordRule
  <2>2. rules' = Append(rules, rule) /\ rule \in RecordRuleInput
    BY <1>6, DeskingAssumption DEF recordRule
  <2>3. RulesOK'
    BY <1>0, <2>2, AppendedRow DEF RulesOK
  <2> QED
    BY <1>0, <1>1, <1>2, <2>1, <2>3, HandoffsStay, CasesStay, AppraisalsStay, ScenariosStay, ApprovalsStay
<1>7. ASSUME NEW c \in Case, NEW in \in ScenarioInput, buildScenario(c, in) PROVE Kept
  <2>1. UNCHANGED floorVars /\ UNCHANGED <<deskHandoffs, today, cases, appraisals, rules>>
    BY <1>7 DEF buildScenario
  <2>2. ScenariosOK' /\ ApprovalsOK'
    BY <1>0, <1>3, <1>7, VersionBuilt
  <2> QED
    BY <1>0, <1>1, <1>2, <2>1, <2>2, HandoffsStay, CasesStay, AppraisalsStay, RulesStay
<1>8. ASSUME NEW n \in DOMAIN scenarios, submitScenario(n) \/ expireScenario(n) PROVE Kept
  <2>1. UNCHANGED floorVars /\ UNCHANGED <<deskHandoffs, today, cases, appraisals, rules>>
    BY <1>8 DEF submitScenario, expireScenario
  <2>2. ScenariosOK' /\ ApprovalsOK'
    BY <1>0, <1>8, SubmissionAndExpiry
  <2> QED
    BY <1>0, <1>1, <1>2, <2>1, <2>2, HandoffsStay, CasesStay, AppraisalsStay, RulesStay
<1>9. ASSUME NEW u \in User, NEW n \in DOMAIN scenarios, NEW m \in DOMAIN scenarios, approveScenario(u, n, scenarios[m].out)
      PROVE  Kept
  <2>1. UNCHANGED floorVars /\ UNCHANGED <<deskHandoffs, today, appraisals, rules>>
    BY <1>9 DEF approveScenario
  <2>2. CasesOK' /\ ScenariosOK' /\ ApprovalsOK'
    BY <1>0, <1>9, ApprovalStep
  <2> QED
    BY <1>0, <1>1, <1>2, <2>1, <2>2, HandoffsStay, AppraisalsStay, RulesStay
<1>10. ASSUME NEW u \in User, NEW n \in DOMAIN scenarios, NEW m \in DOMAIN scenarios, rejectScenario(u, n, scenarios[m].out)
       PROVE  Kept
  <2>1. UNCHANGED floorVars /\ UNCHANGED <<deskHandoffs, today, cases, appraisals, rules>>
    BY <1>10 DEF rejectScenario
  <2>2. ScenariosOK' /\ ApprovalsOK'
    BY <1>0, <1>10, RejectionStep
  <2> QED
    BY <1>0, <1>1, <1>2, <2>1, <2>2, HandoffsStay, CasesStay, AppraisalsStay, RulesStay
<1>11. ASSUME dayPasses PROVE Kept
  <2>1. UNCHANGED floorVars /\ UNCHANGED <<deskHandoffs, cases, appraisals, rules, scenarios>>
    BY <1>11 DEF dayPasses
  <2>2. CasesOK'
    <3>1. today' \in 0..MaxDay
      BY <1>0, <1>11, DeskingAssumption DEF CasesOK, dayPasses
    <3> QED
      BY <1>0, <2>1, <3>1 DEF CasesOK
  <2> QED
    BY <1>0, <1>1, <1>2, <2>1, <2>2, HandoffsStay, AppraisalsStay, RulesStay, ScenariosStay, ApprovalsStay
<1>12. Kept
  BY <1>4, <1>5, <1>6, <1>7, <1>8, <1>9, <1>10, <1>11, Zenon DEF DeskingNext
<1> QED
  BY <1>12 DEF Kept

--------------------------------------------------------------------------------
(* The showroom *)

ShowroomInv == PartiesInv /\ StockInv /\ ListingsInv /\ SellingInv /\ DeskingInv

\* The showroom begins empty, in its invariant.
LEMMA ShowroomBegins == ShowroomInit => ShowroomInv
<1> SUFFICES ASSUME ShowroomInit PROVE ShowroomInv
  OBVIOUS
<1>0. PartiesInit /\ StockInit /\ ListingsInit /\ SellingInit /\ DeskingInit
  BY DEF ShowroomInit
<1>1. PartiesInv
  BY <1>0, CustomersBegin
<1>2. StockInv
  <2>1. StockTypeOK
    BY <1>0, StockAssumption DEF StockInit, StockTypeOK
  <2>2. Len(transfers) = 0
    BY <1>0 DEF StockInit
  <2> QED
    BY <2>1, <2>2 DEF StockInv, TransfersAgree
<1>3. ListingsInv
  <2>1. ListingsTyped
    BY <1>0, ListingAssumption DEF ListingsInit, ListingsTyped, ListingsTypeOK
  <2>2. \A l \in Listing : listings[l].state \notin Pending
    BY <1>0 DEF ListingsInit, NoListing, Pending
  <2> QED
    BY <2>1, <2>2 DEF ListingsInv, PendingBacked
<1>4. SellingInv
  <2>1. OpportunitiesOK /\ OwedOK /\ VisitsOK
    BY <1>0, SellingAssumption DEF SellingInit, OpportunitiesOK, OwedOK, VisitsOK
  <2>2. ShortlistOK
    BY <1>0 DEF SellingInit, ShortlistOK
  <2>3. DemosOK
    <3>1. demos \in Seq(DemonstrationView) /\ Len(demos) = 0
      BY <1>0 DEF SellingInit
    <3> QED
      BY <3>1 DEF DemosOK
  <2>4. FloorOK /\ HandoffsOK
    BY <1>0 DEF SellingInit, FloorOK, HandoffsOK
  <2>5. ReadingOK
    BY <1>0 DEF SellingInit, ReadingOK, RequestView
  <2>6. CarsHeld
    <3>1. \A k \in Clerk : reading[k].phase # "drive"
      BY <1>0 DEF SellingInit, NoRequest
    <3> QED
      BY <3>1 DEF CarsHeld
  <2> QED
    BY <2>1, <2>2, <2>3, <2>4, <2>5, <2>6 DEF SellingInv
<1>5. DeskingInv
  <2>1. CasesOK
    BY <1>0, DeskingAssumption DEF DeskingInit, CasesOK
  <2>2. AppraisalsOK
    <3>1. NoAppraisal \in AppraisalView
      BY DeskingAssumption DEF NoAppraisal, AppraisalView
    <3> QED
      BY <1>0, <3>1 DEF DeskingInit, AppraisalsOK
  <2>3. RulesOK /\ scenarios \in Seq(ScenarioRow) /\ DOMAIN scenarios = {}
    BY <1>0 DEF DeskingInit, RulesOK
  <2>4. \A c \in 1..MaxOpportunity : cases[c].state # "approved"
    BY <1>0 DEF DeskingInit, NoCase
  <2> QED
    BY <2>1, <2>2, <2>3, <2>4 DEF DeskingInv, ScenariosOK, ApprovalsOK
<1> QED
  BY <1>1, <1>2, <1>3, <1>4, <1>5 DEF ShowroomInv

\* Every step of every component keeps the invariant of the whole.
LEMMA ShowroomStep == ShowroomInv /\ [Next]_vars => ShowroomInv'
<1> SUFFICES ASSUME ShowroomInv, [Next]_vars PROVE ShowroomInv'
  OBVIOUS
<1>0. PartiesInv /\ StockInv /\ ListingsInv /\ SellingInv /\ DeskingInv
  BY DEF ShowroomInv
<1>1. CASE PartiesNext /\ UNCHANGED <<stockVars, listingVars, salesVars, deskVars>>
  BY <1>0, <1>1, PartiesStep, StockStays, ListingsStay, SellingStays, DeskingStays DEF ShowroomInv
<1>2. CASE StockNext /\ UNCHANGED <<listingVars, salesVars, deskVars>>
  BY <1>0, <1>2, StockStep, ListingsStay, SellingStays, DeskingStays DEF ShowroomInv
<1>3. CASE ListingsNext /\ UNCHANGED <<salesVars, deskVars>>
  BY <1>0, <1>3, ListingsStep, SellingStays, DeskingStays DEF ShowroomInv
<1>4. CASE SellingNext /\ UNCHANGED deskVars
  <2>1. SellingInv' /\ UNCHANGED <<partyVars, stockVars, listingVars>>
    BY <1>0, <1>4, SellingStep DEF inventoryVars
  <2> QED
    BY <1>0, <1>4, <2>1, CustomersStay, StockStays, ListingsStay, DeskingStays DEF ShowroomInv
<1>5. CASE DeskingNext
  <2>1. SellingInv' /\ DeskingInv' /\ UNCHANGED <<partyVars, stockVars, listingVars>>
    BY <1>0, <1>5, DeskingStep DEF inventoryVars
  <2> QED
    BY <1>0, <2>1, CustomersStay, StockStays, ListingsStay DEF ShowroomInv
<1>6. CASE UNCHANGED vars
  <2>1. UNCHANGED <<partyVars, stockVars, listingVars, salesVars, deskVars>>
    BY <1>6 DEF vars, inventoryVars
  <2> QED
    BY <1>0, <2>1, CustomersStay, StockStays, ListingsStay, SellingStays, DeskingStays DEF ShowroomInv
<1> QED
  BY <1>1, <1>2, <1>3, <1>4, <1>5, <1>6 DEF Next

\* The invariant of the whole showroom holds for every number of vehicles, opportunities,
\* visits, rules and versions: stock, listings, sales floor and desk stay consistent row by
\* row whatever their operations interleave (the packages inventory, sales and desking).
THEOREM ShowroomIsConsistent == ShowroomSpec => []ShowroomInv
<1> QED
  BY ShowroomBegins, ShowroomStep, PTL DEF ShowroomSpec

\* Two drives that are out never share a car, a driver or an escort, and no customer has
\* two vehicles selected (issueDemonstration, setVehicleStatus, returnDemonstration).
THEOREM DrivesAndSelectionsAreExclusiveAlways == ShowroomSpec => []DrivesAndSelectionsAreExclusive
<1>1. ShowroomInv => DrivesAndSelectionsAreExclusive
  BY SellingExcludes DEF ShowroomInv
<1> QED
  BY <1>1, ShowroomIsConsistent, PTL

\* An approved case has the one version its jacket is assembled from, decided by a manager
\* of its rooftop before the version ran out.
LEMMA ApprovedVersions == ASSUME DeskingInv PROVE ApprovedCaseHasItsVersion
<1>0. /\ cases \in [1..MaxOpportunity -> DeskingCaseView \cup {NoCase}] /\ ScenariosOK /\ ApprovalsOK
      /\ Case \subseteq 1..MaxOpportunity
  BY DEF DeskingInv, CasesOK, Case
<1>1. ASSUME NEW c \in Case, cases[c].state = "approved" PROVE Cardinality(getApprovedDeskingVersion(c)) = 1
  <2>1. PICK n \in DOMAIN scenarios : scenarios[n].case = c /\ scenarios[n].state = "approved"
    BY <1>0, <1>1 DEF ApprovalsOK
  <2>2. getApprovedDeskingVersion(c) = {n}
    BY <1>0, <2>1 DEF ApprovalsOK, getApprovedDeskingVersion, ScenariosOf
  <2> QED
    BY <2>2, FS_Singleton
<1>2. ASSUME NEW c \in Case, NEW n \in getApprovedDeskingVersion(c)
      PROVE  /\ scenarios[n].decision = "approved" /\ <<scenarios[n].decidedBy, cases[c].rooftop>> \in Manager
             /\ scenarios[n].decidedOn < scenarios[n].in.expiresAt
  BY <1>0, <1>2 DEF ApprovalsOK, GoodApproval, getApprovedDeskingVersion, ScenariosOf
<1> QED
  BY <1>1, <1>2 DEF ApprovedCaseHasItsVersion

\* The showroom's tables agree across components, with an open transfer at the vehicle's
\* rooftop, a waiting listing backed by its event and an approved case by its one version
\* (requestTransfer, dispatchDueListingEvents, approveScenario).
THEOREM ShowroomAgreesAlways == ShowroomSpec => []ShowroomAgrees
<1>1. ShowroomInv => ShowroomAgrees
  <2> SUFFICES ASSUME ShowroomInv PROVE ShowroomAgrees
    OBVIOUS
  <2>0. PartiesInv /\ StockInv /\ ListingsInv /\ SellingInv /\ DeskingInv
    BY DEF ShowroomInv
  <2>1. Range(rules) \subseteq RecordRuleInput
    BY <2>0 DEF DeskingInv, RulesOK, Range
  <2>2. \A n \in DOMAIN scenarios : scenarios[n].state \in ScenarioState
    BY <2>0, ScenarioTyped DEF DeskingInv, ScenarioRow
  <2>3. PartiesTypeOK /\ StockTypeOK /\ ListingsTypeOK /\ SellingTypeOK
    BY <2>0, SellingTypes DEF PartiesInv, StockInv, ListingsInv, ListingsTyped
  <2>4. ShowroomTypeOK
    BY <2>0, <2>1, <2>2, <2>3 DEF ShowroomTypeOK, DeskingInv, CasesOK, AppraisalsOK
  <2> QED
    BY <2>0, <2>4, TransfersStartThere, ListingsHaveEvents, ApprovedVersions DEF ShowroomAgrees
<1> QED
  BY <1>1, ShowroomIsConsistent, PTL

\* The lines of every version add up to the amount financed and its payments pay it back to
\* within the rounding of each payment, for every rule book, amount, rate and term
\* (computeScenario, applyRate, monthlyPayment).
THEOREM FiguresAddUpAlways == ShowroomSpec => []FiguresAddUp
<1>1. ShowroomInv => FiguresAddUp
  <2> SUFFICES ASSUME ShowroomInv, NEW n \in DOMAIN scenarios
               PROVE  LET out == scenarios[n].out
                          term == scenarios[n].in.term IN
                      /\ out.financed = Total([i \in DOMAIN out.lines |-> out.lines[i].amount])
                      /\ term # 0 => 2 * term * out.monthly + term >= 2 * out.financed
    BY DEF FiguresAddUp
  <2>1. scenarios[n] \in ScenarioRow /\ PricedAsShown(scenarios[n])
    BY ScenarioTyped DEF ShowroomInv, DeskingInv
  <2>2. /\ scenarios[n].in \in ScenarioInputs /\ scenarios[n].applied \in SUBSET RecordRuleInput
        /\ IsFiniteSet(scenarios[n].applied) /\ scenarios[n].out = computeScenario(scenarios[n].in, scenarios[n].applied)
    BY <2>1 DEF ScenarioRow, PricedAsShown
  <2> QED
    BY <2>2, ScenarioAddsUp
<1> QED
  BY <1>1, ShowroomIsConsistent, PTL

================================================================================

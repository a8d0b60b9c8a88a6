----------------------------- MODULE SumsProofs -----------------------------
(***************************************************************************)
(* Facts about SumTo for every length and every integer-valued function,   *)
(* and about sets that gain or lose a member.                              *)
(* Induction is carried out through the least element of the set of        *)
(* counterexamples (LeastNat), which rests on the well-foundedness of < on *)
(* the naturals.                                                           *)
(***************************************************************************)
EXTENDS Sums, FiniteSetTheorems, TLAPS, WellFoundedInduction

\* Every non-empty set of naturals has a least element: the induction
\* principle used below for the loops over map keys in the contracts.
LEMMA LeastNat ==
    ASSUME NEW T \in SUBSET Nat, T # {}
    PROVE  \E x \in T : \A y \in T : x <= y
<1> DEFINE R == {ss \in Nat \X Nat : ss[1] < ss[2]}
<1>1. IsWellFoundedOn(R, Nat)
  BY NatLessThanWellFounded DEF OpToRel
<1>2. T \subseteq Nat
  OBVIOUS
<1> HIDE DEF R
<1>3. PICK x \in T : \A y \in T : ~(<<y, x>> \in R)
  BY <1>1, <1>2, WFMin
<1>4. ASSUME NEW y \in T PROVE x <= y
  <2>1. x \in Nat /\ y \in Nat
    OBVIOUS
  <2>2. SUFFICES ASSUME y < x PROVE FALSE
    BY <2>1
  <2>3. <<y, x>> \in R
    BY <2>1, <2>2 DEF R
  <2> QED
    BY <2>3, <1>3
<1> QED
  BY <1>4

\* s is the table of prefix sums of f up to n, as the accumulating loop builds it.
PrefixTable(f, n, s) ==
    /\ s \in [0..n -> Int]
    /\ s = [k \in 0..n |-> IF k = 0 THEN 0 ELSE s[k-1] + f[k]]

\* The table of prefix sums exists for every length.
LEMMA PrefixTableExists ==
    ASSUME NEW N \in Nat, NEW f \in [1..N -> Int]
    PROVE  \A n \in 0..N : \E s : PrefixTable(f, n, s)
<1> DEFINE T == {n \in 0..N : ~ \E s : PrefixTable(f, n, s)}
<1> SUFFICES ASSUME T # {} PROVE FALSE
  OBVIOUS
<1>1. PICK x \in T : \A y \in T : x <= y
  <2>1. T \in SUBSET Nat
    OBVIOUS
  <2> HIDE DEF T
  <2> QED
    BY <2>1, LeastNat
<1>2. CASE x = 0
  <2>1. PrefixTable(f, 0, [k \in 0..0 |-> 0])
    BY DEF PrefixTable
  <2> QED
    BY <2>1, <1>2
<1>3. CASE x # 0
  <2>1. x - 1 \in 0..N /\ ~(x <= x - 1) /\ x \in 1..N
    BY <1>3
  <2>2. PICK s : PrefixTable(f, x-1, s)
    BY <2>1, <1>1
  <2> DEFINE u == [k \in 0..x |-> IF k = x THEN s[x-1] + f[x] ELSE s[k]]
  <2>3. PrefixTable(f, x, u)
    BY <2>1, <2>2 DEF PrefixTable
  <2> QED
    BY <2>3
<1> QED
  BY <1>2, <1>3

\* Tables of two functions that agree up to k agree at k.
LEMMA PrefixTableUnique ==
    ASSUME NEW m \in Nat, NEW n \in Nat, NEW f, NEW g, NEW s, NEW t,
           PrefixTable(f, m, s), PrefixTable(g, n, t),
           NEW k \in 0..m, k \in 0..n,
           \A j \in 1..k : f[j] = g[j]
    PROVE  s[k] = t[k]
<1> DEFINE T == {j \in 0..k : s[j] # t[j]}
<1> SUFFICES ASSUME T # {} PROVE FALSE
  OBVIOUS
<1>1. PICK x \in T : \A y \in T : x <= y
  <2>1. T \in SUBSET Nat
    OBVIOUS
  <2> HIDE DEF T
  <2> QED
    BY <2>1, LeastNat
<1>2. x # 0
  BY DEF PrefixTable
<1>3. x - 1 \in 0..k /\ ~(x <= x - 1) /\ x \in 1..k
  BY <1>2
<1>4. s[x-1] = t[x-1]
  BY <1>1, <1>3
<1>5. s[x] = s[x-1] + f[x] /\ t[x] = t[x-1] + g[x]
  BY <1>3 DEF PrefixTable
<1> QED
  BY <1>3, <1>4, <1>5

\* SumTo(f, n) is the last entry of the table.
LEMMA SumIsTable ==
    ASSUME NEW N \in Nat, NEW f \in [1..N -> Int], NEW n \in 0..N
    PROVE  \E s : PrefixTable(f, n, s) /\ SumTo(f, n) = s[n]
<1> DEFINE S == CHOOSE S : S = [k \in 0..n |-> IF k = 0 THEN 0 ELSE S[k-1] + f[k]]
<1>1. SumTo(f, n) = S[n]
  BY DEF SumTo
<1>2. PICK s : PrefixTable(f, n, s)
  BY PrefixTableExists
<1>3. S = [k \in 0..n |-> IF k = 0 THEN 0 ELSE S[k-1] + f[k]]
  BY <1>2 DEF PrefixTable
<1> HIDE DEF S
<1> DEFINE T == {j \in 0..n : S[j] \notin Int}
<1>4. T = {}
  <2> SUFFICES ASSUME T # {} PROVE FALSE
    OBVIOUS
  <2>1. PICK x \in T : \A y \in T : x <= y
    <3>1. T \in SUBSET Nat
      OBVIOUS
    <3> HIDE DEF T
    <3> QED
      BY <3>1, LeastNat
  <2>2. x # 0
    BY <1>3
  <2>3. x - 1 \in 0..n /\ ~(x <= x - 1) /\ x \in 1..n /\ x \in 1..N
    BY <2>2
  <2>4. S[x-1] \in Int /\ f[x] \in Int
    BY <2>1, <2>3
  <2>5. S[x] = S[x-1] + f[x]
    BY <1>3, <2>3
  <2> QED
    BY <2>4, <2>5
<1>5. S \in [0..n -> Int]
  <2>1. \A j \in 0..n : S[j] \in Int
    BY <1>4
  <2>2. S = [k \in 0..n |-> S[k]]
    BY <1>3
  <2> QED
    BY <2>1, <2>2
<1>6. PrefixTable(f, n, S)
  BY <1>3, <1>5 DEF PrefixTable
<1> QED
  BY <1>1, <1>6

\* The loop's invariant: the accumulator starts at 0 and each key adds its amount.
THEOREM SumSteps ==
    ASSUME NEW N \in Nat, NEW f \in [1..N -> Int]
    PROVE  /\ SumTo(f, 0) = 0
           /\ \A n \in 0..N : SumTo(f, n) \in Int
           /\ \A n \in 1..N : SumTo(f, n) = SumTo(f, n-1) + f[n]
<1>1. SumTo(f, 0) = 0
  <2>1. PICK s : PrefixTable(f, 0, s) /\ SumTo(f, 0) = s[0]
    BY SumIsTable
  <2> QED
    BY <2>1 DEF PrefixTable
<1>2. ASSUME NEW n \in 0..N PROVE SumTo(f, n) \in Int
  <2>1. PICK s : PrefixTable(f, n, s) /\ SumTo(f, n) = s[n]
    BY SumIsTable
  <2> QED
    BY <2>1 DEF PrefixTable
<1>3. ASSUME NEW n \in 1..N PROVE SumTo(f, n) = SumTo(f, n-1) + f[n]
  <2>0. n - 1 \in 0..N /\ n \in 0..N /\ n - 1 \in 0..n /\ n - 1 \in Nat /\ n \in Nat
         /\ n - 1 \in 0..(n-1)
    OBVIOUS
  <2>1. PICK s : PrefixTable(f, n, s) /\ SumTo(f, n) = s[n]
    BY <2>0, SumIsTable
  <2>2. PICK t : PrefixTable(f, n-1, t) /\ SumTo(f, n-1) = t[n-1]
    BY <2>0, SumIsTable
  <2>3. s[n-1] = t[n-1]
    <3>1. \A j \in 1..(n-1) : f[j] = f[j]
      OBVIOUS
    <3> QED
      BY <2>0, <2>1, <2>2, <3>1, PrefixTableUnique
  <2>4. s[n] = s[n-1] + f[n]
    BY <2>0, <2>1 DEF PrefixTable
  <2> QED
    BY <2>1, <2>2, <2>3, <2>4
<1> QED
  BY <1>1, <1>2, <1>3

\* Two maps that agree on the first n keys have the same sum up to n.
THEOREM SumSame ==
    ASSUME NEW N \in Nat, NEW f \in [1..N -> Int], NEW g \in [1..N -> Int],
           NEW n \in 0..N, \A k \in 1..n : f[k] = g[k]
    PROVE  SumTo(f, n) = SumTo(g, n)
<1>1. PICK s : PrefixTable(f, n, s) /\ SumTo(f, n) = s[n]
  BY SumIsTable
<1>2. PICK t : PrefixTable(g, n, t) /\ SumTo(g, n) = t[n]
  BY SumIsTable
<1>3. n \in 0..n /\ n \in Nat
  OBVIOUS
<1>4. s[n] = t[n]
  BY <1>1, <1>2, <1>3, PrefixTableUnique
<1> QED
  BY <1>1, <1>2, <1>4

\* A map update that changes the amount of one key changes the sum by the same amount.
THEOREM SumUpdate ==
    ASSUME NEW N \in Nat, NEW f \in [1..N -> Int], NEW g \in [1..N -> Int],
           NEW i \in 1..N, \A k \in 1..N : k # i => f[k] = g[k]
    PROVE  SumTo(g, N) = SumTo(f, N) + g[i] - f[i]
<1> DEFINE T == {n \in 0..N : n >= i /\ SumTo(g, n) # SumTo(f, n) + g[i] - f[i]}
<1>0. f[i] \in Int /\ g[i] \in Int /\ N >= i
  OBVIOUS
<1> SUFFICES ASSUME T # {} PROVE FALSE
  BY <1>0
<1>1. PICK x \in T : \A y \in T : x <= y
  <2>1. T \in SUBSET Nat
    OBVIOUS
  <2> HIDE DEF T
  <2> QED
    BY <2>1, LeastNat
<1>2. x \in 1..N /\ x - 1 \in 0..N /\ x - 1 < x
  OBVIOUS
<1>3. /\ SumTo(f, x) = SumTo(f, x-1) + f[x]
      /\ SumTo(g, x) = SumTo(g, x-1) + g[x]
      /\ SumTo(f, x-1) \in Int /\ SumTo(g, x-1) \in Int
  BY <1>2, SumSteps
<1>4. CASE x = i
  <2>1. \A k \in 1..(x-1) : f[k] = g[k]
    BY <1>4
  <2>2. SumTo(f, x-1) = SumTo(g, x-1)
    BY <1>2, <2>1, SumSame
  <2> QED
    BY <1>0, <1>3, <1>4, <2>2
<1>5. CASE x # i
  <2>1. x - 1 \notin T
    BY <1>1, <1>2
  <2>2. x - 1 >= i
    BY <1>5
  <2>3. SumTo(g, x-1) = SumTo(f, x-1) + g[i] - f[i]
    BY <1>2, <2>1, <2>2
  <2>4. f[x] = g[x] /\ f[x] \in Int
    BY <1>2, <1>5
  <2> QED
    BY <1>0, <1>3, <2>3, <2>4
<1> QED
  BY <1>4, <1>5

\* The difference between two maps that dominate each other key by key never
\* shrinks along the keys.
LEMMA SumGapGrows ==
    ASSUME NEW N \in Nat, NEW f \in [1..N -> Int], NEW g \in [1..N -> Int],
           \A k \in 1..N : f[k] <= g[k],
           NEW m \in 0..N
    PROVE  \A n \in m..N : SumTo(g, n) - SumTo(f, n) >= SumTo(g, m) - SumTo(f, m)
<1> DEFINE T == {n \in m..N : ~(SumTo(g, n) - SumTo(f, n) >= SumTo(g, m) - SumTo(f, m))}
<1> SUFFICES ASSUME T # {} PROVE FALSE
  OBVIOUS
<1>0. SumTo(f, m) \in Int /\ SumTo(g, m) \in Int
  BY SumSteps
<1>1. PICK x \in T : \A y \in T : x <= y
  <2>1. T \in SUBSET Nat
    OBVIOUS
  <2> HIDE DEF T
  <2> QED
    BY <2>1, LeastNat
<1>2. x # m
  BY <1>0
<1>3. x \in 1..N /\ x - 1 \in m..N /\ x - 1 \in 0..N /\ x - 1 < x
  BY <1>2
<1>4. SumTo(g, x-1) - SumTo(f, x-1) >= SumTo(g, m) - SumTo(f, m)
  BY <1>1, <1>3
<1>5. /\ SumTo(f, x) = SumTo(f, x-1) + f[x]
      /\ SumTo(g, x) = SumTo(g, x-1) + g[x]
      /\ SumTo(f, x-1) \in Int /\ SumTo(g, x-1) \in Int
  BY <1>3, SumSteps
<1>6. f[x] <= g[x] /\ f[x] \in Int /\ g[x] \in Int
  BY <1>3
<1> QED
  BY <1>0, <1>4, <1>5, <1>6

\* Caps add up: amounts capped key by key have a sum capped by the sum of the caps.
THEOREM SumMonotone ==
    ASSUME NEW N \in Nat, NEW f \in [1..N -> Int], NEW g \in [1..N -> Int],
           \A k \in 1..N : f[k] <= g[k]
    PROVE  SumTo(f, N) <= SumTo(g, N)
<1>1. SumTo(f, 0) = 0 /\ SumTo(g, 0) = 0 /\ SumTo(f, N) \in Int /\ SumTo(g, N) \in Int
  BY SumSteps
<1>2. 0 \in 0..N /\ N \in 0..N
  OBVIOUS
<1>3. SumTo(g, N) - SumTo(f, N) >= SumTo(g, 0) - SumTo(f, 0)
  BY <1>2, SumGapGrows
<1> QED
  BY <1>1, <1>3

\* Amounts capped key by key whose sum reaches the sum of the caps are all at
\* their cap: the argument of the comment in release_funds that a Ready split
\* has every balance equal to its obligation.
THEOREM SumTight ==
    ASSUME NEW N \in Nat, NEW f \in [1..N -> Int], NEW g \in [1..N -> Int],
           \A k \in 1..N : f[k] <= g[k],
           SumTo(f, N) = SumTo(g, N)
    PROVE  \A k \in 1..N : f[k] = g[k]
<1> SUFFICES ASSUME NEW k \in 1..N, f[k] # g[k] PROVE FALSE
  OBVIOUS
<1>1. k \in 0..N /\ k - 1 \in 0..N /\ 0 \in 0..N /\ N \in k..N /\ N \in 0..N
  OBVIOUS
<1>2. SumTo(g, N) - SumTo(f, N) >= SumTo(g, k) - SumTo(f, k)
  BY <1>1, SumGapGrows
<1>3. SumTo(g, k-1) - SumTo(f, k-1) >= SumTo(g, 0) - SumTo(f, 0)
  BY <1>1, SumGapGrows
<1>4. /\ SumTo(f, k) = SumTo(f, k-1) + f[k]
      /\ SumTo(g, k) = SumTo(g, k-1) + g[k]
      /\ SumTo(f, k-1) \in Int /\ SumTo(g, k-1) \in Int
      /\ SumTo(f, 0) = 0 /\ SumTo(g, 0) = 0
      /\ SumTo(f, N) \in Int
  BY <1>1, SumSteps
<1>5. f[k] < g[k] /\ f[k] \in Int /\ g[k] \in Int
  OBVIOUS
<1> QED
  BY <1>2, <1>3, <1>4, <1>5

\* Keys that carry nothing do not contribute: the sum stops growing after m.
THEOREM SumTail ==
    ASSUME NEW N \in Nat, NEW f \in [1..N -> Int], NEW m \in 0..N,
           \A k \in (m+1)..N : f[k] = 0
    PROVE  SumTo(f, N) = SumTo(f, m)
<1> DEFINE T == {n \in m..N : SumTo(f, n) # SumTo(f, m)}
<1>0. N \in m..N
  OBVIOUS
<1> SUFFICES ASSUME T # {} PROVE FALSE
  BY <1>0
<1>1. PICK x \in T : \A y \in T : x <= y
  <2>1. T \in SUBSET Nat
    OBVIOUS
  <2> HIDE DEF T
  <2> QED
    BY <2>1, LeastNat
<1>2. x # m
  OBVIOUS
<1>3. x \in 1..N /\ x - 1 \in m..N /\ x - 1 \in 0..N /\ x - 1 < x /\ x \in (m+1)..N
  BY <1>2
<1>4. SumTo(f, x-1) = SumTo(f, m)
  BY <1>1, <1>3
<1>5. SumTo(f, x) = SumTo(f, x-1) + f[x] /\ SumTo(f, x-1) \in Int
  BY <1>3, SumSteps
<1> QED
  BY <1>3, <1>4, <1>5

\* Non-negative amounts add up to a non-negative sum, no smaller than any prefix.
THEOREM SumNonNegative ==
    ASSUME NEW N \in Nat, NEW f \in [1..N -> Nat], NEW m \in 0..N
    PROVE  SumTo(f, m) \in Nat /\ SumTo(f, m) <= SumTo(f, N)
<1> DEFINE zero == [k \in 1..N |-> 0]
<1>0. zero \in [1..N -> Int] /\ f \in [1..N -> Int] /\ \A k \in 1..N : zero[k] <= f[k]
  OBVIOUS
<1>1. 0 \in 0..N /\ N \in m..N /\ m \in 0..N /\ N \in 0..N
  OBVIOUS
<1>2. ASSUME NEW n \in 0..N PROVE SumTo(zero, n) = 0
  <2> DEFINE z == [k \in 1..n |-> 0]
  <2>1. zero \in [1..N -> Int] /\ n \in Nat
    BY <1>0
  <2>2. z \in [1..n -> Int] /\ 0 \in 0..n /\ \A k \in (0+1)..n : z[k] = 0
    OBVIOUS
  <2>3. SumTo(z, n) = SumTo(z, 0) /\ SumTo(z, 0) = 0
    <3> HIDE DEF z
    <3> QED
      BY <2>1, <2>2, SumTail, SumSteps
  <2>4. PICK s : PrefixTable(zero, n, s) /\ SumTo(zero, n) = s[n]
    <3> HIDE DEF zero
    <3> QED
      BY <2>1, SumIsTable
  <2>5. n \in 0..n
    OBVIOUS
  <2>6. PICK t : PrefixTable(z, n, t) /\ SumTo(z, n) = t[n]
    <3> HIDE DEF z
    <3> QED
      BY <2>1, <2>2, <2>5, SumIsTable
  <2>7. \A k \in 1..n : zero[k] = z[k]
    OBVIOUS
  <2>8. s[n] = t[n]
    <3> HIDE DEF z, zero
    <3> QED
      BY <2>1, <2>4, <2>5, <2>6, <2>7, PrefixTableUnique
  <2> QED
    BY <2>3, <2>4, <2>6, <2>8
<1> HIDE DEF zero
<1>3. \A n \in m..N : SumTo(f, n) - SumTo(zero, n) >= SumTo(f, m) - SumTo(zero, m)
  BY <1>0, SumGapGrows
<1>4. \A n \in 0..N : SumTo(f, n) - SumTo(zero, n) >= SumTo(f, 0) - SumTo(zero, 0)
  BY <1>0, <1>1, SumGapGrows
<1>5. SumTo(f, 0) = 0 /\ SumTo(f, m) \in Int /\ SumTo(f, N) \in Int
  BY <1>0, <1>1, SumSteps
<1>6. SumTo(zero, m) = 0 /\ SumTo(zero, N) = 0 /\ SumTo(zero, 0) = 0
  BY <1>1, <1>2
<1> QED
  BY <1>1, <1>3, <1>4, <1>5, <1>6

\* A bound that holds key by key between scaled amounts holds between the
\* scaled sums: the rounding argument behind the pro-rata distribution.
THEOREM SumScale ==
    ASSUME NEW N \in Nat, NEW f \in [1..N -> Int], NEW g \in [1..N -> Int],
           NEW c \in Int, NEW d \in Int,
           \A k \in 1..N : d * f[k] <= c * g[k]
    PROVE  \A n \in 0..N : d * SumTo(f, n) <= c * SumTo(g, n)
<1> DEFINE T == {n \in 0..N : ~(d * SumTo(f, n) <= c * SumTo(g, n))}
<1> SUFFICES ASSUME T # {} PROVE FALSE
  OBVIOUS
<1>1. PICK x \in T : \A y \in T : x <= y
  <2>1. T \in SUBSET Nat
    OBVIOUS
  <2> HIDE DEF T
  <2> QED
    BY <2>1, LeastNat
<1>2. x # 0
  <2>1. SumTo(f, 0) = 0 /\ SumTo(g, 0) = 0
    BY SumSteps
  <2> QED
    BY <2>1
<1>3. x \in 1..N /\ x - 1 \in 0..N /\ x - 1 < x
  BY <1>2
<1>4. d * SumTo(f, x-1) <= c * SumTo(g, x-1)
  BY <1>1, <1>3
<1>5. /\ SumTo(f, x) = SumTo(f, x-1) + f[x]
      /\ SumTo(g, x) = SumTo(g, x-1) + g[x]
      /\ SumTo(f, x-1) \in Int /\ SumTo(g, x-1) \in Int
      /\ f[x] \in Int /\ g[x] \in Int
  BY <1>3, SumSteps
<1>6. d * f[x] <= c * g[x]
  BY <1>3
<1>7. \A a, b, u, v \in Int : d * a <= c * b /\ d * u <= c * v
                                 => d * (a + u) <= c * (b + v)
  OBVIOUS
<1> QED
  BY <1>4, <1>5, <1>6, <1>7

\* Key by key, h is f + c * g.
Combined(h, f, g, c, N) == \A k \in 1..N : h[k] = f[k] + c * g[k]

\* The sum of f + c * g, key by key, is the sum of f and c times the sum of g: a
\* deposit that adds the same amount per token to everyone.
THEOREM SumCombine ==
    ASSUME NEW N \in Nat, NEW f \in [1..N -> Int], NEW g \in [1..N -> Int],
           NEW h \in [1..N -> Int], NEW c \in Int, Combined(h, f, g, c, N)
    PROVE  \A n \in 0..N : SumTo(h, n) = SumTo(f, n) + c * SumTo(g, n)
<1> DEFINE T == {n \in 0..N : ~(SumTo(h, n) = SumTo(f, n) + c * SumTo(g, n))}
<1> SUFFICES ASSUME T # {} PROVE FALSE
  OBVIOUS
<1>1. PICK x \in T : \A y \in T : x <= y
  <2>1. T \in SUBSET Nat
    OBVIOUS
  <2> HIDE DEF T
  <2> QED
    BY <2>1, LeastNat
<1>2. x # 0
  <2>1. SumTo(f, 0) = 0 /\ SumTo(g, 0) = 0 /\ SumTo(h, 0) = 0
    BY SumSteps
  <2> QED
    BY <2>1
<1>3. x \in 1..N /\ x - 1 \in 0..N /\ x - 1 < x
  BY <1>2
<1>4. SumTo(h, x-1) = SumTo(f, x-1) + c * SumTo(g, x-1)
  BY <1>1, <1>3
<1>5. /\ SumTo(f, x) = SumTo(f, x-1) + f[x]
      /\ SumTo(g, x) = SumTo(g, x-1) + g[x]
      /\ SumTo(h, x) = SumTo(h, x-1) + h[x]
      /\ SumTo(f, x-1) \in Int /\ SumTo(g, x-1) \in Int
      /\ f[x] \in Int /\ g[x] \in Int
  BY <1>3, SumSteps
<1>6. h[x] = f[x] + c * g[x]
  BY <1>3 DEF Combined
<1> DEFINE a == SumTo(f, x-1)
           b == SumTo(g, x-1)
           u == f[x]
           v == g[x]
<1>7. SumTo(h, x) = (a + c * b) + (u + c * v)
  BY <1>4, <1>5, <1>6
<1>8. a \in Int /\ b \in Int /\ u \in Int /\ v \in Int
  BY <1>5
<1>9. SumTo(f, x) = a + u /\ SumTo(g, x) = b + v
  BY <1>5
<1> HIDE DEF a, b, u, v
<1>10. (a + c * b) + (u + c * v) = (a + u) + c * (b + v)
  BY <1>8
<1> QED
  BY <1>1, <1>7, <1>9, <1>10

-----------------------------------------------------------------------------
\* A set that gains or loses at most one member.
LEMMA OneMemberMore ==
    ASSUME NEW S, NEW T, NEW x, IsFiniteSet(S), T = S \cup {x}, x \notin S
    PROVE  IsFiniteSet(T) /\ Cardinality(S) \in Nat /\ Cardinality(T) = Cardinality(S) + 1
BY FS_AddElement, FS_CardinalityType

LEMMA OneMemberLess ==
    ASSUME NEW S, NEW T, NEW x, IsFiniteSet(S), T = S \ {x}, x \in S
    PROVE  IsFiniteSet(T) /\ Cardinality(S) \in Nat /\ Cardinality(T) \in Nat
           /\ Cardinality(T) = Cardinality(S) - 1
BY FS_RemoveElement, FS_CardinalityType
=============================================================================

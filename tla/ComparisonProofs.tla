--------------------------- MODULE ComparisonProofs ---------------------------
(***************************************************************************)
(* Proofs about Comparison for every structure, every set of runs and any  *)
(* number of cases and samples.  The first part is about Statistics: what  *)
(* the tests return, and that the running minimum of benjamini_hochberg is *)
(* the step-up procedure.  The second part is about the specification.     *)
(***************************************************************************)
EXTENDS Comparison, TLAPS, FiniteSetTheorems, SequenceTheorems, WellFoundedInduction, NaturalsInduction

(* A set of natural numbers that is not empty has a least element. *)
LEMMA LeastIndex ==
    ASSUME NEW I \in SUBSET Nat, I # {}
    PROVE  \E i \in I : \A k \in I : i <= k
<1> DEFINE R == {ss \in Nat \X Nat : ss[1] < ss[2]}
<1>1. \A k, i \in Nat : k < i => <<k, i>> \in R
  <2> SUFFICES ASSUME NEW k \in Nat, NEW i \in Nat, k < i PROVE <<k, i>> \in R
    OBVIOUS
  <2>1. <<k, i>> \in Nat \X Nat /\ <<k, i>>[1] = k /\ <<k, i>>[2] = i
    OBVIOUS
  <2> QED
    BY <2>1
<1>2. IsWellFoundedOn(R, Nat)
  BY NatLessThanWellFounded DEF OpToRel
<1> HIDE DEF R
<1>3. PICK i \in I : \A k \in I : ~(<<k, i>> \in R)
  BY <1>2, WFMin
<1>4. ASSUME NEW k \in I PROVE i <= k
  <2>1. k \in Nat /\ i \in Nat /\ ~(k < i)
    BY <1>1, <1>3, <1>4
  <2> QED
    BY <2>1
<1> QED
  BY <1>4

LEMMA MinLeast ==
    ASSUME NEW S \in SUBSET Nat, S # {}
    PROVE  Min(S) \in S /\ \A j \in S : Min(S) <= j
<1>1. PICK i \in S : \A j \in S : i <= j
  BY LeastIndex
<1>. QED BY <1>1 DEF Min

(* The total of a sequence: the definition by recursion has a solution for *)
(* every length, by the least length that has none.                        *)
LEMMA TotalType ==
    ASSUME NEW T \in {Int, Nat}, NEW s \in Seq(T)
    PROVE  Total(s) \in T
<1>. DEFINE Sum(n, f) == f = [i \in 0 .. n |-> IF i = 0 THEN 0 ELSE f[i - 1] + s[i]]
            Bad == {n \in 0 .. Len(s) : ~ \E f \in [0 .. n -> T] : Sum(n, f)}
<1>0. \A x, y \in T : x + y \in T
  OBVIOUS
<1>1. Bad = {}
  <2>. SUFFICES ASSUME Bad # {} PROVE FALSE
    OBVIOUS
  <2>1. PICK n \in Bad : \A m \in Bad : n <= m
    <3>1. Bad \in SUBSET Nat
      OBVIOUS
    <3>. QED BY <3>1, LeastIndex
  <2>2. n \in 0 .. Len(s) /\ Len(s) \in Nat
    OBVIOUS
  <2>3. n # 0
    <3>1. [i \in 0 .. 0 |-> 0] \in [0 .. 0 -> T] /\ Sum(0, [i \in 0 .. 0 |-> 0])
      OBVIOUS
    <3>. QED BY <3>1
  <2>4. PICK f \in [0 .. n - 1 -> T] : Sum(n - 1, f)
    <3>1. n - 1 \in 0 .. Len(s) /\ ~ (n <= n - 1)
      BY <2>2, <2>3
    <3>2. n - 1 \notin Bad
      BY <2>1, <3>1
    <3>. QED BY <3>1, <3>2
  <2>. DEFINE g == [i \in 0 .. n |-> IF i = n THEN f[n - 1] + s[n] ELSE f[i]]
  <2>5. f[n - 1] \in T /\ s[n] \in T /\ f[n - 1] + s[n] \in T
    <3>1. n - 1 \in 0 .. n - 1 /\ n \in 1 .. Len(s)
      BY <2>2, <2>3
    <3>2. f[n - 1] \in T /\ s[n] \in T
      BY <2>4, <3>1
    <3>. QED BY <1>0, <3>2
  <2>6. g \in [0 .. n -> T]
    BY <2>2, <2>5
  <2>7. \A i \in 0 .. n : g[i] = IF i = 0 THEN 0 ELSE g[i - 1] + s[i]
    <3>. TAKE i \in 0 .. n
    <3>1. CASE i = n
      BY <2>2, <2>3, <3>1
    <3>2. CASE i # n
      <4>1. i \in 0 .. n - 1 /\ (i # 0 => i - 1 \in 0 .. n /\ i - 1 # n)
        BY <2>2, <3>2
      <4>2. f[i] = IF i = 0 THEN 0 ELSE f[i - 1] + s[i]
        BY <2>4, <4>1
      <4>. QED BY <3>2, <4>1, <4>2
    <3>. QED BY <3>1, <3>2
  <2>8. Sum(n, g)
    BY <2>7
  <2>. QED BY <2>6, <2>8
<1>2. PICK f \in [0 .. Len(s) -> T] : Sum(Len(s), f)
  BY <1>1, SMTT(60)
<1>. DEFINE upto == CHOOSE f_1 : Sum(Len(s), f_1)
<1>3. Sum(Len(s), upto)
  BY <1>2
<1>4. \A i \in 0 .. Len(s) : upto[i] = f[i]
  <2>. DEFINE Off == {i \in 0 .. Len(s) : upto[i] # f[i]}
  <2>. SUFFICES ASSUME Off # {} PROVE FALSE
    OBVIOUS
  <2>1. PICK i \in Off : \A j \in Off : i <= j
    <3>1. Off \in SUBSET Nat
      OBVIOUS
    <3>. QED BY <3>1, LeastIndex
  <2>2. upto[i] = (IF i = 0 THEN 0 ELSE upto[i - 1] + s[i]) /\ f[i] = IF i = 0 THEN 0 ELSE f[i - 1] + s[i]
    BY <1>2, <1>3
  <2>3. CASE i = 0
    BY <2>2, <2>3
  <2>4. CASE i # 0
    <3>1. i - 1 \in 0 .. Len(s) /\ ~ (i <= i - 1)
      BY <2>4
    <3>2. upto[i - 1] = f[i - 1]
      BY <2>1, <3>1
    <3>. QED BY <2>2, <2>4, <3>2
  <2>. QED BY <2>3, <2>4
<1>5. Total(s) = upto[Len(s)]
  BY DEF Total
<1>6. Len(s) \in 0 .. Len(s)
  OBVIOUS
<1>7. f[Len(s)] \in T /\ upto[Len(s)] = f[Len(s)]
  BY <1>2, <1>4, <1>6
<1>. QED BY <1>5, <1>7, Zenon

(* The product of a natural number and a square. *)
LEMMA SquareNat ==
    /\ \A a, b \in Nat : a * b \in Nat
    /\ \A a, b \in Int : a * b \in Int
    /\ \A a \in Nat, g \in Int : a * g * g \in Nat
    /\ \A a \in Nat, g \in Int : g * g * a \in Nat
<1>1. \A a, b \in Nat : a * b \in Nat
  OBVIOUS
<1>2. \A a, b \in Int : a * b \in Int
  OBVIOUS
<1>3. \A g \in Int : g * g \in Nat
  <2>. TAKE g \in Int
  <2>1. CASE g >= 0
    BY <1>1, <2>1
  <2>2. CASE g < 0
    <3>1. (-g) \in Nat /\ g * g = (-g) * (-g)
      BY <2>2
    <3>. QED BY <1>1, <3>1
  <2>. QED BY <2>1, <2>2
<1>4. ASSUME NEW a \in Nat, NEW g \in Int
      PROVE  a * g * g = a * (g * g) /\ g * g * a \in Nat /\ a * (g * g) \in Nat
  BY <1>1, <1>3
<1>. QED BY <1>1, <1>2, <1>4

(* A probability is between 0 and One. *)
LEMMA TwoSidedRange ==
    ASSUME NEW num \in Nat, NEW den \in Int
    PROVE  TwoSided(num, den) \in 0 .. One
<1>. DEFINE S == {row.p : row \in {r \in Normal : r.z2 * den <= One * num}}
<1>1. S \subseteq 0 .. One
  BY NormalAssumption
<1>2. One \in S
  <2>. DEFINE row == [z2 |-> 0, p |-> One]
  <2>1. row \in Normal /\ row.z2 = 0 /\ row.p = One
    BY NormalAssumption
  <2>2. 0 * den = 0 /\ One * num >= 0
    BY DEF One
  <2>3. row.z2 * den <= One * num
    BY <2>1, <2>2
  <2>. QED BY <2>1, <2>3
<1>3. S \in SUBSET Nat /\ S # {}
  <2>1. 0 .. One \subseteq Nat
    BY DEF One
  <2>. HIDE DEF S
  <2>. QED BY <1>1, <1>2, <2>1
<1>4. TwoSided(num, den) = Min(S)
  BY DEF TwoSided
<1>. QED BY <1>1, <1>3, <1>4, MinLeast

LEMMA TwoProportionRange ==
    ASSUME NEW bs \in Int, NEW bn \in Nat, NEW cs \in Int, NEW cn \in Nat
    PROVE  /\ TwoProportion(bs, bn, cs, cn) \in 0 .. One
           /\ bn = 0 \/ cn = 0 => TwoProportion(bs, bn, cs, cn) = One
<1>. DEFINE gap == cs * bn - bs * cn
            all == bs + cs
<1>1. gap \in Int /\ all \in Int
  BY SquareNat
<1>2. gap * gap * (bn + cn) \in Nat /\ bn * cn * all * (bn + cn - all) \in Int
  <2>. HIDE DEF gap, all
  <2>1. bn * cn \in Int /\ bn + cn - all \in Int /\ bn + cn \in Nat
    BY <1>1, SquareNat
  <2>2. bn * cn * all \in Int
    BY <1>1, <2>1, SquareNat
  <2>. QED BY <1>1, <2>1, <2>2, SquareNat
<1>3. TwoSided(gap * gap * (bn + cn), bn * cn * all * (bn + cn - all)) \in 0 .. One
  BY <1>2, TwoSidedRange
<1>4. One \in 0 .. One
  BY DEF One
<1>. QED BY <1>3, <1>4 DEF TwoProportion

LEMMA CountsNat ==
    ASSUME NEW s \in Seq(Nat), NEW v \in Nat
    PROVE  Occurs(v, s) \in Nat /\ Below(v, s) \in Nat
<1>1. IsFiniteSet(DOMAIN s)
  BY FS_Interval
<1>2. {i \in DOMAIN s : s[i] = v} \in SUBSET DOMAIN s /\ {i \in DOMAIN s : s[i] < v} \in SUBSET DOMAIN s
  OBVIOUS
<1>3. IsFiniteSet({i \in DOMAIN s : s[i] = v}) /\ IsFiniteSet({i \in DOMAIN s : s[i] < v})
  BY <1>1, <1>2, FS_Subset
<1>. QED BY <1>3, FS_CardinalityType DEF Occurs, Below

LEMMA MannWhitneyRange ==
    ASSUME NEW x \in Seq(Nat), NEW y \in Seq(Nat)
    PROVE  /\ MannWhitney(x, y) \in 0 .. One
           /\ x = <<>> \/ y = <<>> => MannWhitney(x, y) = One
<1>. DEFINE n1 == Len(x)
            n2 == Len(y)
            n == n1 + n2
            Tied(v) == Occurs(v, x) + Occurs(v, y)
            Rank2(v) == 2 * (Below(v, x) + Below(v, y)) + Tied(v) + 1
            ranks == [i \in 1 .. n1 |-> Rank2(x[i])]
            xties == [i \in 1 .. n1 |-> Tied(x[i]) * Tied(x[i]) - 1]
            yties == [i \in 1 .. n2 |-> Tied(y[i]) * Tied(y[i]) - 1]
            gap == Total(ranks) - n1 * (n1 + 1) - n1 * n2
            ties == Total(xties) + Total(yties)
            spread == n * (n * n - 1) - ties
            off == IF gap < 0 THEN gap + 1 ELSE gap - 1
<1>1. n1 \in Nat /\ n2 \in Nat
  OBVIOUS
<1>2. \A v \in Nat : Tied(v) \in Nat /\ Rank2(v) \in Int /\ Tied(v) * Tied(v) - 1 \in Int
  <2>. TAKE v \in Nat
  <2>1. Occurs(v, x) \in Nat /\ Below(v, x) \in Nat /\ Occurs(v, y) \in Nat /\ Below(v, y) \in Nat
    BY CountsNat
  <2>2. Tied(v) \in Nat /\ Rank2(v) \in Int
    BY <2>1
  <2>. HIDE DEF Tied
  <2>. QED BY <2>2, SquareNat
<1>3. ranks \in Seq(Int) /\ xties \in Seq(Int) /\ yties \in Seq(Int)
  <2>1. \A i \in 1 .. n1 : x[i] \in Nat
    OBVIOUS
  <2>2. \A i \in 1 .. n2 : y[i] \in Nat
    OBVIOUS
  <2>. HIDE DEF Tied, Rank2
  <2>3. ranks \in [1 .. n1 -> Int] /\ xties \in [1 .. n1 -> Int] /\ yties \in [1 .. n2 -> Int]
    BY <1>2, <2>1, <2>2
  <2>. QED BY <1>1, <2>3, SeqDef, SMTT(60)
<1>4. Total(ranks) \in Int /\ Total(xties) \in Int /\ Total(yties) \in Int
  BY <1>3, TotalType
<1>5. gap \in Int
  <2>. HIDE DEF ranks, n1, n2
  <2>1. n1 * (n1 + 1) \in Int /\ n1 * n2 \in Int
    BY <1>1, SquareNat
  <2>. QED BY <1>4, <2>1
<1>6. off \in Int
  <2>. HIDE DEF gap
  <2>. QED BY <1>5
<1>7. n1 # 0 => 3 * n * (n - 1) * off * off \in Nat
  <2>. HIDE DEF off, n1, n2
  <2>1. n1 # 0 => n \in Nat /\ n - 1 \in Nat
    BY <1>1
  <2>. HIDE DEF n
  <2>2. n1 # 0 => 3 * n \in Nat /\ 3 * n * (n - 1) \in Nat
    BY <2>1, SquareNat
  <2>. QED BY <1>6, <2>2, SquareNat
<1>8. n1 * n2 * spread \in Int
  <2>. HIDE DEF xties, yties, n1, n2
  <2>1. n \in Int /\ ties \in Int
    BY <1>1, <1>4
  <2>2. n1 * n2 \in Int
    BY <1>1, SquareNat
  <2>. HIDE DEF n, ties
  <2>3. n * n - 1 \in Int
    BY <2>1, SquareNat
  <2>4. n * (n * n - 1) \in Int
    BY <2>1, <2>3, SquareNat
  <2>5. spread \in Int
    BY <2>1, <2>4
  <2>. QED BY <2>2, <2>5, SquareNat
<1>9. n1 # 0 => TwoSided(3 * n * (n - 1) * off * off, n1 * n2 * spread) \in 0 .. One
  BY <1>7, <1>8, TwoSidedRange
<1>10. MannWhitney(x, y) =
         IF n1 = 0 \/ n2 = 0 \/ spread = 0 THEN One
         ELSE TwoSided(3 * n * (n - 1) * off * off, n1 * n2 * spread)
  BY DEF MannWhitney
<1>11. x = <<>> \/ y = <<>> => n1 = 0 \/ n2 = 0
  OBVIOUS
<1>. HIDE DEF n1, n2, n, spread, off
<1>. QED BY <1>9, <1>10, <1>11 DEF One

-----------------------------------------------------------------------------
(* The order of a family. *)

LEMMA UpToOrder ==
    ASSUME NEW a \in Nat \X Nat, NEW b \in Nat \X Nat, NEW c \in Nat \X Nat
    PROVE  /\ UpTo(a, a)
           /\ UpTo(a, b) \/ UpTo(b, a)
           /\ UpTo(a, b) /\ UpTo(b, a) => a = b
           /\ UpTo(a, b) /\ UpTo(b, c) => UpTo(a, c)
BY DEF UpTo

LEMMA FewerIn ==
    ASSUME NEW T, IsFiniteSet(T), NEW S \in SUBSET T
    PROVE  /\ Cardinality(S) \in Nat /\ Cardinality(T) \in Nat
           /\ Cardinality(S) <= Cardinality(T)
           /\ S # T => Cardinality(S) < Cardinality(T)
BY FS_Subset, FS_CardinalityType

Families(D) == [D -> 0 .. One]
Ahead(p, a) == {b \in DOMAIN p : p[b] < p[a] \/ (p[b] = p[a] /\ UpTo(b, a))}

LEMMA Probable ==
    ASSUME NEW D, NEW p \in Families(D)
    PROVE  DOMAIN p = D /\ \A b \in D : p[b] \in Nat /\ p[b] <= One
<1>1. \A x \in 0 .. One : x \in Nat /\ x <= One
  BY DEF One
<1>2. DOMAIN p = D /\ \A b \in D : p[b] \in 0 .. One
  BY DEF Families
<1>. QED BY <1>1, <1>2

(* A rank is a place among the tests, and a test of a higher rank is not   *)
(* less probable.                                                          *)
LEMMA RankFacts ==
    ASSUME NEW D \in SUBSET (Nat \X Nat), IsFiniteSet(D), NEW p \in Families(D),
           NEW a \in D, NEW c \in D
    PROVE  /\ Cardinality(D) \in Nat
           /\ Rank(p, a) \in 1 .. Cardinality(D)
           /\ Rank(p, a) = Cardinality(Ahead(p, a))
           /\ p[c] < p[a] => Rank(p, c) < Rank(p, a)
           /\ p[c] = p[a] /\ UpTo(c, a) /\ c # a => Rank(p, c) < Rank(p, a)
<1>1. DOMAIN p = D /\ p[a] \in Nat /\ p[c] \in Nat /\ \A b \in D : p[b] \in Nat
  BY Probable
<1>2. Ahead(p, a) \in SUBSET D /\ Ahead(p, c) \in SUBSET D
  BY <1>1 DEF Ahead
<1>3. IsFiniteSet(Ahead(p, a)) /\ Rank(p, a) = Cardinality(Ahead(p, a))
      /\ Rank(p, c) = Cardinality(Ahead(p, c))
  BY <1>2, FS_Subset DEF Rank, Ahead
<1>4. a \in Ahead(p, a)
  BY <1>1, UpToOrder DEF Ahead
<1>5. Cardinality(Ahead(p, a)) # 0
  BY <1>3, <1>4, FS_EmptySet
<1>6. ASSUME p[c] < p[a] \/ (p[c] = p[a] /\ UpTo(c, a) /\ c # a)
      PROVE  Rank(p, c) < Rank(p, a)
  <2>1. Ahead(p, c) \subseteq Ahead(p, a)
    <3>. SUFFICES ASSUME NEW b \in D, b \in Ahead(p, c) PROVE b \in Ahead(p, a)
      BY <1>2
    <3>1. p[b] < p[c] \/ (p[b] = p[c] /\ UpTo(b, c))
      BY DEF Ahead
    <3>2. UpTo(b, c) /\ UpTo(c, a) => UpTo(b, a)
      BY UpToOrder
    <3>3. p[b] < p[a] \/ (p[b] = p[a] /\ UpTo(b, a))
      BY <1>1, <1>6, <3>1, <3>2
    <3>. QED BY <1>1, <3>3 DEF Ahead
  <2>2. a \notin Ahead(p, c)
    <3>. SUFFICES ASSUME a \in Ahead(p, c) PROVE FALSE
      OBVIOUS
    <3>1. p[a] < p[c] \/ (p[a] = p[c] /\ UpTo(a, c))
      BY DEF Ahead
    <3>2. UpTo(a, c) /\ UpTo(c, a) => a = c
      BY UpToOrder
    <3>. QED BY <1>1, <1>6, <3>1, <3>2
  <2>. QED BY <1>3, <1>4, <2>1, <2>2, FewerIn
<1>. QED BY <1>1, <1>2, <1>3, <1>5, <1>6, FewerIn

(* The last of the tests that are as probable as a. *)
LEMMA LastTie ==
    ASSUME NEW D \in SUBSET (Nat \X Nat), IsFiniteSet(D), NEW p \in Families(D), NEW a \in D
    PROVE  \E t \in D : p[t] = p[a] /\ Rank(p, t) = Cardinality({b \in D : p[b] <= p[a]})
<1>. DEFINE Ties == {t \in D : p[t] = p[a]}
            n == Cardinality(D)
            Lasts == {n - Rank(p, t) : t \in Ties}
<1>1. \A t \in D : n \in Nat /\ Rank(p, t) \in 1 .. n
  BY RankFacts
<1>2. Lasts \in SUBSET Nat /\ n - Rank(p, a) \in Lasts
  BY <1>1
<1>3. PICK l \in Lasts : \A k \in Lasts : l <= k
  BY <1>2, LeastIndex
<1>4. PICK t \in Ties : l = n - Rank(p, t)
  OBVIOUS
<1>5. \A s \in Ties : Rank(p, s) <= Rank(p, t)
  BY <1>1, <1>3, <1>4
<1>6. \A s \in Ties : UpTo(s, t)
  <2>. SUFFICES ASSUME NEW s \in Ties, ~ UpTo(s, t) PROVE FALSE
    OBVIOUS
  <2>1. UpTo(t, s) /\ t # s
    BY UpToOrder
  <2>2. Rank(p, t) < Rank(p, s)
    BY <2>1, RankFacts
  <2>. QED BY <1>1, <1>5, <2>2
<1>7. DOMAIN p = D /\ \A b \in D : p[b] \in Nat
  BY Probable
<1>8. Ahead(p, t) = {b \in D : p[b] <= p[a]}
  <2>1. ASSUME NEW b \in D PROVE b \in Ahead(p, t) <=> p[b] <= p[a]
    <3>1. p[t] = p[a] /\ p[b] \in Nat /\ p[a] \in Nat
      BY <1>7
    <3>2. p[b] = p[a] => UpTo(b, t)
      BY <1>6
    <3>3. b \in Ahead(p, t) <=> p[b] < p[t] \/ (p[b] = p[t] /\ UpTo(b, t))
      BY <1>7 DEF Ahead
    <3>. QED BY <3>1, <3>2, <3>3
  <2>. QED BY <1>7, <2>1 DEF Ahead
<1>9. Rank(p, t) = Cardinality(Ahead(p, t))
  BY RankFacts
<1>. QED BY <1>8, <1>9

(* An exact division by a rank. *)
LEMMA ExactShare ==
    ASSUME NEW s \in Nat \ {0}, NEW r \in Nat \ {0}, s % r = 0,
           NEW u \in Nat, NEW alpha \in Nat
    PROVE  /\ (u * s) \div r \in Nat
           /\ (u * s) \div r < alpha * s <=> u < alpha * r
           /\ alpha * r <= u => alpha * s <= (u * s) \div r
<1>. DEFINE q == s \div r
<1>1. q \in Nat /\ s = r * q
  OBVIOUS
<1>2. q # 0
  BY <1>1
<1>. HIDE DEF q
<1>3. u * q \in Nat /\ u * s = (u * q) * r
  <2>1. u * q \in Nat
    BY <1>1, SquareNat
  <2>2. u * s = (u * q) * r
    BY <1>1
  <2>. QED BY <2>1, <2>2
<1>4. \A m \in Nat : (m * r) \div r = m
  OBVIOUS
<1>5. (u * s) \div r = u * q
  BY <1>3, <1>4
<1>6. alpha * s = (alpha * r) * q /\ alpha * r \in Nat
  BY <1>1, SquareNat
<1>7. \A x, y \in Nat : (x * q < y * q <=> x < y) /\ (x <= y => x * q <= y * q)
  BY <1>1, <1>2
<1>. QED BY <1>3, <1>5, <1>6, <1>7

(* What a test has after the correction, and the step-up procedure.        *)
LEMMA AdjustedFacts ==
    ASSUME NEW D \in SUBSET (Nat \X Nat), IsFiniteSet(D), NEW p \in Families(D), NEW a \in D,
           \A n \in 1 .. Cardinality(D) : Scale % n = 0
    PROVE  /\ Adjusted(p, a) \in 0 .. One * Scale
           /\ p[a] = One => Adjusted(p, a) = One * Scale
           /\ Significant(Adjusted(p, a), Alpha) <=>
                \E b \in D :
                    /\ p[a] <= p[b]
                    /\ p[b] * Cardinality(D) < Alpha * Cardinality({c \in D : p[c] <= p[b]})
<1>. DEFINE n == Cardinality(D)
            Later == {b \in D : Rank(p, b) >= Rank(p, a)}
            Shares == {Share(p, b) : b \in Later}
            S == {One * Scale} \cup Shares
            Within(b) == Cardinality({c \in D : p[c] <= p[b]})
<1>1. DOMAIN p = D /\ \A b \in D : p[b] \in Nat /\ p[b] <= One
  BY Probable
<1>2. /\ One \in Nat /\ Scale \in Nat \ {0} /\ Alpha \in Nat /\ Alpha <= One
      /\ One * Scale \in Nat /\ Alpha * Scale \in Nat /\ Alpha * Scale <= One * Scale
  <2>1. One \in Nat /\ Scale \in Nat \ {0} /\ Alpha \in Nat /\ Alpha <= One
    BY ScaleAssumption, ThresholdAssumption DEF One
  <2>. QED BY <2>1, ScaleAssumption, SquareNat
<1>3. \A b \in D : n \in Nat /\ Rank(p, b) \in 1 .. n
  BY RankFacts
<1>. HIDE DEF n
<1>4. ASSUME NEW b \in D
      PROVE  /\ Share(p, b) \in Nat
             /\ Share(p, b) < Alpha * Scale <=> p[b] * n < Alpha * Rank(p, b)
             /\ p[b] = One => One * Scale <= Share(p, b)
  <2>. DEFINE r == Rank(p, b)
              u == p[b] * n
  <2>1. r \in Nat \ {0} /\ r \in 1 .. n /\ r <= n
    BY <1>3
  <2>2. Scale % r = 0
    BY <2>1 DEF n
  <2>3. u \in Nat
    BY <1>1, <1>3, SquareNat
  <2>4. Share(p, b) = (u * Scale) \div r
    BY <1>1 DEF Share, n
  <2>5. p[b] = One => One * r <= u
    BY <1>2, <1>3, <2>1 DEF One
  <2>. HIDE DEF r, u
  <2>6. /\ (u * Scale) \div r \in Nat
        /\ (u * Scale) \div r < Alpha * Scale <=> u < Alpha * r
    BY <1>2, <2>1, <2>2, <2>3, ExactShare
  <2>7. One * r <= u => One * Scale <= (u * Scale) \div r
    BY <1>2, <2>1, <2>2, <2>3, ExactShare
  <2>. QED BY <2>4, <2>5, <2>6, <2>7 DEF r, u
<1>5. S \in SUBSET Nat /\ S # {}
  BY <1>2, <1>4
<1>6. Adjusted(p, a) = Min(S)
  BY <1>1 DEF Adjusted
<1>7. Min(S) \in S /\ \A x \in S : Min(S) <= x
  BY <1>5, MinLeast
<1>. DEFINE m == Min(S)
<1>8. m \in Nat /\ m <= One * Scale
  BY <1>2, <1>5, <1>7
<1>9. \A b \in Later : m <= Share(p, b)
  BY <1>7
<1>10. m = One * Scale \/ \E b \in Later : m = Share(p, b)
  BY <1>7
<1>. HIDE DEF m
<1>11. \A b \in Later : p[a] <= p[b]
  <2>. SUFFICES ASSUME NEW b \in Later, ~ (p[a] <= p[b]) PROVE FALSE
    OBVIOUS
  <2>1. p[b] < p[a]
    BY <1>1
  <2>2. Rank(p, b) < Rank(p, a)
    BY <2>1, RankFacts
  <2>. QED BY <1>3, <2>2
<1>12. p[a] = One => m = One * Scale
  <2>. SUFFICES ASSUME p[a] = One, NEW b \in Later, m = Share(p, b) PROVE m = One * Scale
    BY <1>10
  <2>1. p[b] = One
    BY <1>1, <1>2, <1>11
  <2>. QED BY <1>2, <1>4, <1>8, <2>1
<1>13. ASSUME m < Alpha * Scale
       PROVE  \E b \in D : p[a] <= p[b] /\ p[b] * n < Alpha * Within(b)
  <2>1. PICK b \in Later : m = Share(p, b)
    BY <1>2, <1>8, <1>10, <1>13
  <2>2. p[b] * n < Alpha * Rank(p, b)
    BY <1>4, <1>13, <2>1
  <2>3. PICK t \in D : p[t] = p[b] /\ Rank(p, t) = Within(b)
    BY LastTie
  <2>4. Rank(p, b) <= Within(b)
    <3>1. Ahead(p, b) \in SUBSET {c \in D : p[c] <= p[b]}
      BY <1>1 DEF Ahead
    <3>2. IsFiniteSet({c \in D : p[c] <= p[b]})
      BY FS_Subset
    <3>3. Cardinality(Ahead(p, b)) <= Within(b)
      BY <3>1, <3>2, FS_Subset
    <3>. QED BY <3>3, RankFacts
  <2>5. Alpha * Rank(p, b) <= Alpha * Within(b)
    <3>1. Rank(p, b) \in Nat /\ Within(b) \in Nat
      BY <1>3, <2>3
    <3>2. \A x, y, z \in Nat : x <= y => z * x <= z * y
      BY SquareNat
    <3>. HIDE DEF Within
    <3>. QED BY <1>2, <2>4, <3>1, <3>2
  <2>6. p[b] * n \in Nat /\ Alpha * Rank(p, b) \in Nat /\ Alpha * Within(b) \in Nat
    BY <1>1, <1>2, <1>3, <2>3, SquareNat
  <2>7. p[b] * n < Alpha * Within(b)
    <3>. HIDE DEF Within
    <3>. QED BY <2>2, <2>5, <2>6
  <2>. QED BY <1>11, <2>7
<1>14. ASSUME NEW b \in D, p[a] <= p[b], p[b] * n < Alpha * Within(b)
       PROVE  m < Alpha * Scale
  <2>1. PICK t \in D : p[t] = p[b] /\ Rank(p, t) = Within(b)
    BY LastTie
  <2>2. Share(p, t) < Alpha * Scale
    BY <1>4, <1>14, <2>1
  <2>3. t \in Later
    <3>1. Ahead(p, a) \in SUBSET {c \in D : p[c] <= p[b]}
      BY <1>1, <1>14 DEF Ahead
    <3>2. IsFiniteSet({c \in D : p[c] <= p[b]})
      BY FS_Subset
    <3>3. Cardinality(Ahead(p, a)) <= Within(b)
      BY <3>1, <3>2, FS_Subset
    <3>. QED BY <2>1, <3>3, RankFacts
  <2>. QED BY <1>2, <1>4, <1>8, <1>9, <2>2, <2>3
<1>15. Significant(Adjusted(p, a), Alpha) <=> m < Alpha * Scale
  BY <1>6 DEF Significant, m
<1>16. Adjusted(p, a) = m
  BY <1>6 DEF m
<1>17. m \in 0 .. One * Scale
  BY <1>2, <1>8
<1>18. m < Alpha * Scale <=> \E b \in D : p[a] <= p[b] /\ p[b] * n < Alpha * Within(b)
  BY <1>13, <1>14
<1>. QED BY <1>12, <1>15, <1>16, <1>17, <1>18, Zenon DEF n

-----------------------------------------------------------------------------
(* The deltas of one case. *)

SignalSet == ({"agent"} \X Range(Agents)) \cup ({"tool"} \X Range(Tools))
             \cup {<<m, m>> : m \in Range(Metrics)}
Names == Range(Agents) \cup Range(Tools) \cup Range(Metrics)

DeltaRecords ==
    [kind : Kinds, of : Names, gap : Int, unit : Nat \ {0}, p : 0 .. One,
     adjusted : 0 .. One * Scale, significant : BOOLEAN, weak : BOOLEAN, verdict : Verdicts]

(* A delta's verdict is that of its effect and of its significance. *)
Coherent(d) ==
    /\ d.significant = Significant(d.adjusted, Alpha)
    /\ d.verdict = ApplySignificance(EffectVerdict(d.kind, d.gap, d.unit), d.significant)

LEMMA SignalFacts ==
    /\ Signals \in Seq(SignalSet)
    /\ Len(Signals) \in Nat /\ DOMAIN Signals = 1 .. Len(Signals)
    /\ \A k \in DOMAIN Signals : Signals[k] \in SignalSet
<1>. DEFINE a == [i \in DOMAIN Agents |-> <<"agent", Agents[i]>>]
            t == [i \in DOMAIN Tools |-> <<"tool", Tools[i]>>]
            m == [i \in DOMAIN Metrics |-> <<Metrics[i], Metrics[i]>>]
<1>1. \A A : \A s \in Seq(A) : Len(s) \in Nat /\ DOMAIN s = 1 .. Len(s) /\ \A i \in DOMAIN s : s[i] \in Range(s)
  BY DEF Range
<1>2. Metrics \in Seq(Range(Metrics))
  <2>1. Metrics \in [1 .. 3 -> {"latency_ms", "total_tokens", "error_rate"}]
    BY DEF Metrics
  <2>2. Metrics \in [1 .. 3 -> Range(Metrics)]
    BY <2>1 DEF Range
  <2>. QED BY <2>2, SeqDef
<1>3. a \in Seq(SignalSet)
  <2>1. a \in [1 .. Len(Agents) -> SignalSet] /\ Len(Agents) \in Nat
    BY <1>1, ListAssumption DEF SignalSet
  <2>. QED BY <2>1, SeqDef
<1>4. t \in Seq(SignalSet)
  <2>1. t \in [1 .. Len(Tools) -> SignalSet] /\ Len(Tools) \in Nat
    BY <1>1, ListAssumption DEF SignalSet
  <2>. QED BY <2>1, SeqDef
<1>5. m \in Seq(SignalSet)
  <2>1. m \in [1 .. Len(Metrics) -> SignalSet] /\ Len(Metrics) \in Nat
    BY <1>1, <1>2 DEF SignalSet
  <2>. QED BY <2>1, SeqDef
<1>. HIDE DEF a, t, m
<1>6. a \o t \o m \in Seq(SignalSet)
  BY <1>3, <1>4, <1>5
<1>7. Signals = a \o t \o m
  BY Zenon DEF Signals, a, t, m
<1>. QED BY <1>6, <1>7

LEMMA MetricNames == Range(Metrics) = {"latency_ms", "total_tokens", "error_rate"}
BY DEF Range, Metrics

LEMMA SideFacts ==
    ASSUME NEW side \in Sides
    PROVE  /\ side \in Seq(Runs) /\ Len(side) \in Nat /\ DOMAIN side = 1 .. Len(side)
           /\ \A i \in DOMAIN side : side[i] \in Trajectories
           /\ side = <<>> <=> Len(side) = 0
<1>1. PICK n \in 0 .. MaxRuns : side \in [1 .. n -> Runs]
  BY DEF Sides
<1>2. n \in Nat
  BY <1>1, BoundsAssumption
<1>3. side \in Seq(Runs)
  BY <1>1, <1>2, SeqDef
<1>. QED BY <1>3, RunsAssumption

LEMMA ValuesFacts ==
    ASSUME NEW signal \in SignalSet, NEW side \in Sides
    PROVE  /\ Values(signal, side) \in Seq(Nat)
           /\ Len(Values(signal, side)) = Len(side)
           /\ side = <<>> <=> Values(signal, side) = <<>>
<1>1. ASSUME NEW run \in Trajectories PROVE Value(signal, run) \in Nat
  <2>1. /\ run.calls \in [Range(Tools) -> Nat] /\ run.latency \in Nat /\ run.tokens \in Nat
    BY DEF Trajectories
  <2>2. CASE signal \in {"agent"} \X Range(Agents)
    BY <2>2 DEF Value
  <2>3. CASE signal \in {"tool"} \X Range(Tools)
    BY <2>1, <2>3 DEF Value
  <2>4. CASE signal \in {<<m, m>> : m \in Range(Metrics)}
    BY <2>1, <2>4, MetricNames DEF Value
  <2>. QED BY <2>2, <2>3, <2>4 DEF SignalSet
<1>2. Values(signal, side) \in [1 .. Len(side) -> Nat] /\ Len(side) \in Nat
  BY <1>1, SideFacts DEF Values
<1>3. Values(signal, side) \in Seq(Nat)
  BY <1>2, SeqDef
<1>4. Len(Values(signal, side)) = Len(side)
  BY <1>2, <1>3
<1>. QED BY <1>3, <1>4, SideFacts

LEMMA PValueFacts ==
    ASSUME NEW signal \in SignalSet, NEW b \in Sides, NEW c \in Sides
    PROVE  /\ PValue(signal, b, c) \in 0 .. One
           /\ b = <<>> \/ c = <<>> => PValue(signal, b, c) = One
<1>. DEFINE bs == Values(signal, b)
            cs == Values(signal, c)
<1>1. /\ bs \in Seq(Nat) /\ Len(bs) = Len(b) /\ (b = <<>> <=> bs = <<>>)
      /\ cs \in Seq(Nat) /\ Len(cs) = Len(c) /\ (c = <<>> <=> cs = <<>>)
  BY ValuesFacts
<1>2. /\ Len(b) \in Nat /\ (b = <<>> <=> Len(b) = 0)
      /\ Len(c) \in Nat /\ (c = <<>> <=> Len(c) = 0)
  BY SideFacts
<1>. HIDE DEF bs, cs
<1>3. Total(bs) \in Nat /\ Total(cs) \in Nat
  BY <1>1, TotalType
<1>4. /\ TwoProportion(Total(bs), Len(bs), Total(cs), Len(cs)) \in 0 .. One
      /\ b = <<>> \/ c = <<>> => TwoProportion(Total(bs), Len(bs), Total(cs), Len(cs)) = One
  <2>1. Total(bs) \in Int /\ Total(cs) \in Int /\ Len(bs) \in Nat /\ Len(cs) \in Nat
    BY <1>1, <1>2, <1>3
  <2>2. b = <<>> \/ c = <<>> => Len(bs) = 0 \/ Len(cs) = 0
    BY <1>1, <1>2
  <2>. QED BY <2>1, <2>2, TwoProportionRange
<1>5. /\ MannWhitney(bs, cs) \in 0 .. One
      /\ b = <<>> \/ c = <<>> => MannWhitney(bs, cs) = One
  BY <1>1, MannWhitneyRange
<1>6. PValue(signal, b, c) = IF signal[1] \in Rates
                             THEN TwoProportion(Total(bs), Len(bs), Total(cs), Len(cs))
                             ELSE MannWhitney(bs, cs)
  BY DEF PValue, bs, cs
<1>. QED BY <1>4, <1>5, <1>6

LEMMA EffectFacts ==
    ASSUME NEW kind, NEW gap, NEW unit, NEW significant \in BOOLEAN
    PROVE  /\ EffectVerdict(kind, gap, unit) \in Verdicts
           /\ ApplySignificance(EffectVerdict(kind, gap, unit), significant) \in Verdicts
           /\ ApplySignificance(EffectVerdict(kind, gap, unit), significant) = "fail" <=>
                significant /\ 100 * Abs(gap) >= Fail[kind] * unit
BY DEF EffectVerdict, ApplySignificance, Verdicts

(* What a case is compared in, before any correction. *)
LEMMA DeltaFacts ==
    ASSUME NEW signal \in SignalSet, NEW b \in Sides, NEW c \in Sides, NEW d,
           d = Delta(signal, b, c)
    PROVE  /\ d \in DeltaRecords /\ Coherent(d)
           /\ d.kind = signal[1] /\ d.of = signal[2] /\ d.adjusted = d.p * Scale
           /\ b = <<>> \/ c = <<>> => d.p = One
<1>. DEFINE before == Total(Values(signal, b))
            after == Total(Values(signal, c))
            gap == after * AtLeastOne(Len(b)) - before * AtLeastOne(Len(c))
            unit == AtLeastOne(Len(b)) * AtLeastOne(Len(c))
            p == PValue(signal, b, c)
            adjusted == p * Scale
            significant == Significant(adjusted, Alpha)
            lowPower == Len(b) < MinSamples \/ Len(c) < MinSamples
            verdict_1 == ApplySignificance(EffectVerdict(signal[1], gap, unit), significant)
<1>1. d = [kind |-> signal[1], of |-> signal[2], gap |-> gap, unit |-> unit,
           p |-> p, adjusted |-> adjusted, significant |-> significant, weak |-> lowPower,
           verdict |-> verdict_1]
  BY DEF Delta
<1>2. before \in Nat /\ after \in Nat
  BY ValuesFacts, TotalType
<1>3. AtLeastOne(Len(b)) \in Nat \ {0} /\ AtLeastOne(Len(c)) \in Nat \ {0}
  BY SideFacts DEF AtLeastOne
<1>4. gap \in Int /\ unit \in Nat \ {0}
  <2>. HIDE DEF before, after
  <2>1. \A x, y \in Nat \ {0} : x * y \in Nat \ {0}
    OBVIOUS
  <2>2. after * AtLeastOne(Len(b)) \in Int /\ before * AtLeastOne(Len(c)) \in Int
    BY <1>2, <1>3, SquareNat
  <2>. QED BY <1>3, <2>1, <2>2
<1>5. p \in 0 .. One /\ (b = <<>> \/ c = <<>> => p = One)
  BY PValueFacts
<1>6. adjusted \in 0 .. One * Scale
  <2>. HIDE DEF p
  <2>1. p \in Nat /\ p <= One /\ One \in Nat /\ Scale \in Nat
    BY <1>5, ScaleAssumption DEF One
  <2>2. \A x, y, z \in Nat : x <= y => x * z <= y * z
    BY SquareNat
  <2>3. p * Scale <= One * Scale
    BY <2>1, <2>2
  <2>. QED BY <2>1, <2>3, SquareNat
<1>7. signal[1] \in Kinds /\ signal[2] \in Names
  BY DEF SignalSet, Kinds, Names
<1>8. significant \in BOOLEAN /\ lowPower \in BOOLEAN
  BY DEF Significant
<1>9. verdict_1 \in Verdicts
  BY <1>8, EffectFacts
<1>. HIDE DEF gap, unit, p, significant, lowPower
<1>10. d \in DeltaRecords
  <2>. HIDE DEF adjusted, verdict_1
  <2>. QED BY <1>1, <1>4, <1>5, <1>6, <1>7, <1>8, <1>9 DEF DeltaRecords
<1>11. d.significant = Significant(d.adjusted, Alpha)
  BY <1>1 DEF significant
<1>12. d.verdict = ApplySignificance(EffectVerdict(d.kind, d.gap, d.unit), d.significant)
  BY <1>1
<1>13. Coherent(d)
  BY <1>11, <1>12 DEF Coherent
<1>. QED BY <1>1, <1>5, <1>10, <1>13

(* A reconsidered delta is the same test with another probability. *)
LEMMA ReconsiderFacts ==
    ASSUME NEW d \in DeltaRecords, NEW adjusted \in 0 .. One * Scale, NEW e,
           e = Reconsider(d, adjusted)
    PROVE  /\ e \in DeltaRecords /\ Coherent(e)
           /\ e.kind = d.kind /\ e.of = d.of /\ e.p = d.p /\ e.adjusted = adjusted
<1>. DEFINE significant == Significant(adjusted, Alpha)
            verdict_1 == ApplySignificance(EffectVerdict(d.kind, d.gap, d.unit), significant)
<1>1. e = [d EXCEPT !.adjusted = adjusted, !.significant = significant, !.verdict = verdict_1]
  BY DEF Reconsider
<1>2. significant \in BOOLEAN
  BY DEF Significant
<1>3. verdict_1 \in Verdicts
  BY <1>2, EffectFacts
<1>. HIDE DEF significant, verdict_1
<1>4. /\ e \in DeltaRecords
      /\ e.kind = d.kind /\ e.of = d.of /\ e.p = d.p /\ e.adjusted = adjusted
      /\ e.gap = d.gap /\ e.unit = d.unit /\ e.significant = significant /\ e.verdict = verdict_1
  BY <1>1, <1>2, <1>3 DEF DeltaRecords
<1>. QED BY <1>4 DEF Coherent, significant, verdict_1

-----------------------------------------------------------------------------
(* The inductive invariant. *)

CaseDeltas == UNION {[K -> DeltaRecords] : K \in SUBSET (DOMAIN Signals)}

(* The deltas of a case are those of its samples; without samples on a     *)
(* side nothing is ever significant.                                       *)
Fits(ds, b, c) ==
    \A k \in DOMAIN ds :
        /\ Coherent(ds[k])
        /\ ds[k].kind = Signals[k][1] /\ ds[k].of = Signals[k][2]
        /\ b = <<>> \/ c = <<>> => ds[k].p = One /\ ds[k].adjusted = One * Scale

ListInv ==
    /\ samples \in Seq(Sides \X Sides)
    /\ deltas \in Seq(CaseDeltas)
    /\ overall \in Seq(Verdicts)
    /\ evals \in Seq(Range(evals))
    /\ Len(deltas) = Len(samples) /\ Len(overall) = Len(samples)
    /\ Len(samples) <= Cases /\ Len(evals) <= Cases

FitInv == \A i \in DOMAIN deltas : Fits(deltas[i], samples[i][1], samples[i][2])

PhaseInv ==
    /\ setting \in Settings
    /\ pc \in {"compare", "correct", "evaluate", "summarise", "done"}
    /\ verdict \in Verdicts \cup {None}
    /\ verdict = None <=> pc \in {"compare", "correct"}
    /\ pc = "compare" => Len(samples) < Cases
    /\ pc \in {"compare", "correct", "summarise"} => evals = <<>> /\ summary = NoSummary
    /\ pc = "evaluate" => Len(evals) < Cases
    /\ pc = "summarise" => setting.command # "compare"
    /\ weak \subseteq 1 .. Cases
    /\ summary # NoSummary =>
          /\ setting.command # "compare"
          /\ summary.verdict \in Verdicts
          /\ \A f \in summary.findings : f.verdict \in {"warn", "fail"}

CorrectedInv ==
    verdict # None /\ setting.correction = "benjamini_hochberg" =>
        \A at \in Places(deltas) :
            deltas[at[1]][at[2]].adjusted = Adjusted(Family(deltas), at)

IInv == ListInv /\ FitInv /\ PhaseInv /\ CorrectedInv /\ VerdictSettled /\ FullPassIsFull

-----------------------------------------------------------------------------
(* Lemmas about the verdicts and the family of a comparison. *)

LEMMA WorstIs ==
    ASSUME NEW vs \in SUBSET Verdicts
    PROVE  Worst(vs) = IF "fail" \in vs THEN "fail" ELSE IF "warn" \in vs THEN "warn" ELSE "pass"
<1>. DEFINE w == IF "fail" \in vs THEN "fail" ELSE IF "warn" \in vs THEN "warn" ELSE "pass"
            IsWorst(v) == v \in vs /\ \A u \in vs : Severity(u) <= Severity(v)
<1>1. Severity("pass") = 0 /\ Severity("warn") = 1 /\ Severity("fail") = 2
  BY DEF Severity
<1>2. CASE vs = {}
  BY <1>2 DEF Worst
<1>3. CASE vs # {}
  <2>1. \A v \in vs : v \in {"pass", "warn", "fail"}
    BY DEF Verdicts
  <2>2. IsWorst(w)
    BY <1>1, <1>3, <2>1
  <2>3. \A v : IsWorst(v) => v = w
    BY <1>1, <2>1
  <2>4. Worst(vs) = CHOOSE v \in vs : \A u \in vs : Severity(u) <= Severity(v)
    BY <1>3 DEF Worst
  <2>. HIDE DEF w
  <2>5. IsWorst(Worst(vs))
    BY <2>2, <2>4
  <2>6. Worst(vs) = w
    BY <2>3, <2>5
  <2>. QED BY <2>6 DEF w
<1>. QED BY <1>2, <1>3

LEMMA PlaceFacts ==
    ASSUME NEW ds \in Seq(CaseDeltas)
    PROVE  /\ \A i \in DOMAIN ds :
                 /\ DOMAIN ds[i] \subseteq DOMAIN Signals
                 /\ \A k \in DOMAIN ds[i] : ds[i][k] \in DeltaRecords /\ <<i, k>> \in Places(ds)
           /\ \A at \in Places(ds) :
                 at[1] \in DOMAIN ds /\ at[2] \in DOMAIN ds[at[1]] /\ at = <<at[1], at[2]>>
           /\ Places(ds) \in SUBSET ((DOMAIN ds) \X (DOMAIN Signals))
           /\ DOMAIN ds = 1 .. Len(ds) /\ Len(ds) \in Nat
<1>1. DOMAIN ds = 1 .. Len(ds) /\ Len(ds) \in Nat /\ \A i \in DOMAIN ds : ds[i] \in CaseDeltas
  OBVIOUS
<1>2. ASSUME NEW i \in DOMAIN ds
      PROVE  DOMAIN ds[i] \subseteq DOMAIN Signals /\ \A k \in DOMAIN ds[i] : ds[i][k] \in DeltaRecords
  BY <1>1 DEF CaseDeltas
<1>3. \A i \in DOMAIN ds : \A k \in DOMAIN ds[i] : <<i, k>> \in Places(ds)
  BY DEF Places
<1>4. \A at \in Places(ds) :
         at[1] \in DOMAIN ds /\ at[2] \in DOMAIN ds[at[1]] /\ at = <<at[1], at[2]>>
  <2>. SUFFICES ASSUME NEW at \in Places(ds)
                PROVE  at[1] \in DOMAIN ds /\ at[2] \in DOMAIN ds[at[1]] /\ at = <<at[1], at[2]>>
    OBVIOUS
  <2>1. PICK i \in DOMAIN ds : at \in {i} \X (DOMAIN ds[i])
    BY DEF Places
  <2>. QED BY <2>1
<1>5. Places(ds) \in SUBSET ((DOMAIN ds) \X (DOMAIN Signals))
  <2>. SUFFICES ASSUME NEW at \in Places(ds) PROVE at \in (DOMAIN ds) \X (DOMAIN Signals)
    OBVIOUS
  <2>1. at[1] \in DOMAIN ds /\ at[2] \in DOMAIN ds[at[1]] /\ at = <<at[1], at[2]>>
    BY <1>4
  <2>2. at[2] \in DOMAIN Signals
    BY <1>2, <2>1
  <2>3. <<at[1], at[2]>> \in (DOMAIN ds) \X (DOMAIN Signals)
    <3>1. at[1] \in DOMAIN ds
      BY <2>1
    <3>. QED BY <2>2, <3>1
  <2>. QED BY <2>1, <2>3, Zenon
<1>. QED BY <1>1, <1>2, <1>3, <1>4, <1>5

LEMMA FamilyFacts ==
    ASSUME NEW ds \in Seq(CaseDeltas), Len(ds) <= Cases
    PROVE  /\ Places(ds) \in SUBSET (Nat \X Nat) /\ IsFiniteSet(Places(ds))
           /\ \A n \in 1 .. Cardinality(Places(ds)) : Scale % n = 0
           /\ Family(ds) \in Families(Places(ds))
           /\ \A at \in Places(ds) : Family(ds)[at] = ds[at[1]][at[2]].p
<1>. DEFINE m == Len(ds)
            w == Len(Signals)
<1>1. /\ m \in Nat /\ w \in Nat /\ Cases \in Nat /\ m <= Cases
      /\ Places(ds) \in SUBSET ((1 .. m) \X (1 .. w))
  <2>1. /\ Places(ds) \in SUBSET ((DOMAIN ds) \X (DOMAIN Signals))
        /\ DOMAIN ds = 1 .. m /\ m \in Nat
    BY PlaceFacts
  <2>2. DOMAIN Signals = 1 .. w /\ w \in Nat
    BY SignalFacts
  <2>. HIDE DEF m, w
  <2>3. Places(ds) \in SUBSET ((1 .. m) \X (1 .. w))
    <3>1. Places(ds) \in SUBSET ((DOMAIN ds) \X (DOMAIN Signals))
      BY <2>1
    <3>2. DOMAIN ds = 1 .. m /\ DOMAIN Signals = 1 .. w
      BY <2>1, <2>2
    <3>. QED BY <3>1, <3>2
  <2>. QED BY <2>1, <2>2, <2>3, BoundsAssumption DEF m
<1>. HIDE DEF m, w
<1>2. IsFiniteSet((1 .. m) \X (1 .. w)) /\ Cardinality((1 .. m) \X (1 .. w)) = m * w
  <2>1. /\ IsFiniteSet(1 .. m) /\ Cardinality(1 .. m) = m
        /\ IsFiniteSet(1 .. w) /\ Cardinality(1 .. w) = w
    <3>1. \A k \in Nat : IsFiniteSet(1 .. k) /\ Cardinality(1 .. k) = k
      BY FS_Interval
    <3>. QED BY <1>1, <3>1
  <2>. QED BY <2>1, FS_Product, ZenonT(60)
<1>3. /\ IsFiniteSet(Places(ds)) /\ Cardinality(Places(ds)) \in Nat
      /\ Cardinality(Places(ds)) <= m * w
  BY <1>1, <1>2, FS_Subset, FS_CardinalityType
<1>4. m * w <= Cases * w
  <2>1. \A x, y, z \in Nat : x <= y => x * z <= y * z
    BY SquareNat
  <2>. QED BY <1>1, <2>1
<1>5. \A n \in 1 .. Cardinality(Places(ds)) : n \in 1 .. Cases * w
  <2>1. m * w \in Nat /\ Cases * w \in Nat
    BY <1>1, SquareNat
  <2>. QED BY <1>3, <1>4, <2>1
<1>6. \A at \in Places(ds) : ds[at[1]][at[2]].p \in 0 .. One
  BY PlaceFacts DEF DeltaRecords
<1>7. Places(ds) \in SUBSET (Nat \X Nat)
  BY <1>1
<1>8. \A n \in 1 .. Cardinality(Places(ds)) : Scale % n = 0
  BY <1>5, FamilyAssumption DEF w
<1>. QED BY <1>3, <1>6, <1>7, <1>8 DEF Family, Families

(* What the correction leaves of the deltas and changes in them. *)
LEMMA CorrectedFacts ==
    ASSUME NEW ds \in Seq(CaseDeltas), Len(ds) <= Cases,
           NEW cs \in Seq(Sides \X Sides), Len(cs) = Len(ds),
           \A i \in DOMAIN ds : Fits(ds[i], cs[i][1], cs[i][2]),
           NEW es, es = Corrected(ds)
    PROVE  /\ es \in Seq(CaseDeltas) /\ Len(es) = Len(ds)
           /\ \A i \in DOMAIN es : Fits(es[i], cs[i][1], cs[i][2])
           /\ setting.correction # "none" =>
                \A at \in Places(es) : es[at[1]][at[2]].adjusted = Adjusted(Family(es), at)
<1>1. CASE setting.correction = "none"
  BY <1>1 DEF Corrected
<1>2. CASE setting.correction # "none"
  <2>. DEFINE adjusted(i, k) == Adjusted(Family(ds), <<i, k>>)
  <2>1. es = [i \in DOMAIN ds |->
                [k \in DOMAIN ds[i] |-> Reconsider(ds[i][k], BenjaminiHochberg(Family(ds))[<<i, k>>])]]
    BY <1>2 DEF Corrected
  <2>2. ASSUME NEW i \in DOMAIN ds, NEW k \in DOMAIN ds[i]
        PROVE  /\ es[i][k] = Reconsider(ds[i][k], adjusted(i, k))
               /\ adjusted(i, k) \in 0 .. One * Scale
               /\ ds[i][k].p = One => adjusted(i, k) = One * Scale
               /\ ds[i][k] \in DeltaRecords
    <3>1. <<i, k>> \in Places(ds) /\ ds[i][k] \in DeltaRecords
      BY PlaceFacts
    <3>2. BenjaminiHochberg(Family(ds))[<<i, k>>] = adjusted(i, k)
      BY <3>1, FamilyFacts DEF BenjaminiHochberg, Families
    <3>3. /\ adjusted(i, k) \in 0 .. One * Scale
          /\ Family(ds)[<<i, k>>] = One => adjusted(i, k) = One * Scale
      BY <3>1, FamilyFacts, AdjustedFacts
    <3>4. Family(ds)[<<i, k>>] = ds[i][k].p
      BY <3>1, FamilyFacts
    <3>. QED BY <2>1, <3>1, <3>2, <3>3, <3>4
  <2>. HIDE DEF adjusted
  <2>3. DOMAIN es = DOMAIN ds /\ \A i \in DOMAIN ds : DOMAIN es[i] = DOMAIN ds[i]
    BY <2>1
  <2>4. ASSUME NEW i \in DOMAIN ds, NEW k \in DOMAIN ds[i]
        PROVE  /\ es[i][k] \in DeltaRecords /\ Coherent(es[i][k])
               /\ es[i][k].kind = ds[i][k].kind /\ es[i][k].of = ds[i][k].of
               /\ es[i][k].p = ds[i][k].p /\ es[i][k].adjusted = adjusted(i, k)
    BY <2>2, ReconsiderFacts
  <2>5. es \in Seq(CaseDeltas) /\ Len(es) = Len(ds)
    <3>1. \A i \in DOMAIN ds : es[i] \in [DOMAIN ds[i] -> DeltaRecords]
      BY <2>1, <2>4
    <3>2. \A i \in DOMAIN ds : es[i] \in CaseDeltas
      BY <3>1, PlaceFacts DEF CaseDeltas
    <3>3. es \in [1 .. Len(ds) -> CaseDeltas]
      BY <2>1, <3>2, PlaceFacts
    <3>4. Len(ds) \in Nat
      OBVIOUS
    <3>5. es \in Seq(CaseDeltas)
      BY <3>3, <3>4, SeqDef
    <3>6. DOMAIN es = 1 .. Len(es) /\ Len(es) \in Nat /\ DOMAIN es = 1 .. Len(ds)
      BY <3>3, <3>5
    <3>. QED BY <3>4, <3>5, <3>6
  <2>6. ASSUME NEW i \in DOMAIN es PROVE Fits(es[i], cs[i][1], cs[i][2])
    <3>1. Fits(ds[i], cs[i][1], cs[i][2])
      BY <2>3
    <3>. QED BY <2>2, <2>3, <2>4, <3>1 DEF Fits
  <2>7. Places(es) = Places(ds)
    BY <2>3 DEF Places
  <2>8. Family(es) = Family(ds)
    <3>1. \A at \in Places(ds) : es[at[1]][at[2]].p = ds[at[1]][at[2]].p
      BY <2>4, PlaceFacts
    <3>. QED BY <2>7, <3>1 DEF Family
  <2>9. ASSUME NEW at \in Places(es)
        PROVE  es[at[1]][at[2]].adjusted = Adjusted(Family(es), at)
    <3>1. at[1] \in DOMAIN ds /\ at[2] \in DOMAIN ds[at[1]] /\ at = <<at[1], at[2]>>
      BY <2>7, PlaceFacts
    <3>2. es[at[1]][at[2]].adjusted = adjusted(at[1], at[2])
      BY <2>4, <3>1
    <3>. QED BY <2>8, <3>1, <3>2 DEF adjusted
  <2>. QED BY <2>5, <2>6, <2>9
<1>. QED BY <1>1, <1>2

(* A case fails when a delta is significant, of failing size and of two    *)
(* sides that have samples.                                                *)
LEMMA FailFacts ==
    ASSUME NEW ds \in Seq(CaseDeltas), NEW cs \in Seq(Sides \X Sides), Len(cs) = Len(ds),
           \A i \in DOMAIN ds : Fits(ds[i], cs[i][1], cs[i][2])
    PROVE  (\E i \in DOMAIN ds : Worst(VerdictsOf(ds[i])) = "fail") <=>
           \E at \in Places(ds) :
              LET d == ds[at[1]][at[2]]
              IN  /\ d.significant /\ 100 * Abs(d.gap) >= Fail[d.kind] * d.unit
                  /\ \A side \in {1, 2} : cs[at[1]][side] # <<>>
<1>1. ASSUME NEW i \in DOMAIN ds
      PROVE  VerdictsOf(ds[i]) \in SUBSET Verdicts
             /\ (Worst(VerdictsOf(ds[i])) = "fail" <=> \E k \in DOMAIN ds[i] : ds[i][k].verdict = "fail")
  <2>1. VerdictsOf(ds[i]) \in SUBSET Verdicts
    <3>1. \A k \in DOMAIN ds[i] : ds[i][k] \in DeltaRecords
      BY PlaceFacts
    <3>2. \A k \in DOMAIN ds[i] : ds[i][k].verdict \in Verdicts
      BY <3>1 DEF DeltaRecords
    <3>. QED BY <3>2 DEF VerdictsOf
  <2>2. "fail" \in VerdictsOf(ds[i]) <=> \E k \in DOMAIN ds[i] : ds[i][k].verdict = "fail"
    BY DEF VerdictsOf
  <2>. QED BY <2>1, <2>2, WorstIs
<1>2. ASSUME NEW at \in Places(ds)
      PROVE  ds[at[1]][at[2]].verdict = "fail" <=>
               LET d == ds[at[1]][at[2]]
               IN  /\ d.significant /\ 100 * Abs(d.gap) >= Fail[d.kind] * d.unit
                   /\ \A side \in {1, 2} : cs[at[1]][side] # <<>>
  <2>. DEFINE d == ds[at[1]][at[2]]
  <2>1. d \in DeltaRecords /\ at[1] \in DOMAIN ds /\ at[2] \in DOMAIN ds[at[1]]
    BY PlaceFacts
  <2>2. /\ Coherent(d)
        /\ cs[at[1]][1] = <<>> \/ cs[at[1]][2] = <<>> => d.adjusted = One * Scale
    BY <2>1 DEF Fits
  <2>. HIDE DEF d
  <2>3. d.significant \in BOOLEAN
    BY <2>1 DEF DeltaRecords
  <2>4. d.verdict = "fail" <=> d.significant /\ 100 * Abs(d.gap) >= Fail[d.kind] * d.unit
    BY <2>2, <2>3, EffectFacts DEF Coherent
  <2>5. d.significant => d.adjusted # One * Scale
    <3>1. Alpha \in Nat /\ One \in Nat /\ Scale \in Nat /\ Alpha <= One
      BY ThresholdAssumption, ScaleAssumption DEF One
    <3>2. Alpha * Scale <= One * Scale /\ Alpha * Scale \in Nat /\ One * Scale \in Nat
      BY <3>1, SquareNat
    <3>3. d.significant <=> d.adjusted < Alpha * Scale
      BY <2>2 DEF Coherent, Significant
    <3>. QED BY <3>2, <3>3
  <2>. QED BY <2>2, <2>4, <2>5 DEF d
<1>3. (\E i \in DOMAIN ds : Worst(VerdictsOf(ds[i])) = "fail") <=>
      \E at \in Places(ds) : ds[at[1]][at[2]].verdict = "fail"
  <2>1. ASSUME NEW i \in DOMAIN ds, Worst(VerdictsOf(ds[i])) = "fail"
        PROVE  \E at \in Places(ds) : ds[at[1]][at[2]].verdict = "fail"
    <3>1. PICK k \in DOMAIN ds[i] : ds[i][k].verdict = "fail"
      BY <1>1, <2>1
    <3>2. <<i, k>> \in Places(ds)
      BY PlaceFacts
    <3>3. <<i, k>>[1] = i /\ <<i, k>>[2] = k
      OBVIOUS
    <3>. QED BY <3>1, <3>2, <3>3
  <2>2. ASSUME NEW at \in Places(ds), ds[at[1]][at[2]].verdict = "fail"
        PROVE  \E i \in DOMAIN ds : Worst(VerdictsOf(ds[i])) = "fail"
    <3>1. at[1] \in DOMAIN ds /\ at[2] \in DOMAIN ds[at[1]]
      BY PlaceFacts
    <3>. QED BY <1>1, <2>2, <3>1
  <2>. QED BY <2>1, <2>2
<1>. QED BY <1>2, <1>3

-----------------------------------------------------------------------------
(* The evaluation of one case's outputs. *)

Checks == {"semantic", "length", "structural", "judge"}

FullPass(e) ==
    e.verdict = "pass" /\ e.skipped = {} /\ e.scores # <<>> =>
        /\ "judge" \in DOMAIN e.scores
        /\ DOMAIN e.scores \cap {"semantic", "structural"} # {}
        /\ \A check \in DOMAIN e.scores :
              e.scores[check] # NoScore /\ e.scores[check] >= Cutoffs[check].warn

LEMMA RatedFacts ==
    ASSUME NEW check \in Checks, NEW score \in Int
    PROVE  /\ Rated(check, score) \in Verdicts
           /\ Rated(check, score) = "pass" => score >= Cutoffs[check].warn
<1>1. Cutoffs[check].warn \in Int /\ Cutoffs[check].fail \in Int
  BY DEF Checks, Cutoffs
<1>. DEFINE cut == Cutoffs[check]
            Under(limit) == score < limit \/ (check = "judge" /\ score = limit)
<1>2. Rated(check, score) =
        CASE Under(cut.fail) -> "fail"
          [] ~ Under(cut.fail) /\ Under(cut.warn) -> "warn"
          [] OTHER -> "pass"
  BY DEF Rated
<1>. HIDE DEF cut
<1>3. /\ Under(cut.fail) => Rated(check, score) = "fail"
      /\ ~ Under(cut.fail) /\ Under(cut.warn) => Rated(check, score) = "warn"
      /\ ~ Under(cut.fail) /\ ~ Under(cut.warn) => Rated(check, score) = "pass"
  BY <1>2
<1>4. ~ Under(cut.warn) => score >= cut.warn
  BY <1>1 DEF cut
<1>. HIDE DEF Under
<1>5. Rated(check, score) \in Verdicts
  BY <1>3 DEF Verdicts
<1>6. Rated(check, score) = "pass" => score >= cut.warn
  BY <1>3, <1>4
<1>. QED BY <1>5, <1>6 DEF cut

(* Scores that are all there and pass are all at their cutoffs. *)
LEMMA ScoresPass ==
    ASSUME NEW C \in SUBSET Checks, NEW scores \in [C -> Int], Skipped(scores) = {},
           Worst({Rated(check, scores[check]) : check \in Scored(scores)}) = "pass"
    PROVE  \A check \in C : scores[check] # NoScore /\ scores[check] >= Cutoffs[check].warn
<1>. SUFFICES ASSUME NEW check \in C
              PROVE  scores[check] # NoScore /\ scores[check] >= Cutoffs[check].warn
  OBVIOUS
<1>. DEFINE rates == {Rated(c, scores[c]) : c \in Scored(scores)}
<1>1. check \in Scored(scores) /\ scores[check] # NoScore
  BY DEF Skipped, Scored
<1>2. rates \in SUBSET Verdicts /\ Rated(check, scores[check]) \in rates
  BY <1>1, RatedFacts DEF Scored
<1>. HIDE DEF rates
<1>3. Worst(rates) = "pass"
  BY DEF rates
<1>4. Rated(check, scores[check]) = "pass"
  BY <1>2, <1>3, WorstIs DEF Verdicts
<1>. QED BY <1>1, <1>4, RatedFacts

LEMMA RepresentativeFacts ==
    ASSUME NEW n \in 0 .. MaxRuns, NEW outputs \in [1 .. n -> Outputs]
    PROVE  /\ Representative(outputs).length \in Nat
           /\ Representative(outputs).kind = "structured" =>
                 IsFiniteSet(DOMAIN Representative(outputs).leaves)
<1>. DEFINE said == {i \in DOMAIN outputs : ~ IsBlank(outputs[i])}
            blank == [kind |-> "text", length |-> 0, leaves |-> <<>>]
<1>1. Representative(outputs) = IF said = {} THEN blank ELSE outputs[Min(said)]
  BY DEF Representative
<1>2. said \in SUBSET Nat /\ said \subseteq 1 .. n
  BY BoundsAssumption
<1>. HIDE DEF said
<1>3. said # {} => Min(said) \in 1 .. n
  BY <1>2, MinLeast
<1>4. said # {} => Representative(outputs) \in Outputs
  BY <1>1, <1>3
<1>5. said = {} => Representative(outputs).kind = "text" /\ Representative(outputs).length = 0
  BY <1>1
<1>. QED BY <1>4, <1>5, OutputsAssumption

LEMMA SimilarityFacts ==
    ASSUME NEW x, NEW y, IsFiniteSet(DOMAIN x.leaves), IsFiniteSet(DOMAIN y.leaves)
    PROVE  Similarity(x, y) \in Int
<1>. DEFINE total == Cardinality(Paths(x, y))
            same == Cardinality(Matching(x, y))
<1>1. IsFiniteSet(Paths(x, y))
  BY FS_Union DEF Paths
<1>2. Matching(x, y) \in SUBSET Paths(x, y)
  BY DEF Matching, Paths
<1>3. total \in Nat /\ same \in Nat /\ (Paths(x, y) # {} => total # 0)
  BY <1>1, <1>2, FS_Subset, FS_CardinalityType, FS_EmptySet
<1>4. Similarity(x, y) = IF Paths(x, y) = {} THEN 100 ELSE (100 * same) \div total
  BY DEF Similarity
<1>. HIDE DEF total, same
<1>5. Paths(x, y) # {} => (100 * same) \div total \in Int
  BY <1>3
<1>. QED BY <1>4, <1>5

LEMMA LengthRatioFacts ==
    ASSUME NEW x, NEW y, x.length \in Nat, y.length \in Nat
    PROVE  LengthRatio(x, y) \in Int
<1>. DEFINE both == {x.length, y.length}
<1>1. Min(both) \in Nat
  BY MinLeast
<1>2. Max(both) \in Nat
  <2>1. \E i \in both : \A j \in both : i >= j
    OBVIOUS
  <2>2. Max(both) \in both
    BY <2>1 DEF Max
  <2>. QED BY <2>2
<1>3. AtLeastOne(Max(both)) \in Nat \ {0}
  BY <1>2 DEF AtLeastOne
<1>4. LengthRatio(x, y) = (100 * Min(both)) \div AtLeastOne(Max(both))
  BY DEF LengthRatio
<1>. HIDE DEF both
<1>5. \A u \in Nat, v \in Nat \ {0} : (100 * u) \div v \in Int
  OBVIOUS
<1>. QED BY <1>1, <1>3, <1>4, <1>5

LEMMA EvaluationFacts ==
    ASSUME NEW m \in Meetings
    PROVE  FullPass(Evaluation(m))
<1>. DEFINE x == Representative(m.baseline)
            y == Representative(m.candidate)
            judged == Judged(m.replies)
            none == IsBlank(x) /\ IsBlank(y)
            both == x.kind = "structured" /\ y.kind = "structured"
            documents == [structural |-> Similarity(x, y), judge |-> judged]
            texts == [semantic |-> m.semantic, judge |-> judged, length |-> LengthRatio(x, y)]
            scores == CASE none -> <<>> [] both -> documents [] OTHER -> texts
            e == Evaluation(m)
<1>1. /\ m.semantic \in Marks \cup {NoScore}
      /\ m.replies \in {<<>>} \cup [1 .. 2 -> Marks \cup {Garbled}]
      /\ \E n \in 0 .. MaxRuns : m.baseline \in [1 .. n -> Outputs]
      /\ \E n \in 0 .. MaxRuns : m.candidate \in [1 .. n -> Outputs]
  BY DEF Meetings
<1>2. e = [scores |-> scores, skipped |-> Skipped(scores),
           verdict |-> Worst({Rated(check, scores[check]) : check \in Scored(scores)})]
  BY DEF Evaluation
<1>3. /\ x.length \in Nat /\ y.length \in Nat
      /\ both => IsFiniteSet(DOMAIN x.leaves) /\ IsFiniteSet(DOMAIN y.leaves)
  BY <1>1, RepresentativeFacts
<1>4. judged \in Int /\ m.semantic \in Int
  <2>1. NoScore \in Int /\ Garbled \in Int /\ \A s \in Marks \cup {NoScore, Garbled} : s \in Int
    BY OutputsAssumption DEF NoScore, Garbled
  <2>2. CASE m.replies = <<>>
    BY <1>1, <2>1, <2>2 DEF Judged
  <2>3. CASE m.replies # <<>>
    <3>1. m.replies[1] \in Int /\ m.replies[2] \in Int
      BY <1>1, <2>1, <2>3
    <3>2. judged \in {m.replies[1], m.replies[2], NoScore}
      BY <2>3 DEF Judged
    <3>. QED BY <1>1, <2>1, <3>1, <3>2
  <2>. QED BY <2>2, <2>3
<1>5. both => Similarity(x, y) \in Int
  BY <1>3, SimilarityFacts
<1>6. LengthRatio(x, y) \in Int
  BY <1>3, LengthRatioFacts
<1>. HIDE DEF x, y, judged, none, both
<1>7. e.scores = scores /\ e.skipped = Skipped(scores)
      /\ e.verdict = Worst({Rated(check, scores[check]) : check \in Scored(scores)})
  <2>. HIDE DEF scores, e
  <2>. QED BY <1>2
<1>8. CASE none
  <2>1. scores = <<>>
    BY <1>8 DEF none, both, IsBlank
  <2>. QED BY <1>7, <2>1 DEF FullPass
<1>9. CASE ~ none /\ both
  <2>1. scores = documents
    BY <1>9
  <2>2. documents \in [{"structural", "judge"} -> Int]
    BY <1>4, <1>5, <1>9
  <2>. HIDE DEF scores, documents, e
  <2>3. \A check \in {"structural", "judge"} : e.verdict = "pass" /\ e.skipped = {} =>
           scores[check] # NoScore /\ scores[check] >= Cutoffs[check].warn
    BY <1>7, <2>1, <2>2, ScoresPass DEF Checks
  <2>4. DOMAIN e.scores = {"structural", "judge"}
    BY <1>7, <2>1, <2>2
  <2>5. "judge" \in DOMAIN e.scores /\ DOMAIN e.scores \cap {"semantic", "structural"} # {}
    BY <2>4
  <2>6. e.verdict = "pass" /\ e.skipped = {} =>
          \A check \in DOMAIN e.scores :
             e.scores[check] # NoScore /\ e.scores[check] >= Cutoffs[check].warn
    BY <1>7, <2>3, <2>4
  <2>7. FullPass(e)
    BY <2>5, <2>6 DEF FullPass
  <2>. QED BY <2>7 DEF e
<1>10. CASE ~ none /\ ~ both
  <2>1. scores = texts
    BY <1>10
  <2>2. texts \in [{"semantic", "judge", "length"} -> Int]
    BY <1>4, <1>6
  <2>. HIDE DEF scores, texts, e
  <2>3. \A check \in {"semantic", "judge", "length"} : e.verdict = "pass" /\ e.skipped = {} =>
           scores[check] # NoScore /\ scores[check] >= Cutoffs[check].warn
    BY <1>7, <2>1, <2>2, ScoresPass DEF Checks
  <2>4. DOMAIN e.scores = {"semantic", "judge", "length"}
    BY <1>7, <2>1, <2>2
  <2>5. "judge" \in DOMAIN e.scores /\ DOMAIN e.scores \cap {"semantic", "structural"} # {}
    BY <2>4
  <2>6. e.verdict = "pass" /\ e.skipped = {} =>
          \A check \in DOMAIN e.scores :
             e.scores[check] # NoScore /\ e.scores[check] >= Cutoffs[check].warn
    BY <1>7, <2>3, <2>4
  <2>7. FullPass(e)
    BY <2>5, <2>6 DEF FullPass
  <2>. QED BY <2>7 DEF e
<1>. QED BY <1>8, <1>9, <1>10

-----------------------------------------------------------------------------
(* The findings of the incident. *)

Settled ==
    /\ \A i \in DOMAIN deltas : overall[i] = Worst(VerdictsOf(deltas[i]))
    /\ verdict = Worst(Range(overall))

LEMMA WorstOfAll ==
    ASSUME ListInv, Settled
    PROVE  \A at \in Places(deltas) :
              LET v == deltas[at[1]][at[2]].verdict
              IN  v \in Verdicts /\ Severity(v) <= Severity(verdict)
<1>. SUFFICES ASSUME NEW at \in Places(deltas)
              PROVE  LET v == deltas[at[1]][at[2]].verdict
                     IN  v \in Verdicts /\ Severity(v) <= Severity(verdict)
  OBVIOUS
<1>. DEFINE v == deltas[at[1]][at[2]].verdict
            vs == VerdictsOf(deltas[at[1]])
<1>1. deltas \in Seq(CaseDeltas) /\ overall \in Seq(Verdicts) /\ DOMAIN overall = DOMAIN deltas
  BY DEF ListInv
<1>2. /\ at[1] \in DOMAIN deltas /\ at[2] \in DOMAIN deltas[at[1]]
      /\ \A k \in DOMAIN deltas[at[1]] : deltas[at[1]][k] \in DeltaRecords
  BY <1>1, PlaceFacts
<1>3. vs \in SUBSET Verdicts /\ v \in vs
  BY <1>2 DEF VerdictsOf, DeltaRecords
<1>4. Range(overall) \in SUBSET Verdicts /\ overall[at[1]] \in Range(overall)
  BY <1>1, <1>2 DEF Range
<1>5. overall[at[1]] = Worst(vs) /\ verdict = Worst(Range(overall))
  BY <1>2 DEF Settled
<1>. HIDE DEF v, vs
<1>6. Severity("pass") = 0 /\ Severity("warn") = 1 /\ Severity("fail") = 2
  BY DEF Severity
<1>7. v \in Verdicts /\ Worst(vs) \in Verdicts /\ Severity(v) <= Severity(Worst(vs))
  BY <1>3, <1>6, WorstIs DEF Verdicts
<1>8. Severity(Worst(vs)) <= Severity(verdict) /\ verdict \in Verdicts
  BY <1>4, <1>5, <1>6, WorstIs DEF Verdicts
<1>9. Severity(v) <= Severity(verdict)
  BY <1>6, <1>7, <1>8 DEF Verdicts
<1>. QED BY <1>7, <1>9 DEF v

LEMMA MetricFacts == "agent" \notin Range(Metrics)
  BY DEF Metrics, Range

LEMMA FindingsFacts ==
    ASSUME ListInv, FitInv, Settled
    PROVE  /\ \A f \in Findings :
                 /\ f.verdict \in {"warn", "fail"} /\ Severity(f.verdict) <= Severity(verdict)
                 /\ \E at \in Places(deltas) :
                       LET d == deltas[at[1]][at[2]]
                       IN  d.kind = f.kind /\ Subject(d) = f.of /\ d.verdict = f.verdict
           /\ \A at \in Places(deltas) :
                 LET d == deltas[at[1]][at[2]]
                 IN  d.kind # "tool" /\ d.verdict # "pass" =>
                       \E f \in Findings :
                          /\ f.kind = d.kind /\ f.of = Subject(d)
                          /\ Severity(f.verdict) >= Severity(d.verdict)
                          /\ \A g \in Findings : g.kind = d.kind /\ g.of = Subject(d) => g = f
<1>. DEFINE D(at) == deltas[at[1]][at[2]]
            Keys == ({"agent"} \X Range(FunctionOf)) \cup {<<m, m>> : m \in Range(Metrics)}
            Hit(kind, of) == {D(at).verdict : at \in Changed(kind, of)}
<1>1. deltas \in Seq(CaseDeltas)
  BY DEF ListInv
<1>2. \A at \in Places(deltas) : D(at).verdict \in Verdicts /\ Severity(D(at).verdict) <= Severity(verdict)
  BY WorstOfAll
<1>3. Severity("pass") = 0 /\ Severity("warn") = 1 /\ Severity("fail") = 2
  BY DEF Severity
<1>4. \A kind, of : Changed(kind, of) =
         {at \in Places(deltas) : D(at).kind = kind /\ Subject(D(at)) = of /\ D(at).verdict # "pass"}
  BY DEF Changed
<1>5. ASSUME NEW kind, NEW of, Changed(kind, of) # {}
      PROVE  /\ Finding(kind, of).kind = kind /\ Finding(kind, of).of = of
             /\ Finding(kind, of).verdict \in {"warn", "fail"}
             /\ \E at \in Changed(kind, of) : D(at).verdict = Finding(kind, of).verdict
             /\ \A at \in Changed(kind, of) :
                   Severity(D(at).verdict) <= Severity(Finding(kind, of).verdict)
  <2>. DEFINE v == Finding(kind, of).verdict
  <2>1. /\ Finding(kind, of).kind = kind /\ Finding(kind, of).of = of
        /\ v = Worst({d.verdict : d \in {D(at) : at \in Changed(kind, of)}})
    BY DEF Finding
  <2>2. {d.verdict : d \in {D(at) : at \in Changed(kind, of)}} = Hit(kind, of)
    OBVIOUS
  <2>3. Hit(kind, of) \in SUBSET {"warn", "fail"} /\ Hit(kind, of) # {}
    BY <1>2, <1>4, <1>5 DEF Verdicts
  <2>. HIDE DEF v, D
  <2>4. v = IF "fail" \in Hit(kind, of) THEN "fail" ELSE "warn"
    BY <2>1, <2>2, <2>3, WorstIs DEF Verdicts
  <2>5. v \in Hit(kind, of) /\ v \in {"warn", "fail"}
    BY <2>3, <2>4
  <2>6. \A at \in Changed(kind, of) : Severity(D(at).verdict) <= Severity(v)
    BY <1>3, <2>3, <2>4
  <2>. QED BY <2>1, <2>5, <2>6 DEF v
<1>6. Findings = {Finding(s[1], s[2]) : s \in {g \in Keys : Changed(g[1], g[2]) # {}}}
  BY SMTT(60) DEF Findings
<1>7. ASSUME NEW f \in Findings
      PROVE  /\ f.verdict \in {"warn", "fail"} /\ Severity(f.verdict) <= Severity(verdict)
             /\ \E at \in Places(deltas) :
                   D(at).kind = f.kind /\ Subject(D(at)) = f.of /\ D(at).verdict = f.verdict
             /\ f = Finding(f.kind, f.of)
  <2>1. PICK s \in Keys : Changed(s[1], s[2]) # {} /\ f = Finding(s[1], s[2])
    BY <1>6
  <2>2. /\ f.kind = s[1] /\ f.of = s[2] /\ f.verdict \in {"warn", "fail"}
        /\ \E at \in Changed(s[1], s[2]) : D(at).verdict = f.verdict
    BY <1>5, <2>1
  <2>3. PICK at \in Changed(s[1], s[2]) : D(at).verdict = f.verdict
    BY <2>2
  <2>4. at \in Places(deltas) /\ D(at).kind = s[1] /\ Subject(D(at)) = s[2]
    BY <1>4, SMTT(60)
  <2>. QED BY <1>2, <2>1, <2>2, <2>3, <2>4
<1>8. ASSUME NEW at \in Places(deltas), D(at).kind # "tool", D(at).verdict # "pass"
      PROVE  \E f \in Findings :
                /\ f.kind = D(at).kind /\ f.of = Subject(D(at))
                /\ Severity(f.verdict) >= Severity(D(at).verdict)
                /\ \A g \in Findings : g.kind = D(at).kind /\ g.of = Subject(D(at)) => g = f
  <2>. DEFINE d == D(at)
              f == Finding(d.kind, Subject(d))
  <2>1. at \in Changed(d.kind, Subject(d))
    BY <1>4, <1>8
  <2>2. <<d.kind, Subject(d)>> \in Keys
    <3>1. /\ at[1] \in DOMAIN deltas /\ at[2] \in DOMAIN deltas[at[1]]
          /\ DOMAIN deltas[at[1]] \subseteq DOMAIN Signals
      BY <1>1, PlaceFacts
    <3>2. d.kind = Signals[at[2]][1] /\ d.of = Signals[at[2]][2]
      BY <3>1 DEF FitInv, Fits
    <3>3. Signals[at[2]] \in SignalSet
      BY <3>1, SignalFacts
    <3>. HIDE DEF d, D
    <3>4. Signals[at[2]] \notin {"tool"} \X Range(Tools)
      BY <1>8, <3>2 DEF d
    <3>5. CASE Signals[at[2]] \in {"agent"} \X Range(Agents)
      <4>1. d.kind = "agent" /\ d.of \in DOMAIN FunctionOf
        BY <3>2, <3>5, FunctionAssumption
      <4>2. Subject(d) \in Range(FunctionOf)
        BY <4>1 DEF Subject, Range
      <4>. QED BY <4>1, <4>2
    <3>6. CASE Signals[at[2]] \in {<<m, m>> : m \in Range(Metrics)}
      <4>1. PICK m \in Range(Metrics) : Signals[at[2]] = <<m, m>>
        BY <3>6
      <4>2. d.kind = m /\ Subject(d) = m
        BY <3>2, <4>1, MetricFacts DEF Subject
      <4>. QED BY <4>1, <4>2
    <3>. QED BY <3>3, <3>4, <3>5, <3>6 DEF SignalSet
  <2>3. f \in Findings
    <3>. HIDE DEF d
    <3>1. <<d.kind, Subject(d)>>[1] = d.kind /\ <<d.kind, Subject(d)>>[2] = Subject(d)
      OBVIOUS
    <3>2. Changed(d.kind, Subject(d)) # {}
      BY <2>1
    <3>. QED BY <1>6, <2>2, <3>1, <3>2
  <2>. HIDE DEF d
  <2>4. f.kind = d.kind /\ f.of = Subject(d) /\ Severity(D(at).verdict) <= Severity(f.verdict)
    BY <1>5, <2>1
  <2>5. \A g \in Findings : g.kind = d.kind /\ g.of = Subject(d) => g = f
    BY <1>7
  <2>6. Severity(f.verdict) >= Severity(D(at).verdict)
    <3>1. f.verdict \in {"warn", "fail"} /\ D(at).verdict \in Verdicts
      BY <1>2, <1>5, <2>1
    <3>. QED BY <1>3, <2>4, <3>1 DEF Verdicts
  <2>. QED BY <2>3, <2>4, <2>5, <2>6 DEF d
<1>. QED BY <1>7, <1>8

-----------------------------------------------------------------------------
(* The invariant is inductive. *)

LEMMA AppendFacts ==
    ASSUME NEW S, NEW s \in Seq(S), NEW x \in S
    PROVE  /\ Append(s, x) \in Seq(S) /\ Len(Append(s, x)) = Len(s) + 1 /\ Len(s) \in Nat
           /\ DOMAIN Append(s, x) = DOMAIN s \cup {Len(s) + 1} /\ DOMAIN s = 1 .. Len(s)
           /\ \A i \in DOMAIN s : Append(s, x)[i] = s[i]
           /\ Append(s, x)[Len(s) + 1] = x
OBVIOUS

LEMMA InitInv == Init => IInv
<1>. SUFFICES ASSUME Init PROVE IInv
  OBVIOUS
<1>1. ListInv
  <2>1. Cases \in Nat
    BY BoundsAssumption
  <2>. QED BY <2>1 DEF Init, ListInv
<1>2. PhaseInv
  BY BoundsAssumption DEF Init, PhaseInv, None, NoSummary, Verdicts
<1>3. verdict = None /\ deltas = <<>> /\ evals = <<>>
  BY DEF Init
<1>. QED BY <1>1, <1>2, <1>3 DEF IInv, FitInv, CorrectedInv, VerdictSettled, FullPassIsFull

LEMMA CompareStep ==
    ASSUME IInv, NEW s \in setting.samples, CompareTestCase(s[1], s[2])
    PROVE  IInv'
<1>. DEFINE b == s[1]
            c == s[2]
            ds == DeltasOf(b, c)
<1>0. ListInv /\ FitInv /\ PhaseInv /\ FullPassIsFull
  BY DEF IInv
<1>1. /\ pc = "compare"
      /\ samples' = Append(samples, <<b, c>>) /\ deltas' = Append(deltas, ds)
      /\ overall' = Append(overall, Worst(VerdictsOf(ds)))
      /\ pc' = IF Len(deltas) + 1 = Cases THEN "correct" ELSE pc
      /\ UNCHANGED <<setting, verdict, weak, evals, summary>>
  BY DEF CompareTestCase
<1>2. b \in Sides /\ c \in Sides /\ <<b, c>> \in Sides \X Sides
  <2>1. setting \in Settings
    BY <1>0 DEF PhaseInv
  <2>2. s \in Sides \X Sides
    BY <2>1, SettingsAssumption
  <2>. QED BY <2>2
<1>3. /\ DOMAIN ds \subseteq DOMAIN Signals
      /\ \A k \in DOMAIN ds : ds[k] = Delta(Signals[k], b, c) /\ Signals[k] \in SignalSet
  BY SignalFacts DEF DeltasOf, Compared
<1>. HIDE DEF b, c, ds
<1>4. \A k \in DOMAIN ds : ds[k] \in DeltaRecords
  BY <1>2, <1>3, DeltaFacts
<1>5. ds \in CaseDeltas
  <2>1. ds = [k \in DOMAIN ds |-> ds[k]]
    BY DEF ds, DeltasOf
  <2>2. ds \in [DOMAIN ds -> DeltaRecords]
    BY <1>4, <2>1
  <2>. QED BY <1>3, <2>2 DEF CaseDeltas
<1>6. Fits(ds, b, c)
  <2>. SUFFICES ASSUME NEW k \in DOMAIN ds
                PROVE  /\ Coherent(ds[k])
                       /\ ds[k].kind = Signals[k][1] /\ ds[k].of = Signals[k][2]
                       /\ b = <<>> \/ c = <<>> => ds[k].p = One /\ ds[k].adjusted = One * Scale
    BY DEF Fits
  <2>. QED BY <1>2, <1>3, DeltaFacts
<1>7. Worst(VerdictsOf(ds)) \in Verdicts
  <2>1. VerdictsOf(ds) \in SUBSET Verdicts
    BY <1>4 DEF VerdictsOf, DeltaRecords
  <2>. QED BY <2>1, WorstIs DEF Verdicts
<1>8. /\ samples \in Seq(Sides \X Sides) /\ deltas \in Seq(CaseDeltas) /\ overall \in Seq(Verdicts)
      /\ Len(deltas) = Len(samples) /\ Len(overall) = Len(samples) /\ Len(samples) < Cases
  BY <1>0, <1>1 DEF ListInv, PhaseInv
<1>9. ListInv'
  <2>1. /\ samples' \in Seq(Sides \X Sides) /\ deltas' \in Seq(CaseDeltas)
        /\ overall' \in Seq(Verdicts)
    BY <1>1, <1>2, <1>5, <1>7, <1>8
  <2>2. /\ Len(samples') = Len(samples) + 1 /\ Len(deltas') = Len(deltas) + 1
        /\ Len(overall') = Len(overall) + 1 /\ Len(samples) \in Nat
    BY <1>1, <1>2, <1>5, <1>7, <1>8
  <2>3. Cases \in Nat
    BY BoundsAssumption
  <2>. QED BY <1>0, <1>1, <1>8, <2>1, <2>2, <2>3 DEF ListInv
<1>10. FitInv'
  <2>. SUFFICES ASSUME NEW i \in DOMAIN deltas'
                PROVE  Fits(deltas'[i], samples'[i][1], samples'[i][2])
    BY DEF FitInv
  <2>1. CASE i \in DOMAIN deltas
    <3>1. deltas'[i] = deltas[i] /\ samples'[i] = samples[i]
      BY <1>1, <1>2, <1>5, <1>8, <2>1
    <3>. QED BY <1>0, <2>1, <3>1 DEF FitInv
  <2>2. CASE i \notin DOMAIN deltas
    <3>1. deltas'[i] = ds /\ samples'[i] = <<b, c>>
      BY <1>1, <1>2, <1>5, <1>8, <2>2
    <3>. QED BY <1>6, <3>1
  <2>. QED BY <2>1, <2>2
<1>11. PhaseInv'
  <2>1. Len(samples') = Len(samples) + 1 /\ Len(samples) \in Nat /\ Cases \in Nat
    BY <1>1, <1>2, <1>8, BoundsAssumption
  <2>. QED BY <1>0, <1>1, <1>8, <2>1 DEF PhaseInv
<1>12. verdict' = None /\ evals' = evals
  BY <1>0, <1>1 DEF PhaseInv
<1>. QED BY <1>0, <1>9, <1>10, <1>11, <1>12
         DEF IInv, CorrectedInv, VerdictSettled, FullPassIsFull

LEMMA CorrectStep ==
    ASSUME IInv, Correct
    PROVE  IInv'
<1>0. ListInv /\ FitInv /\ PhaseInv /\ FullPassIsFull
  BY DEF IInv
<1>1. /\ pc = "correct" /\ deltas' = Corrected(deltas) /\ overall' = Recomputed(deltas')
      /\ verdict' = Worst(Range(overall'))
      /\ weak' = {i \in DOMAIN deltas : \E k \in DOMAIN deltas[i] : deltas[i][k].weak}
      /\ pc' = IF setting.command = "compare" THEN "evaluate" ELSE "summarise"
      /\ setting' = setting /\ samples' = samples /\ evals' = evals /\ summary' = summary
  BY DEF Correct
<1>2. /\ deltas \in Seq(CaseDeltas) /\ samples \in Seq(Sides \X Sides)
      /\ Len(samples) = Len(deltas) /\ Len(deltas) <= Cases
      /\ \A i \in DOMAIN deltas : Fits(deltas[i], samples[i][1], samples[i][2])
      /\ setting \in Settings /\ evals = <<>> /\ summary = NoSummary
  BY <1>0, <1>1 DEF ListInv, FitInv, PhaseInv
<1>3. /\ deltas' \in Seq(CaseDeltas) /\ Len(deltas') = Len(deltas)
      /\ \A i \in DOMAIN deltas' : Fits(deltas'[i], samples[i][1], samples[i][2])
      /\ setting.correction # "none" =>
           \A at \in Places(deltas') : deltas'[at[1]][at[2]].adjusted = Adjusted(Family(deltas'), at)
  BY <1>1, <1>2, CorrectedFacts, ZenonT(60)
<1>4. \A i \in DOMAIN deltas' : VerdictsOf(deltas'[i]) \in SUBSET Verdicts
  <2>1. \A i \in DOMAIN deltas' : \A k \in DOMAIN deltas'[i] : deltas'[i][k] \in DeltaRecords
    BY <1>3, PlaceFacts
  <2>. QED BY <2>1 DEF VerdictsOf, DeltaRecords
<1>5. /\ overall' = [i \in DOMAIN deltas' |-> Worst(VerdictsOf(deltas'[i]))]
      /\ overall' \in Seq(Verdicts) /\ Len(overall') = Len(deltas')
  <2>1. overall' = [i \in DOMAIN deltas' |-> Worst(VerdictsOf(deltas'[i]))]
    BY <1>1 DEF Recomputed
  <2>2. \A i \in DOMAIN deltas' : Worst(VerdictsOf(deltas'[i])) \in Verdicts
    BY <1>4, WorstIs DEF Verdicts
  <2>3. DOMAIN deltas' = 1 .. Len(deltas') /\ Len(deltas') \in Nat
    BY <1>3
  <2>4. overall' \in [1 .. Len(deltas') -> Verdicts]
    BY <2>1, <2>2, <2>3
  <2>5. overall' \in Seq(Verdicts)
    BY <2>3, <2>4, SeqDef
  <2>6. DOMAIN overall' = 1 .. Len(overall') /\ Len(overall') \in Nat /\ DOMAIN overall' = 1 .. Len(deltas')
    BY <2>4, <2>5
  <2>. QED BY <2>1, <2>3, <2>5, <2>6
<1>6. Range(overall') \in SUBSET Verdicts /\ verdict' \in Verdicts
  <2>1. Range(overall') \in SUBSET Verdicts
    BY <1>5 DEF Range
  <2>. QED BY <1>1, <2>1, WorstIs DEF Verdicts
<1>7. verdict' = "fail" <=> \E i \in DOMAIN deltas' : Worst(VerdictsOf(deltas'[i])) = "fail"
  <2>1. verdict' = "fail" <=> "fail" \in Range(overall')
    BY <1>1, <1>6, WorstIs
  <2>2. "fail" \in Range(overall') <=> \E i \in DOMAIN deltas' : Worst(VerdictsOf(deltas'[i])) = "fail"
    BY <1>5 DEF Range
  <2>. QED BY <2>1, <2>2
<1>8. ListInv'
  BY <1>0, <1>1, <1>2, <1>3, <1>5 DEF ListInv
<1>9. FitInv'
  BY <1>1, <1>3 DEF FitInv
<1>10. PhaseInv'
  <2>1. weak' \subseteq 1 .. Cases
    <3>1. DOMAIN deltas = 1 .. Len(deltas) /\ Len(deltas) \in Nat /\ Cases \in Nat
      BY <1>2, BoundsAssumption
    <3>. QED BY <1>1, <1>2, <3>1
  <2>2. verdict' # None
    BY <1>6 DEF Verdicts, None
  <2>3. Len(evals') < Cases
    BY <1>1, <1>2, BoundsAssumption
  <2>. QED BY <1>1, <1>2, <1>6, <2>1, <2>2, <2>3 DEF PhaseInv
<1>11. CorrectedInv'
  BY <1>1, <1>3 DEF CorrectedInv
<1>12. VerdictSettled'
  <2>1. \A i \in DOMAIN deltas' : overall'[i] = Worst(VerdictsOf(deltas'[i]))
    BY <1>5
  <2>2. verdict' = "fail" <=>
          \E at \in Places(deltas') :
             LET d == deltas'[at[1]][at[2]]
             IN  /\ d.significant /\ 100 * Abs(d.gap) >= Fail[d.kind] * d.unit
                 /\ \A side \in {1, 2} : samples'[at[1]][side] # <<>>
    <3>1. Len(samples) = Len(deltas')
      BY <1>2, <1>3
    <3>2. (\E i \in DOMAIN deltas' : Worst(VerdictsOf(deltas'[i])) = "fail") <=>
          \E at \in Places(deltas') :
             LET d == deltas'[at[1]][at[2]]
             IN  /\ d.significant /\ 100 * Abs(d.gap) >= Fail[d.kind] * d.unit
                 /\ \A side \in {1, 2} : samples[at[1]][side] # <<>>
      BY <1>2, <1>3, <3>1, FailFacts
    <3>. QED BY <1>1, <1>7, <3>2
  <2>. QED BY <1>1, <1>2, <2>1, <2>2 DEF VerdictSettled
<1>13. FullPassIsFull'
  BY <1>0, <1>1 DEF FullPassIsFull
<1>. QED BY <1>8, <1>9, <1>10, <1>11, <1>12, <1>13 DEF IInv

LEMMA EvaluateStep ==
    ASSUME IInv, NEW m \in setting.outputs, EvaluateOutput(m)
    PROVE  IInv'
<1>0. ListInv /\ FitInv /\ PhaseInv /\ CorrectedInv /\ VerdictSettled /\ FullPassIsFull
  BY DEF IInv
<1>. DEFINE e == Evaluation(m)
<1>1. /\ pc = "evaluate" /\ evals' = Append(evals, e)
      /\ pc' = IF Len(evals) + 1 = Cases THEN "done" ELSE pc
      /\ setting' = setting /\ samples' = samples /\ deltas' = deltas /\ overall' = overall
      /\ verdict' = verdict /\ weak' = weak /\ summary' = summary
  BY DEF EvaluateOutput
<1>2. FullPass(e)
  <2>1. m \in Meetings
    BY <1>0, SettingsAssumption DEF PhaseInv
  <2>. QED BY <2>1, EvaluationFacts
<1>. HIDE DEF e
<1>3. /\ evals \in Seq(Range(evals)) /\ Len(evals) < Cases /\ Len(evals) \in Nat /\ Cases \in Nat
  BY <1>0, <1>1, BoundsAssumption DEF ListInv, PhaseInv
<1>4. /\ evals' \in Seq(Range(evals) \cup {e}) /\ Len(evals') = Len(evals) + 1
      /\ \A i \in DOMAIN evals' : IF i \in DOMAIN evals THEN evals'[i] = evals[i] ELSE evals'[i] = e
  <2>1. evals \in Seq(Range(evals) \cup {e}) /\ e \in Range(evals) \cup {e}
    BY <1>3
  <2>. QED BY <1>1, <2>1
<1>5. evals' \in Seq(Range(evals'))
  <2>1. evals' \in [1 .. Len(evals') -> Range(evals')] /\ Len(evals') \in Nat
    BY <1>4 DEF Range
  <2>. QED BY <2>1, SeqDef
<1>6. ListInv'
  BY <1>0, <1>1, <1>3, <1>4, <1>5 DEF ListInv
<1>7. PhaseInv'
  BY <1>0, <1>1, <1>3, <1>4 DEF PhaseInv
<1>8. FitInv' /\ CorrectedInv'
  BY <1>0, <1>1 DEF FitInv, CorrectedInv
<1>9. VerdictSettled'
  BY <1>0, <1>1 DEF VerdictSettled
<1>10. FullPassIsFull'
  <2>1. \A i \in DOMAIN evals' : FullPass(evals'[i])
    BY <1>0, <1>2, <1>4 DEF FullPassIsFull, FullPass
  <2>. QED BY <2>1 DEF FullPassIsFull, FullPass
<1>. QED BY <1>6, <1>7, <1>8, <1>9, <1>10 DEF IInv

LEMMA SummariseStep ==
    ASSUME IInv, Summarise
    PROVE  IInv'
<1>0. ListInv /\ FitInv /\ PhaseInv /\ CorrectedInv /\ VerdictSettled /\ FullPassIsFull
  BY DEF IInv
<1>. DEFINE warned == IF setting.inputs = "enough" THEN "pass" ELSE "warn"
            all == {verdict, warned} \cup {f.verdict : f \in Findings}
            least == {verdict} \cup {v \in {"warn"} : setting.inputs # "enough"}
<1>1. /\ pc = "summarise" /\ summary' = [findings |-> Findings, verdict |-> Worst(all)]
      /\ pc' = IF setting.command = "server" THEN "evaluate" ELSE "done"
      /\ setting' = setting /\ samples' = samples /\ deltas' = deltas /\ overall' = overall
      /\ verdict' = verdict /\ weak' = weak /\ evals' = evals
  BY DEF Summarise
<1>2. verdict # None /\ verdict \in Verdicts /\ setting.command # "compare" /\ evals = <<>>
  BY <1>0, <1>1 DEF PhaseInv
<1>3. Settled
  BY <1>0, <1>2 DEF VerdictSettled, Settled
<1>4. \A f \in Findings : f.verdict \in {"warn", "fail"} /\ Severity(f.verdict) <= Severity(verdict)
  BY <1>0, <1>3, FindingsFacts
<1>5. Worst(all) \in Verdicts /\ Worst(all) = Worst(least)
  <2>1. all \in SUBSET Verdicts /\ least \in SUBSET Verdicts
    BY <1>2, <1>4 DEF Verdicts
  <2>2. Severity("pass") = 0 /\ Severity("warn") = 1 /\ Severity("fail") = 2
    BY DEF Severity
  <2>3. "fail" \in all <=> "fail" \in least
    BY <1>2, <1>4, <2>2 DEF Verdicts
  <2>4. "warn" \in least => "warn" \in all
    OBVIOUS
  <2>5. "warn" \in all => "warn" \in least \/ "fail" \in least
    BY <1>2, <1>4, <2>2 DEF Verdicts
  <2>. HIDE DEF all, least
  <2>. QED BY <2>1, <2>3, <2>4, <2>5, WorstIs DEF Verdicts
<1>. HIDE DEF all, least
<1>6. summary'.findings = Findings /\ summary'.verdict = Worst(all)
  BY <1>1
<1>7. ListInv' /\ FitInv'
  BY <1>0, <1>1 DEF ListInv, FitInv
<1>8. PhaseInv'
  <2>1. Len(evals') < Cases
    BY <1>1, <1>2, BoundsAssumption
  <2>2. \A f \in summary'.findings : f.verdict \in {"warn", "fail"}
    BY <1>4, <1>6
  <2>. QED BY <1>0, <1>1, <1>2, <1>5, <1>6, <2>1, <2>2 DEF PhaseInv
<1>9. CorrectedInv'
  BY <1>0, <1>1 DEF CorrectedInv
<1>10. FullPassIsFull'
  BY <1>0, <1>1 DEF FullPassIsFull
<1>11. VerdictSettled'
  <2>1. \A i \in DOMAIN deltas' : overall'[i] = Worst(VerdictsOf(deltas'[i]))
    BY <1>1, <1>3 DEF Settled
  <2>2. verdict' = Worst(Range(overall'))
    BY <1>1, <1>3 DEF Settled
  <2>3. verdict' = "fail" <=>
          \E at \in Places(deltas') :
             LET d == deltas'[at[1]][at[2]]
             IN  /\ d.significant /\ 100 * Abs(d.gap) >= Fail[d.kind] * d.unit
                 /\ \A side \in {1, 2} : samples'[at[1]][side] # <<>>
    BY <1>0, <1>1, <1>2 DEF VerdictSettled
  <2>4. summary'.verdict = Worst({verdict'} \cup {v \in {"warn"} : setting'.inputs # "enough"})
    BY <1>1, <1>5, <1>6 DEF least
  <2>5. \A at \in Places(deltas') :
           LET d == deltas'[at[1]][at[2]]
           IN  d.kind # "tool" /\ d.verdict # "pass" =>
                 \E f \in summary'.findings :
                    /\ f.kind = d.kind /\ f.of = Subject(d)
                    /\ Severity(f.verdict) >= Severity(d.verdict)
                    /\ \A g \in summary'.findings :
                          g.kind = d.kind /\ g.of = Subject(d) => g = f
    BY <1>0, <1>1, <1>3, <1>6, FindingsFacts
  <2>6. \A f \in summary'.findings :
           \E at \in Places(deltas') :
              LET d == deltas'[at[1]][at[2]]
              IN  d.kind = f.kind /\ Subject(d) = f.of /\ d.verdict = f.verdict
    BY <1>0, <1>1, <1>3, <1>6, FindingsFacts
  <2>. QED BY <2>1, <2>2, <2>3, <2>4, <2>5, <2>6 DEF VerdictSettled
<1>. QED BY <1>7, <1>8, <1>9, <1>10, <1>11 DEF IInv
LEMMA StutterStep ==
    ASSUME IInv, UNCHANGED vars
    PROVE  IInv'
<1>1. /\ setting' = setting /\ pc' = pc /\ samples' = samples /\ deltas' = deltas
      /\ overall' = overall /\ verdict' = verdict /\ weak' = weak /\ evals' = evals
      /\ summary' = summary
  BY DEF vars
<1>2. ListInv' /\ FitInv' /\ PhaseInv' /\ CorrectedInv'
  BY <1>1 DEF IInv, ListInv, FitInv, PhaseInv, CorrectedInv
<1>3. VerdictSettled' /\ FullPassIsFull'
  BY <1>1 DEF IInv, VerdictSettled, FullPassIsFull
<1>. QED BY <1>2, <1>3 DEF IInv

(* The invariant the other theorems rest on: the lists have one place for  *)
(* each compared case, every delta is that of its samples (compare.py:381- *)
(* 463) and, once corrected, has the adjusted probability of its place in  *)
(* the family (compare.py:534-546), and each phase leaves what the next    *)
(* one reads.                                                              *)
THEOREM Inductive == Spec => []IInv
<1>1. Init => IInv
  BY InitInv
<1>2. IInv /\ [Next]_vars => IInv'
  <2>. SUFFICES ASSUME IInv, [Next]_vars
                PROVE  IInv'
    OBVIOUS
  <2>1. CASE \E s \in setting.samples : CompareTestCase(s[1], s[2])
    <3>1. PICK s \in setting.samples : CompareTestCase(s[1], s[2])
      BY <2>1
    <3>2. setting \in Settings
      BY DEF IInv, PhaseInv
    <3>3. s \in Sides \X Sides
      BY <3>1, <3>2, SettingsAssumption
    <3>4. s[1] \in Sides /\ s[2] \in Sides
      BY <3>3
    <3>. QED BY <3>1, <3>4, CompareStep
  <2>2. CASE Correct
    BY <2>2, CorrectStep
  <2>3. CASE \E m \in setting.outputs : EvaluateOutput(m)
    BY <2>3, EvaluateStep
  <2>4. CASE Summarise
    BY <2>4, SummariseStep
  <2>5. CASE UNCHANGED vars
    BY <2>5, StutterStep
  <2>. QED BY <2>1, <2>2, <2>3, <2>4, <2>5 DEF Next
<1>. QED BY <1>1, <1>2, PTL DEF Spec

(* Type correctness: each case has its deltas and its verdict, every       *)
(* probability stays one through the correction (stats.py:145-165), and a  *)
(* summary is there only where a command makes one.                        *)
THEOREM TypeCorrect == Spec => []TypeOK
<1>1. IInv => TypeOK
  <2>. SUFFICES ASSUME IInv PROVE TypeOK
    OBVIOUS
  <2>0. ListInv /\ FitInv /\ PhaseInv
    BY DEF IInv
  <2>1. DOMAIN deltas = DOMAIN samples /\ DOMAIN overall = DOMAIN samples
    BY <2>0 DEF ListInv
  <2>2. ASSUME NEW at \in Places(deltas)
        PROVE  LET d == deltas[at[1]][at[2]]
               IN  /\ d.kind \in Kinds /\ d.gap \in Int /\ d.unit \in Nat \ {0}
                   /\ d.p \in 0 .. One /\ d.adjusted \in 0 .. One * Scale
                   /\ d.significant \in BOOLEAN /\ d.verdict \in Verdicts
    <3>1. deltas[at[1]][at[2]] \in DeltaRecords
      BY <2>0, PlaceFacts DEF ListInv
    <3>. QED BY <3>1 DEF DeltaRecords
  <2>3. Range(overall) \subseteq Verdicts
    BY <2>0 DEF ListInv, Range
  <2>4. summary # NoSummary => /\ pc \in {"evaluate", "done"} /\ setting.command # "compare"
                               /\ summary.verdict \in Verdicts
                               /\ \A f \in summary.findings : f.verdict \in {"warn", "fail"}
    BY <2>0 DEF PhaseInv
  <2>. QED BY <2>0, <2>1, <2>2, <2>3, <2>4 DEF TypeOK, ListInv, PhaseInv
<1>. QED BY <1>1, Inductive, PTL

(* The correction that the code computes by ranks and a running minimum    *)
(* (stats.py:145-165) is the step-up procedure, for every family whose     *)
(* sizes divide Scale, ties included.                                      *)
THEOREM StepUp == Spec => []CorrectionIsStepUp
<1>1. IInv => CorrectionIsStepUp
  <2>. SUFFICES ASSUME IInv, verdict # None, setting.correction = "benjamini_hochberg",
                       NEW at \in Places(deltas)
                PROVE  deltas[at[1]][at[2]].significant <=>
                         \E by \in Places(deltas) :
                            /\ Family(deltas)[at] <= Family(deltas)[by]
                            /\ Family(deltas)[by] * Cardinality(Places(deltas)) <
                                 Alpha * Cardinality({c \in DOMAIN Family(deltas) :
                                             Family(deltas)[c] <= Family(deltas)[by]})
    BY DEF CorrectionIsStepUp
  <2>. DEFINE p == Family(deltas)
  <2>0. ListInv /\ FitInv /\ CorrectedInv
    BY DEF IInv
  <2>1. /\ Places(deltas) \in SUBSET (Nat \X Nat) /\ IsFiniteSet(Places(deltas))
        /\ \A n \in 1 .. Cardinality(Places(deltas)) : Scale % n = 0
        /\ p \in Families(Places(deltas))
    BY <2>0, FamilyFacts DEF ListInv
  <2>2. deltas[at[1]][at[2]].adjusted = Adjusted(p, at)
    BY <2>0 DEF CorrectedInv
  <2>3. Coherent(deltas[at[1]][at[2]])
    <3>1. at[1] \in DOMAIN deltas /\ at[2] \in DOMAIN deltas[at[1]]
      BY <2>0, PlaceFacts DEF ListInv
    <3>. QED BY <2>0, <3>1 DEF FitInv, Fits
  <2>4. deltas[at[1]][at[2]].significant <=> Significant(Adjusted(p, at), Alpha)
    BY <2>2, <2>3 DEF Coherent
  <2>5. DOMAIN p = Places(deltas)
    BY DEF Family
  <2>. HIDE DEF p
  <2>6. Significant(Adjusted(p, at), Alpha) <=>
          \E b \in Places(deltas) :
             /\ p[at] <= p[b]
             /\ p[b] * Cardinality(Places(deltas)) <
                  Alpha * Cardinality({c \in Places(deltas) : p[c] <= p[b]})
    BY <2>1, AdjustedFacts
  <2>. QED BY <2>4, <2>5, <2>6 DEF p
<1>. QED BY <1>1, Inductive, PTL

(* Nothing that is reported is provisional: the verdicts of the cases, of  *)
(* the comparison and of the incident are recomputed from the corrected    *)
(* deltas (compare.py:548-552, findings.py:119-133), and each changed      *)
(* agent and metric has its one finding.                                   *)
THEOREM Settles == Spec => []VerdictSettled
<1>1. IInv => VerdictSettled
  BY DEF IInv
<1>. QED BY <1>1, Inductive, PTL

(* An evaluation that passes with nothing skipped was a full one, whatever *)
(* the outputs, the embedding and the judge are (output_eval.py:225-227).  *)
THEOREM FullPasses == Spec => []FullPassIsFull
<1>1. IInv => FullPassIsFull
  BY DEF IInv
<1>. QED BY <1>1, Inductive, PTL
=============================================================================

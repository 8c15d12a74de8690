--------------------------- MODULE AttributionProofs ---------------------------
(***************************************************************************)
(* Proofs about Attribution for every repository, every set of runs and    *)
(* any number of files, agents and cases.  A blame is what the rules give  *)
(* for the manifests of its function and for the files that a complete     *)
(* walk of the imports visits, and there is one complete walk from a file; *)
(* IInv says so of all the blames made, and of the walk under way.         *)
(***************************************************************************)
EXTENDS Attribution, TLAPS, FiniteSetTheorems, SequenceTheorems, WellFoundedInduction, NaturalsInduction

(* A set of natural numbers that is not empty has a least element. *)
LEMMA LeastIndex ==
    ASSUME NEW I \in SUBSET Nat, I # {}
    PROVE  \E i \in I : \A k \in I : i <= k
<1> DEFINE R == {ss \in Nat \X Nat : ss[1] < ss[2]}
<1>1. \A k, i \in Nat : k < i => <<k, i>> \in R
  <2> SUFFICES ASSUME NEW k \in Nat, NEW i \in Nat, k < i PROVE <<k, i>> \in R
    OBVIOUS
  <2>1. <<k, i>> \in Nat \X Nat /\ <<k, i>>[1] = k /\ <<k, i>>[2] = i
    OBVIOUS
  <2> QED
    BY <2>1
<1>2. IsWellFoundedOn(R, Nat)
  BY NatLessThanWellFounded DEF OpToRel
<1> HIDE DEF R
<1>3. PICK i \in I : \A k \in I : ~(<<k, i>> \in R)
  BY <1>2, WFMin
<1>4. ASSUME NEW k \in I PROVE i <= k
  <2>1. k \in Nat /\ i \in Nat /\ ~(k < i)
    BY <1>1, <1>3, <1>4
  <2> QED
    BY <2>1
<1> QED
  BY <1>4

LEMMA MinLeast ==
    ASSUME NEW S \in SUBSET Nat, S # {}
    PROVE  Min(S) \in S /\ \A j \in S : Min(S) <= j
<1>1. PICK i \in S : \A j \in S : i <= j
  BY LeastIndex
<1>. QED BY <1>1 DEF Min

(* The total of a sequence: the definition by recursion has a solution for *)
(* every length, by the least length that has none.                        *)
(* The greatest of the values f has on a set that is not empty, when they   *)
(* have a bound.                                                           *)
LEMMA Greatest ==
    ASSUME NEW S, S # {}, NEW n \in Nat, NEW f, \A x \in S : f[x] \in 0 .. n
    PROVE  \E x \in S : \A y \in S : f[y] <= f[x]
<1>. DEFINE Gaps == {n - f[x] : x \in S}
<1>1. Gaps \in SUBSET Nat /\ Gaps # {}
  OBVIOUS
<1>2. PICK g \in Gaps : \A h \in Gaps : g <= h
  BY <1>1, LeastIndex
<1>3. PICK x \in S : g = n - f[x]
  BY <1>2
<1>4. ASSUME NEW y \in S PROVE f[y] <= f[x]
  <2>1. n - f[y] \in Gaps
    OBVIOUS
  <2>2. n - f[x] <= n - f[y]
    BY <1>2, <1>3, <2>1
  <2>. QED BY <2>2
<1>. QED BY <1>4

LEMMA MaxGreatest ==
    ASSUME NEW n \in Nat, NEW S \in SUBSET (0 .. n), S # {}
    PROVE  Max(S) \in S /\ \A j \in S : j <= Max(S)
<1>. DEFINE f == [x \in S |-> x]
<1>1. \A x \in S : f[x] \in 0 .. n
  OBVIOUS
<1>2. PICK x \in S : \A y \in S : f[y] <= f[x]
  BY <1>1, Greatest
<1>3. \A y \in S : y <= x
  BY <1>2
<1>. QED BY <1>3 DEF Max

-----------------------------------------------------------------------------
(* Lists and stacks. *)

LEMMA StackFacts ==
    ASSUME NEW S, NEW s \in Seq(S), s # <<>>
    PROVE  Front(s) \in Seq(S) /\ Last(s) \in S /\ Range(s) = Range(Front(s)) \cup {Last(s)}
<1>. DEFINE n == Len(s)
            f == SubSeq(s, 1, n - 1)
<1>1. n \in Nat \ {0} /\ DOMAIN s = 1 .. n
  BY LenProperties, EmptySeq
<1>2. \A i \in 1 .. n : s[i] \in S
  BY ElementOfSeq
<1>3. f \in Seq(S) /\ Len(f) = n - 1 /\ \A i \in 1 .. n - 1 : f[i] = s[i]
  <2>1. \A i \in 1 .. n - 1 : s[i] \in S
    BY <1>1, <1>2
  <2>2. 1 \in Int /\ n - 1 \in Int
    BY <1>1
  <2>3. /\ f \in Seq(S) /\ Len(f) = IF 1 <= n - 1 THEN n - 1 ELSE 0
        /\ \A i \in 1 .. n - 1 : f[i] = s[i]
    BY <1>1, <2>1, <2>2, SubSeqProperties
  <2>. QED BY <1>1, <2>3
<1>4. DOMAIN f = 1 .. n - 1
  BY <1>3, LenProperties
<1>. HIDE DEF n, f
<1>5. Range(s) = {s[i] : i \in 1 .. n} /\ Range(f) = {s[i] : i \in 1 .. n - 1}
  BY <1>1, <1>3, <1>4 DEF Range
<1>6. 1 .. n = 1 .. n - 1 \cup {n}
  BY <1>1
<1>7. Range(s) = Range(f) \cup {s[n]}
  BY <1>5, <1>6
<1>8. s[n] \in S
  BY <1>1, <1>2
<1>. QED BY <1>3, <1>7, <1>8 DEF Front, Last, n, f

LEMMA JoinFacts ==
    ASSUME NEW S, NEW s \in Seq(S), NEW t \in Seq(S)
    PROVE  s \o t \in Seq(S) /\ Range(s \o t) = Range(s) \cup Range(t)
BY ConcatProperties, RangeConcatenation

(* What Unseen leaves of a list.  Its recursive definition has a solution  *)
(* for every length, by the least length that has none.                    *)
LEMMA UnseenFacts ==
    ASSUME NEW S, NEW list \in Seq(S), NEW seen
    PROVE  Unseen(list, seen) \in Seq(S) /\ Range(Unseen(list, seen)) = Range(list) \ seen
<1>. DEFINE Piece(i) == IF list[i] \in seen THEN <<>> ELSE <<list[i]>>
            Joined(n, f) == f = [i \in 0 .. n |-> IF i = 0 THEN <<>> ELSE f[i - 1] \o Piece(i)]
            Bad == {n \in 0 .. Len(list) : ~ \E f : Joined(n, f)}
<1>1. Bad = {}
  <2>. SUFFICES ASSUME Bad # {} PROVE FALSE
    OBVIOUS
  <2>1. PICK n \in Bad : \A m \in Bad : n <= m
    <3>. HIDE DEF Joined
    <3>1. Bad \in SUBSET Nat
      OBVIOUS
    <3>. QED BY <3>1, LeastIndex
  <2>2. n \in 0 .. Len(list) /\ Len(list) \in Nat
    OBVIOUS
  <2>3. n # 0
    <3>1. Joined(0, [i \in 0 .. 0 |-> <<>>])
      OBVIOUS
    <3>. QED BY <3>1
  <2>4. PICK f : Joined(n - 1, f)
    <3>1. n - 1 \in 0 .. Len(list) /\ ~ (n <= n - 1)
      BY <2>2, <2>3
    <3>2. n - 1 \notin Bad
      BY <2>1, <3>1
    <3>. QED BY <3>1, <3>2
  <2>. DEFINE g == [i \in 0 .. n |-> IF i = n THEN f[n - 1] \o Piece(n) ELSE f[i]]
  <2>. HIDE DEF Piece
  <2>5. \A i \in 0 .. n : g[i] = IF i = 0 THEN <<>> ELSE g[i - 1] \o Piece(i)
    <3>. TAKE i \in 0 .. n
    <3>1. CASE i = n
      <4>1. g[n] = f[n - 1] \o Piece(n) /\ n - 1 \in 0 .. n /\ n - 1 # n /\ n \in 0 .. n
        BY <2>2, <2>3
      <4>2. g[n - 1] = f[n - 1]
        BY <4>1
      <4>. QED BY <2>3, <3>1, <4>1, <4>2
    <3>2. CASE i # n
      <4>1. i \in 0 .. n - 1 /\ (i # 0 => i - 1 \in 0 .. n /\ i - 1 # n)
        BY <2>2, <3>2
      <4>2. f[i] = IF i = 0 THEN <<>> ELSE f[i - 1] \o Piece(i)
        BY <2>4, <4>1
      <4>. QED BY <3>2, <4>1, <4>2
    <3>. QED BY <3>1, <3>2
  <2>6. Joined(n, g)
    <3>. HIDE DEF Piece
    <3>. QED BY <2>5, Zenon
  <2>. HIDE DEF g
  <2>. QED BY <2>6
<1>. DEFINE upto == CHOOSE f : Joined(Len(list), f)
<1>2. Joined(Len(list), upto)
  <2>. HIDE DEF Joined
  <2>1. Len(list) \in 0 .. Len(list)
    OBVIOUS
  <2>2. \E f : Joined(Len(list), f)
    BY <1>1, <2>1
  <2>. QED BY <2>2
<1>. DEFINE Kept(i) == upto[i] \in Seq(S) /\ Range(upto[i]) = {list[j] : j \in 1 .. i} \ seen
            Off == {i \in 0 .. Len(list) : ~Kept(i)}
<1>3. Unseen(list, seen) = upto[Len(list)]
  BY DEF Unseen
<1>4. ASSUME NEW i \in 1 .. Len(list) PROVE Piece(i) \in Seq(S) /\ Range(Piece(i)) = {list[i]} \ seen
  <2>1. list[i] \in S
    OBVIOUS
  <2>2. <<list[i]>> \in Seq(S) /\ <<>> \in Seq(S)
    BY <2>1
  <2>3. Range(<<list[i]>>) = {list[i]} /\ Range(<<>>) = {}
    BY DEF Range
  <2>. QED BY <2>2, <2>3
<1>. HIDE DEF Piece
<1>5. upto[0] = <<>> /\ \A i \in 1 .. Len(list) : upto[i] = upto[i - 1] \o Piece(i)
  <2>. HIDE DEF upto
  <2>1. upto = [i \in 0 .. Len(list) |-> IF i = 0 THEN <<>> ELSE upto[i - 1] \o Piece(i)]
    BY <1>2
  <2>. DEFINE F(i) == IF i = 0 THEN <<>> ELSE upto[i - 1] \o Piece(i)
  <2>2. \A i \in 0 .. Len(list) : upto[i] = F(i)
    <3>. HIDE DEF F
    <3>1. upto = [i \in 0 .. Len(list) |-> F(i)]
      BY <2>1 DEF F
    <3>. QED BY <3>1, Zenon
  <2>3. 0 \in 0 .. Len(list) /\ \A i \in 1 .. Len(list) : i \in 0 .. Len(list) /\ i # 0
    OBVIOUS
  <2>4. F(0) = <<>> /\ \A i : i # 0 => F(i) = upto[i - 1] \o Piece(i)
    OBVIOUS
  <2>. HIDE DEF F
  <2>. QED BY <2>2, <2>3, <2>4
<1>. HIDE DEF upto, Joined, Bad
<1>6. Off = {}
  <2>. SUFFICES ASSUME Off # {} PROVE FALSE
    OBVIOUS
  <2>1. PICK i \in Off : \A j \in Off : i <= j
    <3>1. Off \in SUBSET Nat
      OBVIOUS
    <3>. QED BY <3>1, LeastIndex
  <2>2. CASE i = 0
    <3>1. Range(<<>>) = {} /\ <<>> \in Seq(S) /\ 1 .. 0 = {}
      BY DEF Range
    <3>2. Kept(0)
      BY <1>5, <3>1
    <3>. QED BY <2>1, <2>2, <3>2
  <2>3. CASE i # 0
    <3>1. i \in 1 .. Len(list) /\ i - 1 \in 0 .. Len(list) /\ ~ (i <= i - 1) /\ Len(list) \in Nat
      BY <2>1, <2>3
    <3>2. Kept(i - 1)
      BY <2>1, <3>1
    <3>3. upto[i] = upto[i - 1] \o Piece(i)
      BY <1>5, <3>1
    <3>4. upto[i] \in Seq(S) /\ Range(upto[i]) = Range(upto[i - 1]) \cup Range(Piece(i))
      BY <1>4, <3>1, <3>2, <3>3, JoinFacts
    <3>5. {list[j] : j \in 1 .. i} = {list[j] : j \in 1 .. i - 1} \cup {list[i]}
      <4>1. 1 .. i = 1 .. i - 1 \cup {i}
        BY <3>1
      <4>. QED BY <4>1
    <3>6. Range(upto[i]) = {list[j] : j \in 1 .. i} \ seen
      BY <1>4, <3>1, <3>2, <3>4, <3>5
    <3>. QED BY <2>1, <3>4, <3>6
  <2>. QED BY <2>2, <2>3
<1>7. Kept(Len(list))
  <2>1. Len(list) \in 0 .. Len(list)
    OBVIOUS
  <2>. QED BY <1>6, <2>1
<1>8. Range(list) = {list[j] : j \in 1 .. Len(list)}
  BY DEF Range
<1>. QED BY <1>3, <1>7, <1>8
-----------------------------------------------------------------------------
(* The walk of the imports from one file. *)

Going(s) == s.stack # <<>> /\ Cardinality(s.seen) < MaxFiles
Onward(imports, s) ==
    LET f == Last(s.stack)
        seen == s.seen \cup {f}
    IN  [seen |-> seen,
         stack |-> Front(s.stack) \o (IF f \in s.seen THEN <<>> ELSE Unseen(imports[f], seen))]

(* The first n steps of the walk. *)
Trail(imports, file, n, t) ==
    /\ t[0] = [seen |-> {}, stack |-> <<file>>]
    /\ \A k \in 0 .. n - 1 : Going(t[k]) /\ t[k + 1] = Onward(imports, t[k])

Walked(imports, file, s) == \E n \in Nat : \E t : Trail(imports, file, n, t) /\ t[n] = s

(* The files that a complete walk visits. *)
Complete(imports, file, v) ==
    \E s : Walked(imports, file, s) /\ ~Going(s) /\ v = s.seen

LEMMA WalkStarts ==
    ASSUME NEW imports, NEW file
    PROVE  Walked(imports, file, [seen |-> {}, stack |-> <<file>>])
<1>. DEFINE s == [seen |-> {}, stack |-> <<file>>]
            t == [k \in {0} |-> s]
<1>1. t[0] = s
  OBVIOUS
<1>. HIDE DEF t
<1>2. Trail(imports, file, 0, t)
  BY <1>1 DEF Trail
<1>. QED BY <1>1, <1>2 DEF Walked

LEMMA WalkGoesOn ==
    ASSUME NEW imports, NEW file, NEW s, Walked(imports, file, s), Going(s)
    PROVE  Walked(imports, file, Onward(imports, s))
<1>1. PICK n \in Nat : \E t : Trail(imports, file, n, t) /\ t[n] = s
  BY DEF Walked
<1>2. PICK t : Trail(imports, file, n, t) /\ t[n] = s
  BY <1>1
<1>. DEFINE u == [k \in 0 .. n + 1 |-> IF k = n + 1 THEN Onward(imports, s) ELSE t[k]]
<1>3. u[n + 1] = Onward(imports, s) /\ \A k \in 0 .. n : u[k] = t[k]
  OBVIOUS
<1>. HIDE DEF u
<1>4. u[0] = [seen |-> {}, stack |-> <<file>>]
  BY <1>2, <1>3 DEF Trail
<1>5. ASSUME NEW k \in 0 .. n + 1 - 1
      PROVE  Going(u[k]) /\ u[k + 1] = Onward(imports, u[k])
  <2>1. CASE k = n
    BY <1>2, <1>3, <2>1
  <2>2. CASE k # n
    <3>1. k \in 0 .. n - 1 /\ k \in 0 .. n /\ k + 1 \in 0 .. n
      BY <2>2
    <3>2. Going(t[k]) /\ t[k + 1] = Onward(imports, t[k])
      BY <1>2, <3>1 DEF Trail
    <3>. QED BY <1>3, <3>1, <3>2
  <2>. QED BY <2>1, <2>2
<1>6. Trail(imports, file, n + 1, u) /\ n + 1 \in Nat
  BY <1>4, <1>5 DEF Trail
<1>. QED BY <1>3, <1>6 DEF Walked

(* Two walks from one file take the same steps, and end in the same place. *)
LEMMA OneWalk ==
    ASSUME NEW imports, NEW file, NEW v, NEW w,
           Complete(imports, file, v), Complete(imports, file, w)
    PROVE  v = w
<1>1. PICK s : Walked(imports, file, s) /\ ~Going(s) /\ v = s.seen
  BY DEF Complete
<1>2. PICK r : Walked(imports, file, r) /\ ~Going(r) /\ w = r.seen
  BY DEF Complete
<1>3. PICK n \in Nat : \E t : Trail(imports, file, n, t) /\ t[n] = s
  BY <1>1 DEF Walked
<1>4. PICK t : Trail(imports, file, n, t) /\ t[n] = s
  BY <1>3
<1>5. PICK m \in Nat : \E u : Trail(imports, file, m, u) /\ u[m] = r
  BY <1>2 DEF Walked
<1>6. PICK u : Trail(imports, file, m, u) /\ u[m] = r
  BY <1>5
<1>. DEFINE Off == {k \in Nat : k <= n /\ k <= m /\ t[k] # u[k]}
<1>7. Off = {}
  <2>. SUFFICES ASSUME Off # {} PROVE FALSE
    OBVIOUS
  <2>1. PICK k \in Off : \A j \in Off : k <= j
    <3>1. Off \in SUBSET Nat
      OBVIOUS
    <3>. QED BY <3>1, LeastIndex
  <2>2. k # 0
    BY <1>4, <1>6, <2>1 DEF Trail
  <2>3. k - 1 \in 0 .. n - 1 /\ k - 1 \in 0 .. m - 1 /\ ~ (k <= k - 1)
    BY <2>1, <2>2
  <2>4. t[k - 1] = u[k - 1]
    BY <2>1, <2>3
  <2>5. t[k - 1 + 1] = Onward(imports, t[k - 1]) /\ u[k - 1 + 1] = Onward(imports, u[k - 1])
    BY <1>4, <1>6, <2>3 DEF Trail
  <2>6. k - 1 + 1 = k
    BY <2>1
  <2>. QED BY <2>1, <2>4, <2>5, <2>6
<1>8. \A k \in Nat : k <= n /\ k <= m => t[k] = u[k]
  BY <1>7
<1>9. CASE n < m
  <2>1. Going(u[n])
    BY <1>6, <1>9 DEF Trail
  <2>. QED BY <1>1, <1>4, <1>8, <1>9, <2>1
<1>10. CASE m < n
  <2>1. Going(t[m])
    BY <1>4, <1>10 DEF Trail
  <2>. QED BY <1>2, <1>6, <1>8, <1>10, <2>1
<1>11. CASE n = m
  BY <1>1, <1>2, <1>4, <1>6, <1>8, <1>11
<1>. QED BY <1>9, <1>10, <1>11

(* A walk stays in every closed set that holds the file, and every import  *)
(* of a file it has seen is seen or on the stack.                          *)
Imports == [FilePaths -> Seq(FilePaths)]
Closed(imports, S) == \A f \in S : Range(imports[f]) \subseteq S
Reaches(imports, file, s) ==
    LET met == s.seen \cup Range(s.stack)
    IN  /\ s.seen \in SUBSET FilePaths /\ s.stack \in Seq(FilePaths)
        /\ file \in met
        /\ \A f \in s.seen : Range(imports[f]) \subseteq met
        /\ \A S \in SUBSET FilePaths : file \in S /\ Closed(imports, S) => met \subseteq S
        /\ Cardinality(s.seen) <= MaxFiles

LEMMA PathsFinite ==
    ASSUME NEW v \in SUBSET FilePaths
    PROVE  IsFiniteSet(v) /\ Cardinality(v) \in Nat
<1>1. Files \in Nat
  BY FileAssumption
<1>2. IsFiniteSet(FilePaths)
  BY <1>1, FS_Interval DEF FilePaths
<1>. QED BY <1>2, FS_Subset, FS_CardinalityType

LEMMA StartReaches ==
    ASSUME NEW imports \in Imports, NEW file \in FilePaths
    PROVE  Reaches(imports, file, [seen |-> {}, stack |-> <<file>>])
<1>1. Range(<<file>>) = {file} /\ <<file>> \in Seq(FilePaths)
  BY DEF Range
<1>2. Cardinality({}) = 0 /\ MaxFiles \in Nat
  BY FS_EmptySet, FileAssumption
<1>. QED BY <1>1, <1>2 DEF Reaches

LEMMA OnwardReaches ==
    ASSUME NEW imports \in Imports, NEW file \in FilePaths, NEW s,
           Reaches(imports, file, s), Going(s)
    PROVE  Reaches(imports, file, Onward(imports, s))
<1>. DEFINE f == Last(s.stack)
            v == s.seen \cup {f}
            more == IF f \in s.seen THEN <<>> ELSE Unseen(imports[f], v)
            met == s.seen \cup Range(s.stack)
            r == Onward(imports, s)
<1>1. r.seen = v /\ r.stack = Front(s.stack) \o more
  BY DEF Onward
<1>2. /\ s.seen \in SUBSET FilePaths /\ s.stack \in Seq(FilePaths) /\ s.stack # <<>>
      /\ Cardinality(s.seen) < MaxFiles
  BY DEF Reaches, Going
<1>3. /\ file \in met /\ \A g \in s.seen : Range(imports[g]) \subseteq met
      /\ \A S \in SUBSET FilePaths : file \in S /\ Closed(imports, S) => met \subseteq S
  BY DEF Reaches
<1>4. f \in FilePaths /\ Front(s.stack) \in Seq(FilePaths) /\ Range(s.stack) = Range(Front(s.stack)) \cup {f}
  BY <1>2, StackFacts
<1>5. imports[f] \in Seq(FilePaths)
  BY <1>4 DEF Imports
<1>. HIDE DEF f, v, met, r
<1>6. more \in Seq(FilePaths) /\ Range(more) = IF f \in s.seen THEN {} ELSE Range(imports[f]) \ v
  <2>1. Range(<<>>) = {} /\ <<>> \in Seq(FilePaths)
    BY DEF Range
  <2>. QED BY <1>5, <2>1, UnseenFacts
<1>. HIDE DEF more
<1>7. r.stack \in Seq(FilePaths) /\ Range(r.stack) = Range(Front(s.stack)) \cup Range(more)
  BY <1>1, <1>4, <1>6, JoinFacts
<1>8. v \in SUBSET FilePaths /\ Cardinality(v) <= MaxFiles
  <2>1. v \in SUBSET FilePaths
    BY <1>2, <1>4 DEF v
  <2>2. IsFiniteSet(s.seen) /\ Cardinality(s.seen) \in Nat
    BY <1>2, PathsFinite
  <2>3. Cardinality(v) <= Cardinality(s.seen) + 1 /\ Cardinality(v) \in Nat
    <3>1. Cardinality(s.seen \cup {f}) = IF f \in s.seen THEN Cardinality(s.seen) ELSE Cardinality(s.seen) + 1
      BY <2>2, FS_AddElement
    <3>. QED BY <2>2, <3>1 DEF v
  <2>4. MaxFiles \in Nat
    BY FileAssumption
  <2>. QED BY <1>2, <2>1, <2>2, <2>3, <2>4
<1>9. r.seen \cup Range(r.stack) = met \cup (IF f \in s.seen THEN {} ELSE Range(imports[f]))
  BY <1>1, <1>4, <1>6, <1>7 DEF met, v
<1>10. file \in r.seen \cup Range(r.stack)
  BY <1>3, <1>9
<1>11. ASSUME NEW g \in r.seen PROVE Range(imports[g]) \subseteq r.seen \cup Range(r.stack)
  BY <1>1, <1>3, <1>9 DEF v
<1>12. ASSUME NEW S \in SUBSET FilePaths, file \in S, Closed(imports, S)
       PROVE  r.seen \cup Range(r.stack) \subseteq S
  <2>1. met \subseteq S
    BY <1>3, <1>12
  <2>2. f \in S
    BY <1>4, <2>1 DEF met
  <2>3. Range(imports[f]) \subseteq S
    BY <1>12, <2>2 DEF Closed
  <2>. QED BY <1>9, <2>1, <2>3
<1>13. Reaches(imports, file, r)
  BY <1>1, <1>7, <1>8, <1>10, <1>11, <1>12 DEF Reaches
<1>. QED BY <1>13 DEF r
-----------------------------------------------------------------------------
(* The structure that a rescan leaves. *)

LEMMA KnownFacts ==
    ASSUME NEW doc \in Docs, NEW key, KnownAs(doc, key) \in {"agent", "tool"}
    PROVE  \E r \in {"agent", "tool"} : \E k \in KnownIn(doc, r, key) :
               KnownEntry(doc, key) = doc[r][k] /\ doc[r][k] \in Entries
<1>. DEFINE r == KnownAs(doc, key)
            ks == KnownIn(doc, r, key)
<1>1. r \in {"agent", "tool"} /\ ks # {}
  BY DEF KnownAs
<1>2. doc[r] \in Seq(Entries)
  BY <1>1 DEF Docs, Roles
<1>3. KnownEntry(doc, key) = doc[r][Max(ks)]
  BY DEF KnownEntry
<1>. HIDE DEF r
<1>4. Len(doc[r]) \in Nat /\ DOMAIN doc[r] = 1 .. Len(doc[r])
  BY <1>2
<1>5. ks \in SUBSET (0 .. Len(doc[r]))
  BY <1>4 DEF KnownIn
<1>6. Max(ks) \in ks
  BY <1>1, <1>4, <1>5, MaxGreatest
<1>7. doc[r][Max(ks)] \in Entries
  <2>1. Max(ks) \in DOMAIN doc[r]
    BY <1>6 DEF KnownIn
  <2>. QED BY <1>2, <2>1
<1>. HIDE DEF ks
<1>8. Max(ks) \in KnownIn(doc, r, key)
  BY <1>6 DEF ks
<1>. QED BY <1>1, <1>3, <1>7, <1>8

LEMMA MergedFacts ==
    ASSUME NEW doc \in Docs, NEW e \in Entries, NEW role \in Roles
    PROVE  /\ Merged(doc, role, e) \in Entries
           /\ Merged(doc, role, e).file = e.file /\ Merged(doc, role, e).function = e.function
<1>1. CASE role # "entry_point" /\ KnownAs(doc, Key(e)) \in {"agent", "tool"}
  <2>1. KnownEntry(doc, Key(e)).name \in Names
    BY <1>1, KnownFacts DEF Entries
  <2>2. Merged(doc, role, e) = [e EXCEPT !.name = KnownEntry(doc, Key(e)).name]
    BY <1>1 DEF Merged
  <2>. QED BY <2>1, <2>2 DEF Entries
<1>2. CASE ~(role # "entry_point" /\ KnownAs(doc, Key(e)) \in {"agent", "tool"})
  BY <1>2 DEF Merged
<1>. QED BY <1>1, <1>2

LEMMA MergeFacts ==
    ASSUME NEW old \in Docs, NEW new \in Docs
    PROVE  /\ Merge(old, new) \in Docs
           /\ \A r \in Roles : /\ DOMAIN Merge(old, new)[r] = DOMAIN new[r]
                               /\ \A i \in DOMAIN new[r] :
                                     Merge(old, new)[r][i] = Merged(old, r, new[r][i])
<1>1. DOMAIN Merge(old, new) = Roles
  BY DEF Merge
<1>2. ASSUME NEW r \in Roles
      PROVE  /\ DOMAIN Merge(old, new)[r] = DOMAIN new[r]
             /\ \A i \in DOMAIN new[r] : Merge(old, new)[r][i] = Merged(old, r, new[r][i])
             /\ Merge(old, new)[r] \in Seq(Entries)
  <2>1. Merge(old, new)[r] = [i \in DOMAIN new[r] |-> Merged(old, r, new[r][i])]
    BY DEF Merge
  <2>2. new[r] \in Seq(Entries)
    BY DEF Docs
  <2>3. DOMAIN new[r] = 1 .. Len(new[r]) /\ Len(new[r]) \in Nat
    BY <2>2
  <2>4. \A i \in DOMAIN new[r] : Merged(old, r, new[r][i]) \in Entries
    BY <2>2, MergedFacts
  <2>5. Merge(old, new)[r] \in [1 .. Len(new[r]) -> Entries]
    BY <2>1, <2>3, <2>4
  <2>6. Merge(old, new)[r] \in Seq(Entries)
    BY <2>3, <2>5, SeqDef
  <2>. QED BY <2>1, <2>6
<1>3. Merge(old, new) = [r \in Roles |-> Merge(old, new)[r]]
  BY DEF Merge
<1>4. Merge(old, new) \in Docs
  BY <1>2, <1>3 DEF Docs
<1>. QED BY <1>2, <1>4

(* The name a function was given is kept, unless it was an entry point.    *)
LEMMA NameKept ==
    ASSUME NEW old \in Docs, NEW e \in Entries,
           KnownIn(old, "entry_point", Key(e)) = {},
           KnownIn(old, "agent", Key(e)) # {} \/ KnownIn(old, "tool", Key(e)) # {}
    PROVE  \E r \in {"agent", "tool"} : \E k \in KnownIn(old, r, Key(e)) :
               Merged(old, "agent", e).name = old[r][k].name
<1>1. KnownAs(old, Key(e)) \in {"agent", "tool"}
  BY DEF KnownAs
<1>2. PICK r \in {"agent", "tool"} : \E k \in KnownIn(old, r, Key(e)) :
          KnownEntry(old, Key(e)) = old[r][k] /\ old[r][k] \in Entries
  BY <1>1, KnownFacts
<1>3. Merged(old, "agent", e) = [e EXCEPT !.name = KnownEntry(old, Key(e)).name]
  BY <1>1 DEF Merged
<1>. QED BY <1>2, <1>3 DEF Entries

-----------------------------------------------------------------------------
(* The configuration of an agent's requests. *)

Times(obs, c) == Cardinality(Seen(obs, c))
Offered(obs) == {Config(o) : o \in Range(obs)}
Split(obs) ==
    \E c, d \in Offered(obs) :
        c # d /\ Times(obs, c) = Times(obs, d) /\ \A x \in Offered(obs) : Times(obs, x) <= Times(obs, c)

LEMMA TimesFacts ==
    ASSUME NEW obs \in Seq(Observations), NEW c
    PROVE  Times(obs, c) \in 0 .. Len(obs) /\ (Times(obs, c) # 0 <=> c \in Offered(obs))
<1>. DEFINE n == Len(obs)
<1>1. n \in Nat /\ DOMAIN obs = 1 .. n
  BY LenProperties
<1>. HIDE DEF n
<1>2. IsFiniteSet(1 .. n) /\ Cardinality(1 .. n) = n
  <2>1. \A k \in Nat : IsFiniteSet(1 .. k) /\ Cardinality(1 .. k) = k
    BY FS_Interval
  <2>. QED BY <1>1, <2>1
<1>3. Seen(obs, c) \in SUBSET (1 .. n)
  BY <1>1 DEF Seen
<1>4. IsFiniteSet(Seen(obs, c)) /\ Times(obs, c) \in Nat /\ Times(obs, c) <= n
  BY <1>2, <1>3, FS_Subset, FS_CardinalityType DEF Times
<1>5. Times(obs, c) = 0 <=> Seen(obs, c) = {}
  BY <1>4, FS_EmptySet DEF Times
<1>6. Seen(obs, c) # {} <=> c \in Offered(obs)
  BY DEF Seen, Offered, Range
<1>. QED BY <1>1, <1>4, <1>5, <1>6 DEF n

LEMMA MostCommonFacts ==
    ASSUME NEW obs \in Seq(Observations), obs # <<>>
    PROVE  /\ MostCommon(obs) \in Offered(obs)
           /\ \A x \in Offered(obs) : Times(obs, x) <= Times(obs, MostCommon(obs))
<1>. DEFINE best == {i \in DOMAIN obs : \A j \in DOMAIN obs :
                         Cardinality(Seen(obs, Config(obs[j])))
                         <= Cardinality(Seen(obs, Config(obs[i])))}
            f == [i \in DOMAIN obs |-> Times(obs, Config(obs[i]))]
<1>1. Len(obs) \in Nat \ {0} /\ DOMAIN obs = 1 .. Len(obs)
  BY LenProperties, EmptySeq
<1>2. \A i \in DOMAIN obs : f[i] \in 0 .. Len(obs)
  BY TimesFacts
<1>3. 1 \in DOMAIN obs
  BY <1>1
<1>4. PICK i \in DOMAIN obs : \A j \in DOMAIN obs : f[j] <= f[i]
  <2>. HIDE DEF f
  <2>. QED BY <1>1, <1>2, <1>3, Greatest
<1>5. \A j \in DOMAIN obs : Times(obs, Config(obs[j])) <= Times(obs, Config(obs[i]))
  BY <1>4
<1>6. i \in best
  BY <1>4, <1>5 DEF Times
<1>7. best \in SUBSET Nat /\ best # {}
  <2>1. best \in SUBSET (DOMAIN obs)
    OBVIOUS
  <2>. HIDE DEF best
  <2>. QED BY <1>1, <1>6, <2>1
<1>8. Min(best) \in best
  <2>. HIDE DEF best
  <2>. QED BY <1>7, MinLeast
<1>9. MostCommon(obs) = Config(obs[Min(best)])
  BY DEF MostCommon
<1>10. /\ Min(best) \in DOMAIN obs
       /\ \A j \in DOMAIN obs : Times(obs, Config(obs[j])) <= Times(obs, Config(obs[Min(best)]))
  BY <1>8 DEF Times
<1>. HIDE DEF best, f
<1>. QED BY <1>9, <1>10 DEF Offered, Range

(* With the same requests, and no two equally common, the configuration is *)
(* the same.                                                               *)
LEMMA SameConfig ==
    ASSUME NEW bs \in Seq(Observations), NEW cs \in Seq(Observations), ~Split(bs), ~Split(cs),
           \A c \in Offered(bs) \cup Offered(cs) : Times(bs, c) = Times(cs, c)
    PROVE  MostCommon(bs) = MostCommon(cs)
<1>1. /\ \A c : Times(bs, c) \in Nat /\ (Times(bs, c) # 0 <=> c \in Offered(bs))
      /\ \A c : Times(cs, c) \in Nat /\ (Times(cs, c) # 0 <=> c \in Offered(cs))
  BY TimesFacts
<1>2. Offered(bs) = Offered(cs)
  BY <1>1
<1>3. \A obs \in Seq(Observations) : Offered(obs) = {} <=> obs = <<>>
  <2>. SUFFICES ASSUME NEW obs \in Seq(Observations) PROVE Offered(obs) = {} <=> obs = <<>>
    OBVIOUS
  <2>1. CASE obs = <<>>
    BY <2>1 DEF Offered, Range
  <2>2. CASE obs # <<>>
    BY <2>2, MostCommonFacts
  <2>. QED BY <2>1, <2>2
<1>4. CASE bs = <<>> \/ cs = <<>>
  BY <1>2, <1>3, <1>4
<1>5. CASE bs # <<>> /\ cs # <<>>
  <2>. DEFINE c == MostCommon(bs)
              d == MostCommon(cs)
  <2>1. c \in Offered(bs) /\ \A x \in Offered(bs) : Times(bs, x) <= Times(bs, c)
    BY <1>5, MostCommonFacts
  <2>2. d \in Offered(cs) /\ \A x \in Offered(cs) : Times(cs, x) <= Times(cs, d)
    BY <1>5, MostCommonFacts
  <2>. HIDE DEF c, d
  <2>3. Times(bs, c) <= Times(bs, d) /\ Times(bs, d) <= Times(bs, c)
    BY <1>2, <2>1, <2>2
  <2>4. Times(bs, c) = Times(bs, d)
    BY <1>1, <2>3
  <2>5. c = d
    BY <1>2, <2>1, <2>2, <2>4 DEF Split
  <2>. QED BY <2>5 DEF c, d
<1>. QED BY <1>4, <1>5
-----------------------------------------------------------------------------
(* The differences of an agent's manifests. *)

DeltaRecords ==
    [name : Names, file : FilePaths, promptChanged : BOOLEAN, files : SUBSET (FilePaths \cup {Nowhere}),
     codeChanged : BOOLEAN, modelChanged : BOOLEAN, toolsChanged : BOOLEAN]

DeltaBetween(e) == Differences(Manifest("baseline", e), Manifest("candidate", e))

LEMMA WorldFacts ==
    ASSUME world \in Worlds
    PROVE  /\ world.mode \in {"git", "observed"}
           /\ world.existing \in Docs /\ world.fresh \in Docs
           /\ world.changed \subseteq FilePaths /\ world.gone \subseteq FilePaths
           /\ world.home \in [Prompts -> FilePaths \cup {Nowhere}]
           /\ world.imports \in [FilePaths -> Seq(FilePaths \ world.gone)]
           /\ world.observed \in [Versions -> [Names -> Seq(Observations)]]
           /\ world.verdicts \in [1 .. TestCases -> [Names -> Judgements]]
BY WorldAssumption

LEMMA DeltaFacts ==
    ASSUME world \in Worlds, NEW e \in Entries
    PROVE  /\ DeltaBetween(e) \in DeltaRecords
           /\ DeltaBetween(e).file = e.file
           /\ DeltaBetween(e).promptChanged <=>
                 ObservedPrompts("baseline", e.name) # ObservedPrompts("candidate", e.name)
           /\ DeltaBetween(e).codeChanged <=> BodyChanged(e)
           /\ DeltaBetween(e).modelChanged \/ DeltaBetween(e).toolsChanged =>
                 MostCommon(Observed("baseline", e.name)) # MostCommon(Observed("candidate", e.name))
<1>. DEFINE b == Manifest("baseline", e)
            c == Manifest("candidate", e)
<1>1. e.name \in Names /\ e.file \in FilePaths
  BY DEF Entries
<1>2. ASSUME NEW v \in Versions
      PROVE  PromptFiles(ObservedPrompts(v, e.name)) \in SUBSET (FilePaths \cup {Nowhere})
  <2>1. Observed(v, e.name) \in Seq(Observations)
    BY <1>1, WorldFacts DEF Observed
  <2>2. \A o \in Range(Observed(v, e.name)) : o \in Observations
    BY <2>1 DEF Range
  <2>3. ObservedPrompts(v, e.name) \in SUBSET Prompts
    BY <2>2 DEF ObservedPrompts, Observations
  <2>. QED BY <2>3, WorldFacts DEF PromptFiles
<1>3. "baseline" \in Versions /\ "candidate" \in Versions
  BY DEF Versions
<1>4. \A v \in Versions :
         LET m == Manifest(v, e)
         IN  /\ m.name = e.name /\ m.file = e.file
             /\ m.code = world.body[v][e.file][e.function]
             /\ m.prompts = ObservedPrompts(v, e.name)
             /\ m.files = PromptFiles(ObservedPrompts(v, e.name))
             /\ m.config = MostCommon(Observed(v, e.name))
  BY DEF Manifest
<1>5. /\ b.name = e.name /\ c.file = e.file
      /\ b.files \cup c.files \in SUBSET (FilePaths \cup {Nowhere})
  BY <1>2, <1>3, <1>4
<1>. HIDE DEF b, c
<1>6. /\ DeltaBetween(e).name = b.name /\ DeltaBetween(e).file = c.file
      /\ DeltaBetween(e).promptChanged = (b.prompts # c.prompts)
      /\ DeltaBetween(e).files = b.files \cup c.files
      /\ DeltaBetween(e).codeChanged = (Nowhere \notin {b.code, c.code} /\ b.code # c.code)
      /\ DeltaBetween(e).modelChanged = (b.config.model # c.config.model)
      /\ DeltaBetween(e).toolsChanged = (b.config.tools # c.config.tools)
  BY DEF DeltaBetween, Differences, b, c
<1>7. DeltaBetween(e) \in DeltaRecords
  BY <1>1, <1>5 DEF DeltaBetween, Differences, DeltaRecords, b, c
<1>8. DeltaBetween(e).codeChanged <=> BodyChanged(e)
  BY <1>3, <1>4, <1>6 DEF BodyChanged, b, c
<1>9. DeltaBetween(e).promptChanged <=>
         ObservedPrompts("baseline", e.name) # ObservedPrompts("candidate", e.name)
  BY <1>3, <1>4, <1>6 DEF b, c
<1>10. DeltaBetween(e).modelChanged \/ DeltaBetween(e).toolsChanged =>
         MostCommon(Observed("baseline", e.name)) # MostCommon(Observed("candidate", e.name))
  <2>1. b.config = MostCommon(Observed("baseline", e.name))
        /\ c.config = MostCommon(Observed("candidate", e.name))
    BY <1>3, <1>4 DEF b, c
  <2>. QED BY <1>6, <2>1
<1>. QED BY <1>5, <1>6, <1>7, <1>8, <1>9, <1>10

(* Of the agents with one function the manifests have the last.            *)
LEMMA DeltaIs ==
    ASSUME structure \in Docs, manifests = [v \in Versions |-> Manifests(v)],
           NEW i \in DOMAIN structure["agent"]
    PROVE  \E k \in DOMAIN structure["agent"] :
               /\ structure["agent"][k].function = structure["agent"][i].function
               /\ DeltaOf(structure["agent"][i].function) = DeltaBetween(structure["agent"][k])
<1>. DEFINE agents == structure["agent"]
            f == agents[i].function
            ks == {k \in DOMAIN agents : agents[k].function = f}
<1>1. agents \in Seq(Entries) /\ DOMAIN agents = 1 .. Len(agents) /\ Len(agents) \in Nat
  BY LenProperties DEF Docs, Roles
<1>2. ks \in SUBSET (0 .. Len(agents)) /\ i \in ks
  BY <1>1
<1>3. Max(ks) \in ks
  <2>. HIDE DEF ks, agents
  <2>. QED BY <1>1, <1>2, MaxGreatest
<1>4. ASSUME NEW v \in Versions PROVE manifests[v][f] = Manifest(v, agents[Max(ks)])
  <2>1. manifests[v] = Manifests(v)
    OBVIOUS
  <2>2. f \in {agents[k].function : k \in DOMAIN agents}
    OBVIOUS
  <2>3. Manifests(v) = [g \in {agents[k].function : k \in DOMAIN agents} |->
            Manifest(v, agents[Max({k \in DOMAIN agents : agents[k].function = g})])]
    BY DEF Manifests
  <2>. HIDE DEF agents
  <2>. QED BY <2>1, <2>2, <2>3
<1>5. DeltaOf(f) = DeltaBetween(agents[Max(ks)])
  <2>. HIDE DEF f, ks, agents
  <2>. QED BY <1>4 DEF DeltaOf, DeltaBetween, Versions
<1>6. Max(ks) \in DOMAIN agents /\ agents[Max(ks)].function = f
  BY <1>3
<1>. HIDE DEF ks
<1>. QED BY <1>5, <1>6

-----------------------------------------------------------------------------
(* The rules. *)

LEMMA BlameFacts ==
    ASSUME NEW rule, NEW target, NEW weight
    PROVE  /\ Blame(rule, target, weight).rule = rule /\ Blame(rule, target, weight).target = target
           /\ Blame(rule, target, weight).weight = weight
           /\ Blame(rule, target, weight).hunk <=> target \in diff
BY DEF Blame

LEMMA DirectFacts ==
    ASSUME diff \in SUBSET FilePaths, structure \in Docs, NEW d \in DeltaRecords
    PROVE  /\ \A b \in DirectRules(d) :
                 /\ b \in Blames
                 /\ d.promptChanged \/ d.codeChanged \/ d.modelChanged \/ d.toolsChanged
                 /\ b.weight >= 80 => b.hunk
                 /\ b.rule = "code_change" => b.target = d.file
           /\ d.codeChanged /\ d.file \in diff => Blame("code_change", d.file, 80) \in DirectRules(d)
<1>0. /\ d.file \in FilePaths /\ d.promptChanged \in BOOLEAN /\ d.codeChanged \in BOOLEAN
      /\ d.modelChanged \in BOOLEAN /\ d.toolsChanged \in BOOLEAN
  BY DEF DeltaRecords
<1>. DEFINE Causes == {"direct_prompt_change", "code_change", "model_config_change",
                       "tool_schema_change", "reachable_change"}
<1>1. ASSUME NEW rule \in Causes, NEW f \in FilePaths, NEW w \in 0 .. 100
      PROVE  Blame(rule, f, w) \in Blames
  BY DEF Blame, Blames
<1>2. ASSUME NEW b \in DirectPromptChange(d)
      PROVE  d.promptChanged /\ \E f \in diff, w \in {75, 90} : b = Blame("direct_prompt_change", f, w)
  BY <1>0 DEF DirectPromptChange, BlameAll
<1>3. ASSUME NEW b \in CodeChange(d)
      PROVE  d.codeChanged /\ d.file \in diff /\ b = Blame("code_change", d.file, 80)
  BY <1>0 DEF CodeChange, BlameAll
<1>4. ASSUME NEW b \in ModelConfigChange(d)
      PROVE  d.modelChanged /\ b = Blame("model_config_change", d.file, 70)
  BY <1>0 DEF ModelConfigChange
<1>5. ASSUME NEW b \in ToolSchemaChange(d)
      PROVE  d.toolsChanged /\ \E f \in FilePaths, w \in {50, 60} : b = Blame("tool_schema_change", f, w)
  <2>1. d.toolsChanged
    BY <1>0 DEF ToolSchemaChange
  <2>2. CASE ToolFiles \cap diff # {}
    BY <1>0, <2>1, <2>2 DEF ToolSchemaChange, BlameAll
  <2>3. CASE ToolFiles \cap diff = {}
    BY <1>0, <2>1, <2>3 DEF ToolSchemaChange
  <2>. QED BY <2>1, <2>2, <2>3
<1>6. ASSUME NEW b \in DirectRules(d)
      PROVE  /\ b \in Blames
             /\ d.promptChanged \/ d.codeChanged \/ d.modelChanged \/ d.toolsChanged
             /\ b.weight >= 80 => b.hunk
             /\ b.rule = "code_change" => b.target = d.file
  <2>1. CASE b \in DirectPromptChange(d)
    <3>1. PICK f \in diff, w \in {75, 90} : b = Blame("direct_prompt_change", f, w)
      BY <1>2, <2>1
    <3>2. f \in FilePaths /\ w \in 0 .. 100 /\ "direct_prompt_change" \in Causes
      BY <3>1
    <3>3. b \in Blames
      BY <1>1, <3>1, <3>2
    <3>4. b.hunk /\ b.rule = "direct_prompt_change"
      BY <3>1, BlameFacts
    <3>. QED BY <1>2, <2>1, <3>3, <3>4
  <2>2. CASE b \in CodeChange(d)
    <3>1. b = Blame("code_change", d.file, 80) /\ d.codeChanged /\ d.file \in diff
      BY <1>3, <2>2
    <3>2. 80 \in 0 .. 100 /\ "code_change" \in Causes
      OBVIOUS
    <3>3. b \in Blames
      BY <1>0, <1>1, <3>1, <3>2
    <3>4. b.hunk /\ b.target = d.file
      BY <3>1, BlameFacts
    <3>. QED BY <3>1, <3>3, <3>4
  <2>3. CASE b \in ModelConfigChange(d)
    <3>1. b = Blame("model_config_change", d.file, 70) /\ d.modelChanged
      BY <1>4, <2>3
    <3>2. 70 \in 0 .. 100 /\ "model_config_change" \in Causes
      OBVIOUS
    <3>3. b \in Blames
      BY <1>0, <1>1, <3>1, <3>2
    <3>4. b.rule = "model_config_change" /\ b.weight = 70
      BY <3>1, BlameFacts
    <3>. QED BY <3>1, <3>3, <3>4
  <2>4. CASE b \in ToolSchemaChange(d)
    <3>1. PICK f \in FilePaths, w \in {50, 60} : b = Blame("tool_schema_change", f, w)
      BY <1>5, <2>4
    <3>2. w \in 0 .. 100 /\ "tool_schema_change" \in Causes
      OBVIOUS
    <3>3. b \in Blames
      BY <1>1, <3>1, <3>2
    <3>4. b.rule = "tool_schema_change" /\ b.weight = w /\ ~ (w >= 80)
      BY <3>1, BlameFacts
    <3>. QED BY <1>5, <2>4, <3>3, <3>4
  <2>. QED BY <2>1, <2>2, <2>3, <2>4 DEF DirectRules
<1>7. d.codeChanged /\ d.file \in diff => Blame("code_change", d.file, 80) \in CodeChange(d)
  BY DEF CodeChange, BlameAll
<1>. QED BY <1>6, <1>7 DEF DirectRules

LEMMA ReachableFacts ==
    ASSUME diff \in SUBSET FilePaths, NEW d \in DeltaRecords, NEW r \in SUBSET diff
    PROVE  \A b \in ReachableChange(d, r) :
               b \in Blames /\ b.weight < 50 /\ b.rule = "reachable_change"
<1>. SUFFICES ASSUME NEW b \in ReachableChange(d, r)
              PROVE  b \in Blames /\ b.weight < 50 /\ b.rule = "reachable_change"
  OBVIOUS
<1>. DEFINE among == IF r # {} THEN r ELSE diff
            target == IF d.file \in among THEN d.file ELSE Min(among)
            w == IF r # {} THEN 35 ELSE 20
<1>1. b = Blame("reachable_change", target, w) /\ diff # {}
  BY DEF ReachableChange
<1>2. among \in SUBSET diff /\ among # {} /\ FilePaths \in SUBSET Nat
  <2>1. Files \in Nat
    BY FileAssumption
  <2>. QED BY <1>1, <2>1 DEF FilePaths
<1>. HIDE DEF among
<1>3. target \in FilePaths
  BY <1>2, MinLeast
<1>. HIDE DEF target
<1>4. w \in {20, 35}
  OBVIOUS
<1>. HIDE DEF w
<1>. QED BY <1>1, <1>3, <1>4 DEF Blame, Blames

LEMMA PrimaryFacts ==
    ASSUME NEW found \in SUBSET Blames, found # {}
    PROVE  Primary(found) \in found /\ \A c \in found : c.weight <= Primary(found).weight
<1>. DEFINE f == [b \in found |-> b.weight]
            heaviest == {b \in found : \A c \in found : c.weight <= b.weight}
            targets == {b.target : b \in heaviest}
<1>1. \A b \in found : b.weight \in 0 .. 100 /\ b.target \in Nat
  <2>1. FilePaths \cup {Nowhere} \in SUBSET Nat
    <3>1. Files \in Nat
      BY FileAssumption
    <3>. QED BY <3>1 DEF FilePaths, Nowhere
  <2>. QED BY <2>1 DEF Blames
<1>2. PICK b \in found : \A c \in found : f[c] <= f[b]
  <2>1. \A x \in found : f[x] \in 0 .. 100
    BY <1>1
  <2>. HIDE DEF f
  <2>2. 100 \in Nat
    OBVIOUS
  <2>. QED BY <2>1, <2>2, Greatest
<1>3. b \in heaviest
  BY <1>2
<1>4. targets \in SUBSET Nat /\ targets # {}
  BY <1>1, <1>3
<1>5. PICK t \in targets : \A u \in targets : t <= u
  BY <1>4, LeastIndex
<1>6. PICK c \in heaviest : c.target = t
  BY <1>5
<1>7. \A e \in heaviest : c.target <= e.target
  BY <1>5, <1>6
<1>8. Primary(found) = CHOOSE p \in heaviest : \A e \in heaviest : p.target <= e.target
  BY DEF Primary
<1>9. Primary(found) \in heaviest
  <2>. HIDE DEF heaviest
  <2>. QED BY <1>6, <1>7, <1>8
<1>. QED BY <1>9
-----------------------------------------------------------------------------
(* The inductive invariant. *)

Early == {"rescan", "diff", "manifests"}
Walking == {"walk", "rules"}

(* Whether a walk from a file is tried, and what it visits in the end.     *)
Starts(file) == world.mode = "git" /\ diff # {} /\ file \notin world.gone
Visits(file, v) == IF Starts(file) THEN Complete(world.imports, file, v) ELSE v = {}

(* A blame is that of the rules for its function. *)
Deserved(b) ==
    LET d == DeltaOf(b.agent.function)
    IN  IF world.mode = "observed" THEN b.primary = ObservedBlame(d)
        ELSE \E v \in SUBSET FilePaths :
                Visits(d.file, v) /\ b.primary = Primary(ApplyRules(d, v \cap diff))

BlameRecords ==
    [case : 1 .. TestCases, agent : Entries, primary : Blames, explanation : {"none", "llm", "rule"}]

CauseSet ==
    {[function |-> f, cause |-> Cause(f)] : f \in {blamed[i].agent.function : i \in DOMAIN blamed}}

StateInv ==
    /\ world \in Worlds
    /\ stage \in Early \cup Walking \cup {"next", "done"}
    /\ structure = IF stage = "rescan" THEN world.existing ELSE Merge(world.existing, world.fresh)
    /\ diff \in SUBSET FilePaths
    /\ manifests = IF stage \in Early THEN [v \in Versions |-> <<>>] ELSE [v \in Versions |-> Manifests(v)]
    /\ at \in (1 .. TestCases) \X (0 .. Len(structure["agent"]))
    /\ stage \in Early => at = <<1, 0>> /\ blamed = <<>>
    /\ stage \in Walking => at[2] # 0
    /\ causes = IF stage = "done" THEN CauseSet ELSE {}

BlamedInv ==
    /\ blamed \in Seq(BlameRecords)
    /\ \A i \in DOMAIN blamed : blamed[i].agent \in Range(structure["agent"]) /\ Deserved(blamed[i])

WalkInv ==
    /\ visited \in SUBSET FilePaths /\ frontier \in Seq(FilePaths)
    /\ stage \in Walking =>
          LET file == DeltaOf(AgentAt.function).file
              s == [seen |-> visited, stack |-> frontier]
          IN  IF Starts(file)
              THEN /\ Walked(world.imports, file, s) /\ Reaches(world.imports, file, s)
                   /\ stage = "rules" => ~Going(s)
              ELSE stage = "rules" /\ visited = {} /\ frontier = <<>>

IInv == StateInv /\ BlamedInv /\ WalkInv

-----------------------------------------------------------------------------
(* What the invariant gives. *)

LEMMA DocFacts ==
    ASSUME StateInv
    PROVE  /\ structure \in Docs /\ structure["agent"] \in Seq(Entries)
           /\ Len(structure["agent"]) \in Nat
           /\ DOMAIN structure["agent"] = 1 .. Len(structure["agent"])
           /\ \A e \in Range(structure["agent"]) : e \in Entries
<1>1. structure \in Docs
  BY WorldFacts, MergeFacts DEF StateInv
<1>2. structure["agent"] \in Seq(Entries)
  BY <1>1 DEF Docs, Roles
<1>. QED BY <1>1, <1>2, LenProperties DEF Range

LEMMA AgentDelta ==
    ASSUME StateInv, stage \notin Early, NEW e \in Range(structure["agent"])
    PROVE  /\ \E g \in Range(structure["agent"]) :
                 g.function = e.function /\ DeltaOf(e.function) = DeltaBetween(g)
           /\ DeltaOf(e.function) \in DeltaRecords
<1>1. PICK i \in DOMAIN structure["agent"] : e = structure["agent"][i]
  BY DEF Range
<1>2. structure \in Docs /\ manifests = [v \in Versions |-> Manifests(v)] /\ world \in Worlds
  BY DocFacts DEF StateInv
<1>3. PICK k \in DOMAIN structure["agent"] :
         /\ structure["agent"][k].function = e.function
         /\ DeltaOf(e.function) = DeltaBetween(structure["agent"][k])
  BY <1>1, <1>2, DeltaIs
<1>4. structure["agent"][k] \in Range(structure["agent"])
  BY DEF Range
<1>5. structure["agent"][k] \in Entries
  BY <1>4, DocFacts
<1>6. DeltaBetween(structure["agent"][k]) \in DeltaRecords
  BY <1>2, <1>5, DeltaFacts
<1>. QED BY <1>3, <1>4, <1>6

LEMMA ApplyType ==
    ASSUME StateInv, NEW d \in DeltaRecords, NEW r \in SUBSET diff
    PROVE  ApplyRules(d, r) \in SUBSET Blames
<1>1. diff \in SUBSET FilePaths /\ structure \in Docs
  BY DocFacts DEF StateInv
<1>. QED BY <1>1, DirectFacts, ReachableFacts DEF ApplyRules

LEMMA PrimaryType ==
    ASSUME NEW found \in SUBSET Blames
    PROVE  Primary(found) \in Blames
<1>1. CASE found = {}
  BY <1>1 DEF Primary, NoBlame, Blames
<1>2. CASE found # {}
  BY <1>2, PrimaryFacts
<1>. QED BY <1>1, <1>2

LEMMA ObservedType ==
    ASSUME NEW d \in DeltaRecords
    PROVE  ObservedBlame(d) \in Blames
<1>. DEFINE t == IF d.promptChanged /\ d.files # {} THEN Min(d.files) ELSE Nowhere
<1>1. FilePaths \cup {Nowhere} \in SUBSET Nat
  <2>1. Files \in Nat
    BY FileAssumption
  <2>. QED BY <2>1 DEF FilePaths, Nowhere
<1>2. d.files \in SUBSET (FilePaths \cup {Nowhere})
  BY DEF DeltaRecords
<1>3. t \in FilePaths \cup {Nowhere}
  BY <1>1, <1>2, MinLeast
<1>4. ObservedBlame(d) = [rule |-> "observed_change", target |-> t, hunk |-> FALSE, weight |-> 50]
  BY DEF ObservedBlame
<1>. HIDE DEF t
<1>. QED BY <1>3, <1>4 DEF Blames

(* Two blames of one function are the same. *)
LEMMA OneBlame ==
    ASSUME IInv, NEW a \in Range(blamed), NEW b \in Range(blamed), a.agent.function = b.agent.function
    PROVE  a.primary = b.primary
<1>1. Deserved(a) /\ Deserved(b)
  BY DEF IInv, BlamedInv, Range
<1>. DEFINE d == DeltaOf(b.agent.function)
<1>2. CASE world.mode = "observed"
  BY <1>1, <1>2 DEF Deserved
<1>3. CASE world.mode # "observed"
  <2>1. PICK v \in SUBSET FilePaths : Visits(d.file, v) /\ a.primary = Primary(ApplyRules(d, v \cap diff))
    BY <1>1, <1>3 DEF Deserved
  <2>2. PICK w \in SUBSET FilePaths : Visits(d.file, w) /\ b.primary = Primary(ApplyRules(d, w \cap diff))
    BY <1>1, <1>3 DEF Deserved
  <2>. HIDE DEF d
  <2>3. v = w
    BY <2>1, <2>2, OneWalk DEF Visits
  <2>. QED BY <2>1, <2>2, <2>3
<1>. QED BY <1>2, <1>3

(* Nothing of this depends on the walk or on the blames. *)
LEMMA Frame ==
    ASSUME world' = world, structure' = structure, diff' = diff, manifests' = manifests
    PROVE  /\ \A v : Manifests(v)' = Manifests(v)
           /\ \A f : DeltaOf(f)' = DeltaOf(f)
           /\ \A f : Starts(f)' <=> Starts(f)
           /\ \A b : Deserved(b)' <=> Deserved(b)
<1>1. \A v : Manifests(v)' = Manifests(v)
  BY DEF Manifests, Manifest, Observed, ObservedPrompts, PromptFiles
<1>2. \A f : DeltaOf(f)' = DeltaOf(f)
  BY DEF DeltaOf
<1>3. \A f : Starts(f)' <=> Starts(f)
  BY DEF Starts
<1>4. \A f, v : Visits(f, v)' <=> Visits(f, v)
  BY <1>3 DEF Visits
<1>5. \A r, f, w : Blame(r, f, w)' = Blame(r, f, w)
  BY DEF Blame
<1>6. \A r, fs, w : BlameAll(r, fs, w)' = BlameAll(r, fs, w)
  BY <1>5 DEF BlameAll
<1>7. ToolFiles' = ToolFiles
  BY DEF ToolFiles
<1>8. \A d : DirectPromptChange(d)' = DirectPromptChange(d)
  BY <1>6 DEF DirectPromptChange
<1>9. \A d : CodeChange(d)' = CodeChange(d)
  BY <1>6 DEF CodeChange
<1>10. \A d : ModelConfigChange(d)' = ModelConfigChange(d)
  BY <1>5 DEF ModelConfigChange
<1>11. \A d : ToolSchemaChange(d)' = ToolSchemaChange(d)
  BY <1>5, <1>6, <1>7 DEF ToolSchemaChange
<1>12. \A d : DirectRules(d)' = DirectRules(d)
  BY <1>8, <1>9, <1>10, <1>11 DEF DirectRules
<1>13. \A d, r : ReachableChange(d, r)' = ReachableChange(d, r)
  BY <1>5 DEF ReachableChange
<1>14. \A d, r : ApplyRules(d, r)' = ApplyRules(d, r)
  BY <1>12, <1>13 DEF ApplyRules
<1>15. \A b : Deserved(b)' <=> Deserved(b)
  BY <1>2, <1>4, <1>14 DEF Deserved
<1>. QED BY <1>1, <1>2, <1>3, <1>15
-----------------------------------------------------------------------------
(* The invariant is inductive. *)

LEMMA InitInv == AttributionInit => IInv
<1>. SUFFICES ASSUME AttributionInit PROVE IInv
  OBVIOUS
<1>1. /\ world \in Worlds /\ stage = "rescan" /\ structure = world.existing /\ diff = {}
      /\ manifests = [v \in Versions |-> <<>>] /\ at = <<1, 0>> /\ visited = {} /\ frontier = <<>>
      /\ blamed = <<>> /\ causes = {}
  BY DEF AttributionInit
<1>2. structure \in Docs
  BY <1>1, WorldFacts
<1>3. Len(structure["agent"]) \in Nat
  BY <1>2 DEF Docs, Roles
<1>4. TestCases \in Nat \ {0}
  BY FileAssumption
<1>5. at \in (1 .. TestCases) \X (0 .. Len(structure["agent"]))
  BY <1>1, <1>3, <1>4
<1>6. StateInv
  BY <1>1, <1>5 DEF StateInv, Early, Walking
<1>7. BlamedInv
  BY <1>1 DEF BlamedInv
<1>8. WalkInv
  BY <1>1 DEF WalkInv, Walking
<1>. QED BY <1>6, <1>7, <1>8 DEF IInv

(* Before the manifests are there, nothing is blamed. *)
LEMMA EarlyStep ==
    ASSUME IInv, Rescan \/ CollectGitDiff \/ BuildManifests
    PROVE  IInv'
<1>0. StateInv /\ BlamedInv /\ WalkInv
  BY DEF IInv
<1>1. /\ stage \in Early /\ stage' \in {"diff", "manifests", "next"}
      /\ world' = world /\ at' = at /\ blamed' = blamed /\ causes' = causes
      /\ visited' = visited /\ frontier' = frontier
  BY DEF Rescan, CollectGitDiff, BuildManifests, Early, walk
<1>2. at = <<1, 0>> /\ blamed = <<>> /\ causes = {} /\ world \in Worlds
  BY <1>0, <1>1 DEF StateInv, Early
<1>3. structure' = Merge(world.existing, world.fresh)
  BY <1>0, <1>1 DEF Rescan, CollectGitDiff, BuildManifests, StateInv, Early
<1>4. diff' \in SUBSET FilePaths
  BY <1>0, <1>2, WorldFacts DEF Rescan, CollectGitDiff, BuildManifests, StateInv
<1>5. manifests' = IF stage' \in Early THEN [v \in Versions |-> <<>>] ELSE [v \in Versions |-> Manifests(v)']
  <2>1. CASE Rescan \/ CollectGitDiff
    BY <1>0, <1>1, <2>1 DEF Rescan, CollectGitDiff, StateInv, Early
  <2>2. CASE BuildManifests
    <3>1. manifests' = [v \in Versions |-> Manifests(v)] /\ stage' = "next" /\ structure' = structure
      BY <2>2 DEF BuildManifests
    <3>2. world' = world /\ structure' = structure
      BY <1>1, <3>1
    <3>3. \A v : Manifests(v)' = Manifests(v)
      BY <3>2 DEF Manifests, Manifest, Observed, ObservedPrompts, PromptFiles
    <3>. QED BY <3>1, <3>3 DEF Early
  <2>. QED BY <2>1, <2>2
<1>6. structure' \in Docs
  BY <1>2, <1>3, WorldFacts, MergeFacts
<1>7. at' \in (1 .. TestCases) \X (0 .. Len(structure'["agent"]))
  <2>1. Len(structure'["agent"]) \in Nat
    BY <1>6 DEF Docs, Roles
  <2>2. TestCases \in Nat \ {0}
    BY FileAssumption
  <2>. QED BY <1>1, <1>2, <2>1, <2>2
<1>8. StateInv'
  BY <1>1, <1>2, <1>3, <1>4, <1>5, <1>7 DEF StateInv, Early, Walking
<1>9. BlamedInv'
  BY <1>1, <1>2 DEF BlamedInv
<1>10. WalkInv'
  BY <1>0, <1>1 DEF WalkInv, Walking
<1>. QED BY <1>8, <1>9, <1>10 DEF IInv

(* Afterwards the structure, the diff and the manifests stay, and with     *)
(* them what a blame rests on.                                             *)
LEMMA LateState ==
    ASSUME StateInv, stage \notin Early,
           world' = world, structure' = structure, diff' = diff, manifests' = manifests,
           stage' \in Walking \cup {"next", "done"},
           at' \in (1 .. TestCases) \X (0 .. Len(structure["agent"])),
           stage' \in Walking => at'[2] # 0,
           causes' = IF stage' = "done" THEN CauseSet' ELSE {}
    PROVE  StateInv'
<1>1. stage' \notin Early /\ stage' # "rescan" /\ stage # "rescan"
  BY DEF Early, Walking
<1>2. /\ world \in Worlds /\ structure = Merge(world.existing, world.fresh) /\ diff \in SUBSET FilePaths
      /\ manifests = [v \in Versions |-> Manifests(v)]
  BY <1>1 DEF StateInv
<1>3. \A v : Manifests(v)' = Manifests(v)
  BY Frame
<1>4. manifests' = [v \in Versions |-> Manifests(v)']
  BY <1>2, <1>3
<1>. QED BY <1>1, <1>2, <1>4 DEF StateInv

LEMMA LateBlamed ==
    ASSUME BlamedInv, world' = world, structure' = structure, diff' = diff, manifests' = manifests,
           blamed' = blamed
    PROVE  BlamedInv'
<1>1. \A b : Deserved(b)' <=> Deserved(b)
  BY Frame
<1>. QED BY <1>1 DEF BlamedInv

LEMMA NextDeltaStep ==
    ASSUME IInv, NextDelta
    PROVE  IInv'
<1>0. StateInv /\ BlamedInv /\ WalkInv
  BY DEF IInv
<1>. DEFINE agents == structure["agent"]
            n == Len(agents)
            agent == agents[After(at)[2]]
            file == DeltaOf(agent.function).file
            passes == world.verdicts[After(at)[1]][agent.name] = "pass"
<1>1. /\ stage = "next" /\ at # LastDelta /\ n > 0 /\ at' = After(at)
      /\ world' = world /\ structure' = structure /\ diff' = diff /\ manifests' = manifests
      /\ blamed' = blamed /\ causes' = causes
  BY DEF NextDelta
<1>2. IF passes THEN stage' = "next" /\ visited' = visited /\ frontier' = frontier
      ELSE /\ stage' = IF Starts(file) THEN "walk" ELSE "rules"
           /\ visited' = {} /\ frontier' = IF Starts(file) THEN <<file>> ELSE <<>>
  BY DEF NextDelta, walk, Starts
<1>3. stage \notin Early /\ causes = {} /\ n \in Nat
  BY <1>0, <1>1, DocFacts DEF Early, StateInv
<1>4. at \in (1 .. TestCases) \X (0 .. n)
  BY <1>0 DEF StateInv
<1>5. After(at) \in (1 .. TestCases) \X (1 .. n)
  <2>1. at[1] \in 1 .. TestCases /\ at[2] \in 0 .. n /\ at = <<at[1], at[2]>> /\ TestCases \in Nat
    BY <1>4, FileAssumption
  <2>2. CASE at[2] < n
    BY <1>3, <2>1, <2>2 DEF After
  <2>3. CASE ~(at[2] < n)
    <3>1. at[2] = n
      BY <1>3, <2>1, <2>3
    <3>2. at[1] # TestCases
      BY <1>1, <2>1, <3>1 DEF LastDelta
    <3>. QED BY <1>1, <1>3, <2>1, <2>3, <3>2 DEF After
  <2>. QED BY <2>2, <2>3
<1>6. stage' \in {"next", "walk", "rules"}
  BY <1>2
<1>7. StateInv'
  <2>1. at' \in (1 .. TestCases) \X (0 .. n) /\ at'[2] # 0
    BY <1>1, <1>3, <1>5
  <2>. QED BY <1>0, <1>1, <1>3, <1>6, <2>1, LateState DEF Walking
<1>8. BlamedInv'
  BY <1>0, <1>1, LateBlamed
<1>9. file \in FilePaths
  <2>1. agent \in Range(agents)
    <3>1. After(at)[2] \in DOMAIN agents
      BY <1>0, <1>5, DocFacts
    <3>. QED BY <3>1 DEF Range
  <2>2. DeltaOf(agent.function) \in DeltaRecords
    BY <1>0, <1>3, <2>1, AgentDelta
  <2>. QED BY <2>2 DEF DeltaRecords
<1>10. DeltaOf(AgentAt.function)'.file = file /\ \A f : Starts(f)' <=> Starts(f)
  <2>1. AgentAt' = agent
    BY <1>1 DEF AgentAt
  <2>2. \A f : DeltaOf(f)' = DeltaOf(f)
    BY <1>1, Frame
  <2>3. \A f : Starts(f)' <=> Starts(f)
    BY <1>1, Frame
  <2>. HIDE DEF agent
  <2>4. DeltaOf(AgentAt.function)' = DeltaOf(agent.function)
    BY <2>1, <2>2
  <2>. QED BY <2>3, <2>4
<1>. HIDE DEF file, agent, passes
<1>11. WalkInv'
  <2>1. CASE passes
    BY <1>0, <1>2, <2>1 DEF WalkInv, Walking
  <2>2. CASE ~passes /\ Starts(file)
    <3>1. stage' = "walk" /\ visited' = {} /\ frontier' = <<file>>
      BY <1>2, <2>2
    <3>2. frontier' \in Seq(FilePaths)
      BY <1>9, <3>1
    <3>3. world.imports \in Imports
      BY <1>0, WorldFacts DEF StateInv, Imports
    <3>4. Walked(world.imports, file, [seen |-> {}, stack |-> <<file>>])
      BY WalkStarts
    <3>5. Reaches(world.imports, file, [seen |-> {}, stack |-> <<file>>])
      BY <1>9, <3>3, StartReaches
    <3>. QED BY <1>1, <1>10, <2>2, <3>1, <3>2, <3>4, <3>5 DEF WalkInv
  <2>3. CASE ~passes /\ ~Starts(file)
    <3>1. stage' = "rules" /\ visited' = {} /\ frontier' = <<>>
      BY <1>2, <2>3
    <3>. QED BY <1>10, <2>3, <3>1 DEF WalkInv
  <2>. QED BY <2>1, <2>2, <2>3
<1>. QED BY <1>7, <1>8, <1>11 DEF IInv
LEMMA VisitStep ==
    ASSUME IInv, Visit
    PROVE  IInv'
<1>0. StateInv /\ BlamedInv /\ WalkInv
  BY DEF IInv
<1>. DEFINE s == [seen |-> visited, stack |-> frontier]
            file == DeltaOf(AgentAt.function).file
<1>1. /\ stage = "walk" /\ stage' = stage /\ frontier # <<>> /\ Cardinality(visited) < MaxFiles
      /\ visited' = Onward(world.imports, s).seen /\ frontier' = Onward(world.imports, s).stack
      /\ world' = world /\ structure' = structure /\ diff' = diff /\ manifests' = manifests
      /\ at' = at /\ blamed' = blamed /\ causes' = causes
  BY DEF Visit, Onward
<1>2. stage \notin Early /\ stage' = "walk" /\ stage \in Walking /\ causes = {}
  BY <1>0, <1>1 DEF Early, Walking, StateInv
<1>3. Starts(file) /\ Walked(world.imports, file, s) /\ Reaches(world.imports, file, s)
  BY <1>0, <1>1, <1>2 DEF WalkInv
<1>4. file \in FilePaths /\ world.imports \in Imports
  <2>1. AgentAt \in Range(structure["agent"])
    <3>1. at[2] \in DOMAIN structure["agent"]
      BY <1>0, <1>2, DocFacts DEF StateInv
    <3>. QED BY <3>1 DEF AgentAt, Range
  <2>2. DeltaOf(AgentAt.function) \in DeltaRecords
    BY <1>0, <1>2, <2>1, AgentDelta
  <2>. QED BY <1>0, <2>2, WorldFacts DEF DeltaRecords, StateInv, Imports
<1>5. Going(s)
  BY <1>1 DEF Going
<1>. HIDE DEF s
<1>6. /\ Walked(world.imports, file, Onward(world.imports, s))
      /\ Reaches(world.imports, file, Onward(world.imports, s))
  BY <1>3, <1>4, <1>5, WalkGoesOn, OnwardReaches
<1>7. [seen |-> visited', stack |-> frontier'] = Onward(world.imports, s)
  BY <1>1 DEF Onward
<1>8. visited' \in SUBSET FilePaths /\ frontier' \in Seq(FilePaths)
  BY <1>1, <1>6 DEF Reaches
<1>9. StateInv'
  <2>1. at' \in (1 .. TestCases) \X (0 .. Len(structure["agent"])) /\ at'[2] # 0
    BY <1>0, <1>1, <1>2 DEF StateInv
  <2>. QED BY <1>0, <1>1, <1>2, <2>1, LateState DEF Walking
<1>10. BlamedInv'
  BY <1>0, <1>1, LateBlamed
<1>11. AgentAt' = AgentAt /\ DeltaOf(AgentAt.function)'.file = file /\ \A f : Starts(f)' <=> Starts(f)
  <2>1. AgentAt' = AgentAt
    BY <1>1 DEF AgentAt
  <2>2. \A f : DeltaOf(f)' = DeltaOf(f)
    BY <1>1, Frame
  <2>3. \A f : Starts(f)' <=> Starts(f)
    BY <1>1, Frame
  <2>4. DeltaOf(AgentAt.function)' = DeltaOf(AgentAt.function)
    BY <2>1, <2>2
  <2>. QED BY <2>1, <2>3, <2>4
<1>. HIDE DEF file
<1>12. WalkInv'
  BY <1>1, <1>2, <1>3, <1>6, <1>7, <1>8, <1>11 DEF WalkInv
<1>. QED BY <1>9, <1>10, <1>12 DEF IInv

LEMMA WalkEndsStep ==
    ASSUME IInv, WalkEnds
    PROVE  IInv'
<1>0. StateInv /\ BlamedInv /\ WalkInv
  BY DEF IInv
<1>. DEFINE s == [seen |-> visited, stack |-> frontier]
            file == DeltaOf(AgentAt.function).file
<1>1. /\ stage = "walk" /\ stage' = "rules" /\ (frontier = <<>> \/ Cardinality(visited) >= MaxFiles)
      /\ world' = world /\ structure' = structure /\ diff' = diff /\ manifests' = manifests
      /\ at' = at /\ blamed' = blamed /\ causes' = causes /\ visited' = visited /\ frontier' = frontier
  BY DEF WalkEnds, walk
<1>2. stage \notin Early /\ stage \in Walking /\ causes = {}
  BY <1>0, <1>1 DEF Early, Walking, StateInv
<1>3. Starts(file) /\ Walked(world.imports, file, s) /\ Reaches(world.imports, file, s)
  BY <1>0, <1>1, <1>2 DEF WalkInv
<1>4. ~Going(s)
  <2>1. Cardinality(visited) \in Nat /\ MaxFiles \in Nat
    BY <1>0, PathsFinite, FileAssumption DEF WalkInv
  <2>. QED BY <1>1, <2>1 DEF Going
<1>5. StateInv'
  <2>1. at' \in (1 .. TestCases) \X (0 .. Len(structure["agent"])) /\ at'[2] # 0
    BY <1>0, <1>1, <1>2 DEF StateInv
  <2>. QED BY <1>0, <1>1, <1>2, <2>1, LateState DEF Walking
<1>6. BlamedInv'
  BY <1>0, <1>1, LateBlamed
<1>7. DeltaOf(AgentAt.function)'.file = file /\ \A f : Starts(f)' <=> Starts(f)
  <2>1. AgentAt' = AgentAt
    BY <1>1 DEF AgentAt
  <2>2. \A f : DeltaOf(f)' = DeltaOf(f)
    BY <1>1, Frame
  <2>3. \A f : Starts(f)' <=> Starts(f)
    BY <1>1, Frame
  <2>4. DeltaOf(AgentAt.function)' = DeltaOf(AgentAt.function)
    BY <2>1, <2>2
  <2>. QED BY <2>3, <2>4
<1>8. s' = s
  BY <1>1
<1>. HIDE DEF file
<1>9. WalkInv'
  BY <1>0, <1>1, <1>3, <1>4, <1>7 DEF WalkInv
<1>. QED BY <1>5, <1>6, <1>9 DEF IInv

LEMMA AttributeStep ==
    ASSUME IInv, AttributeDelta
    PROVE  IInv'
<1>0. StateInv /\ BlamedInv /\ WalkInv
  BY DEF IInv
<1>. DEFINE d == DeltaOf(AgentAt.function)
            primary == IF world.mode = "observed" THEN ObservedBlame(d)
                       ELSE Primary(ApplyRules(d, visited \cap diff))
            Made(text) == [case |-> at[1], agent |-> AgentAt, primary |-> primary, explanation |-> text]
<1>1. /\ stage = "rules" /\ stage' = "next"
      /\ \E text \in {"none", "llm", "rule"} : blamed' = Append(blamed, Made(text))
      /\ world' = world /\ structure' = structure /\ diff' = diff /\ manifests' = manifests
      /\ at' = at /\ causes' = causes /\ visited' = visited /\ frontier' = frontier
  BY DEF AttributeDelta, walk
<1>2. stage \notin Early /\ stage \in Walking /\ causes = {}
  BY <1>0, <1>1 DEF Early, Walking, StateInv
<1>3. PICK text \in {"none", "llm", "rule"} : blamed' = Append(blamed, Made(text))
  BY <1>1
<1>4. AgentAt \in Range(structure["agent"]) /\ AgentAt \in Entries /\ at[1] \in 1 .. TestCases
  <2>1. at[2] \in DOMAIN structure["agent"] /\ at[1] \in 1 .. TestCases
    BY <1>0, <1>2, DocFacts DEF StateInv
  <2>2. AgentAt \in Range(structure["agent"])
    BY <2>1 DEF AgentAt, Range
  <2>. QED BY <1>0, <2>1, <2>2, DocFacts
<1>5. d \in DeltaRecords
  BY <1>0, <1>2, <1>4, AgentDelta
<1>6. visited \in SUBSET FilePaths /\ visited \cap diff \in SUBSET diff /\ Visits(d.file, visited)
  <2>1. IF Starts(d.file)
        THEN \E s : Walked(world.imports, d.file, s) /\ ~Going(s) /\ visited = s.seen
        ELSE visited = {}
    BY <1>0, <1>1, <1>2 DEF WalkInv
  <2>. HIDE DEF d
  <2>. QED BY <1>0, <2>1 DEF WalkInv, Visits, Complete
<1>. HIDE DEF d
<1>7. primary \in Blames
  <2>1. ApplyRules(d, visited \cap diff) \in SUBSET Blames
    BY <1>0, <1>5, <1>6, ApplyType
  <2>. QED BY <1>5, <2>1, PrimaryType, ObservedType
<1>8. Deserved(Made(text))
  <2>1. Made(text).primary = primary /\ Made(text).agent = AgentAt
    OBVIOUS
  <2>2. CASE world.mode = "observed"
    BY <2>1, <2>2 DEF Deserved, d
  <2>3. CASE world.mode # "observed"
    <3>. DEFINE m == Made(text)
    <3>1. m.primary = Primary(ApplyRules(d, visited \cap diff)) /\ d = DeltaOf(m.agent.function)
      BY <2>1, <2>3 DEF d
    <3>. HIDE DEF m
    <3>. QED BY <1>6, <2>3, <3>1 DEF Deserved, m
  <2>. QED BY <2>2, <2>3
<1>. HIDE DEF primary
<1>9. Made(text) \in BlameRecords /\ Made(text).agent = AgentAt
  BY <1>3, <1>4, <1>7 DEF BlameRecords
<1>. HIDE DEF Made
<1>10. StateInv'
  <2>1. at' \in (1 .. TestCases) \X (0 .. Len(structure["agent"]))
    BY <1>0, <1>1 DEF StateInv
  <2>. QED BY <1>0, <1>1, <1>2, <2>1, LateState DEF Walking
<1>11. BlamedInv'
  <2>1. blamed \in Seq(BlameRecords)
    BY <1>0 DEF BlamedInv
  <2>2. /\ blamed' \in Seq(BlameRecords)
        /\ \A i \in DOMAIN blamed' : IF i \in DOMAIN blamed THEN blamed'[i] = blamed[i]
                                     ELSE blamed'[i] = Made(text)
    BY <1>3, <1>9, <2>1
  <2>3. \A b : Deserved(b)' <=> Deserved(b)
    BY <1>1, Frame
  <2>4. ASSUME NEW i \in DOMAIN blamed'
        PROVE  blamed'[i].agent \in Range(structure["agent"]) /\ Deserved(blamed'[i])
    BY <1>0, <1>4, <1>8, <1>9, <2>2 DEF BlamedInv
  <2>. QED BY <1>1, <2>2, <2>3, <2>4 DEF BlamedInv
<1>12. WalkInv'
  BY <1>0, <1>1 DEF WalkInv, Walking
<1>. QED BY <1>10, <1>11, <1>12 DEF IInv

LEMMA BriefStep ==
    ASSUME IInv, Brief
    PROVE  IInv'
<1>0. StateInv /\ BlamedInv /\ WalkInv
  BY DEF IInv
<1>1. /\ stage = "next" /\ stage' = "done" /\ causes' = CauseSet
      /\ world' = world /\ structure' = structure /\ diff' = diff /\ manifests' = manifests
      /\ at' = at /\ blamed' = blamed /\ visited' = visited /\ frontier' = frontier
  BY DEF Brief, walk, CauseSet
<1>2. CauseSet' = CauseSet
  <2>1. \A f : Cause(f)' = Cause(f)
    BY <1>1 DEF Cause
  <2>. QED BY <1>1, <2>1 DEF CauseSet
<1>3. StateInv'
  <2>1. at' \in (1 .. TestCases) \X (0 .. Len(structure["agent"]))
    BY <1>0, <1>1 DEF StateInv
  <2>. QED BY <1>0, <1>1, <1>2, <2>1, LateState DEF Walking, Early
<1>4. BlamedInv'
  BY <1>0, <1>1, LateBlamed
<1>5. WalkInv'
  BY <1>0, <1>1 DEF WalkInv, Walking
<1>. QED BY <1>3, <1>4, <1>5 DEF IInv

LEMMA StutterStep ==
    ASSUME IInv, UNCHANGED attributionVars
    PROVE  IInv'
<1>0. StateInv /\ BlamedInv /\ WalkInv
  BY DEF IInv
<1>1. /\ world' = world /\ stage' = stage /\ structure' = structure /\ diff' = diff
      /\ manifests' = manifests /\ at' = at /\ visited' = visited /\ frontier' = frontier
      /\ blamed' = blamed /\ causes' = causes
  BY DEF attributionVars
<1>2. StateInv'
  <2>1. \A v : Manifests(v)' = Manifests(v)
    BY <1>1, Frame
  <2>2. \A f : Cause(f)' = Cause(f)
    BY <1>1 DEF Cause
  <2>3. CauseSet' = CauseSet
    BY <1>1, <2>2 DEF CauseSet
  <2>. QED BY <1>0, <1>1, <2>1, <2>3 DEF StateInv
<1>3. BlamedInv'
  BY <1>0, <1>1, LateBlamed
<1>4. WalkInv'
  <2>1. \A f : DeltaOf(f)' = DeltaOf(f)
    BY <1>1, Frame
  <2>2. \A f : Starts(f)' <=> Starts(f)
    BY <1>1, Frame
  <2>3. AgentAt' = AgentAt
    BY <1>1 DEF AgentAt
  <2>4. DeltaOf(AgentAt.function)' = DeltaOf(AgentAt.function)
    BY <2>1, <2>3
  <2>. QED BY <1>0, <1>1, <2>2, <2>4 DEF WalkInv
<1>. QED BY <1>2, <1>3, <1>4 DEF IInv

(* The invariant the other theorems rest on: what is blamed is what the    *)
(* rules give for the manifests of the agent's function and for the files  *)
(* that the complete walk visits (engine.py:88-134), and a walk under way  *)
(* is a prefix of that one (reachability.py:24-38).                        *)
THEOREM Inductive == AttributionSpec => []IInv
<1>1. IInv /\ [AttributionNext]_attributionVars => IInv'
  <2>. SUFFICES ASSUME IInv, [AttributionNext]_attributionVars
                PROVE  IInv'
    OBVIOUS
  <2>1. CASE Rescan \/ CollectGitDiff \/ BuildManifests
    BY <2>1, EarlyStep
  <2>2. CASE NextDelta
    BY <2>2, NextDeltaStep
  <2>3. CASE Visit
    BY <2>3, VisitStep
  <2>4. CASE WalkEnds
    BY <2>4, WalkEndsStep
  <2>5. CASE AttributeDelta
    BY <2>5, AttributeStep
  <2>6. CASE Brief
    BY <2>6, BriefStep
  <2>7. CASE UNCHANGED attributionVars
    BY <2>7, StutterStep
  <2>. QED BY <2>1, <2>2, <2>3, <2>4, <2>5, <2>6, <2>7 DEF AttributionNext
<1>. QED BY <1>1, InitInv, PTL DEF AttributionSpec
-----------------------------------------------------------------------------
(* The properties. *)

LEMMA CauseType ==
    ASSUME BlamedInv, NEW f
    PROVE  Cause(f) \in Blames
<1>. DEFINE hits == {i \in DOMAIN blamed :
                        blamed[i].agent.function = f /\ blamed[i].primary # NoBlame}
<1>1. blamed \in Seq(BlameRecords)
  BY DEF BlamedInv
<1>2. DOMAIN blamed = 1 .. Len(blamed) /\ \A i \in DOMAIN blamed : blamed[i] \in BlameRecords
  BY <1>1
<1>3. CASE hits = {}
  <2>1. Cause(f) = NoBlame
    BY <1>3 DEF Cause
  <2>2. NoBlame \in Blames
    BY DEF NoBlame, Blames
  <2>. QED BY <2>1, <2>2
<1>4. CASE hits # {}
  <2>1. hits \in SUBSET Nat /\ hits \in SUBSET (DOMAIN blamed)
    BY <1>2
  <2>. HIDE DEF hits
  <2>2. Min(hits) \in hits
    BY <1>4, <2>1, MinLeast
  <2>3. Cause(f) = blamed[Min(hits)].primary
    BY <1>4 DEF Cause, hits
  <2>. QED BY <1>2, <2>1, <2>2, <2>3, ZenonT(60) DEF BlameRecords
<1>. QED BY <1>3, <1>4

(* Type correctness: every blame names a rule and a file of the            *)
(* repository, or none, with a weight of at most 100 (rules.py:33-39), and *)
(* so does every cause of a finding.                                       *)
THEOREM TypeCorrect == AttributionSpec => []AttributionTypeOK
<1>1. IInv => AttributionTypeOK
  <2>. SUFFICES ASSUME IInv PROVE AttributionTypeOK
    OBVIOUS
  <2>0. StateInv /\ BlamedInv /\ WalkInv
    BY DEF IInv
  <2>1. DOMAIN structure = Roles /\ \A r \in Roles : Range(structure[r]) \subseteq Entries
    <3>1. structure \in [Roles -> Seq(Entries)]
      BY <2>0, DocFacts DEF Docs
    <3>. QED BY <3>1 DEF Range
  <2>2. DOMAIN manifests = Versions
    BY <2>0 DEF StateInv
  <2>3. at[1] \in 1 .. TestCases /\ at[2] \in 0 .. Len(structure["agent"])
    BY <2>0 DEF StateInv
  <2>4. Range(frontier) \subseteq FilePaths
    BY <2>0 DEF WalkInv, Range
  <2>5. \A i \in DOMAIN blamed : blamed[i] \in BlameRecords
    BY <2>0 DEF BlamedInv
  <2>6. \A c \in causes : c.function \in Defs /\ c.cause \in Blames
    <3>1. \A i \in DOMAIN blamed : blamed[i].agent.function \in Defs
      BY <2>5 DEF BlameRecords, Entries
    <3>2. \A f : Cause(f) \in Blames
      BY <2>0, CauseType
    <3>3. \A c \in CauseSet : c.function \in Defs /\ c.cause \in Blames
      BY <3>1, <3>2 DEF CauseSet
    <3>. QED BY <2>0, <3>3 DEF StateInv
  <2>. QED BY <2>0, <2>1, <2>2, <2>3, <2>4, <2>5, <2>6
           DEF AttributionTypeOK, StateInv, WalkInv, BlameRecords, Early, Walking
<1>. QED BY <1>1, Inductive, PTL

(* For every import graph, cyclic ones too, and every limit, a walk that   *)
(* was not cut off visits exactly what the agent's file can reach, and one *)
(* that was cut off a part of it (reachability.py:17-40).                  *)
THEOREM WalkReaches == AttributionSpec => []WalkIsReachability
<1>1. IInv => WalkIsReachability
  <2>. DEFINE file == DeltaOf(AgentAt.function).file
              s == [seen |-> visited, stack |-> frontier]
  <2>. SUFFICES ASSUME IInv, stage = "rules", visited # {}
                PROVE  /\ \A S \in SUBSET FilePaths :
                             file \in S /\ Closed(world.imports, S) => visited \subseteq S
                       /\ Cardinality(visited) <= MaxFiles
                       /\ Cardinality(visited) < MaxFiles =>
                             /\ visited \in SUBSET FilePaths /\ file \in visited
                             /\ Closed(world.imports, visited)
    BY DEF WalkIsReachability, Closed
  <2>1. Reaches(world.imports, file, s) /\ ~Going(s)
    BY DEF IInv, WalkInv, Walking
  <2>. HIDE DEF file
  <2>2. /\ visited \in SUBSET FilePaths /\ file \in visited \cup Range(frontier)
        /\ \A f \in visited : Range(world.imports[f]) \subseteq visited \cup Range(frontier)
        /\ \A S \in SUBSET FilePaths : file \in S /\ Closed(world.imports, S) =>
              visited \cup Range(frontier) \subseteq S
        /\ Cardinality(visited) <= MaxFiles
    BY <2>1 DEF Reaches
  <2>3. Cardinality(visited) < MaxFiles => Range(frontier) = {}
    <3>1. Cardinality(visited) < MaxFiles => frontier = <<>>
      BY <2>1 DEF Going
    <3>. QED BY <3>1 DEF Range
  <2>. QED BY <2>2, <2>3 DEF Closed
<1>. QED BY <1>1, Inductive, PTL

(* What the rules give an agent that is alone with its function. *)
LEMMA BlameMatches ==
    ASSUME StateInv, stage \notin Early, world.mode = "git", NEW e \in Range(structure["agent"]),
           Alone(e), NEW v \in SUBSET FilePaths,
           NEW b, b = Primary(ApplyRules(DeltaOf(e.function), v \cap diff))
    PROVE  /\ b.weight >= 50 =>
                \/ BodyChanged(e)
                \/ ObservedPrompts("baseline", e.name) # ObservedPrompts("candidate", e.name)
                \/ MostCommon(Observed("baseline", e.name)) # MostCommon(Observed("candidate", e.name))
           /\ BodyChanged(e) /\ e.file \in diff => b.weight >= 80 /\ b.hunk
           /\ b.rule = "code_change" => b.target = e.file
<1>. DEFINE d == DeltaOf(e.function)
            found == ApplyRules(d, v \cap diff)
<1>0. world \in Worlds /\ diff \in SUBSET FilePaths /\ structure \in Docs /\ e \in Entries
  BY DocFacts DEF StateInv
<1>1. d = DeltaBetween(e) /\ d \in DeltaRecords
  <2>1. PICK g \in Range(structure["agent"]) : g.function = e.function /\ d = DeltaBetween(g)
    BY AgentDelta
  <2>2. g = e
    <3>1. PICK i \in DOMAIN structure["agent"] : e = structure["agent"][i]
      BY DEF Range
    <3>2. PICK j \in DOMAIN structure["agent"] : g = structure["agent"][j]
      BY DEF Range
    <3>. QED BY <2>1, <3>1, <3>2 DEF Alone
  <2>. QED BY <2>1, <2>2, AgentDelta
<1>2. /\ d.file = e.file /\ (d.codeChanged <=> BodyChanged(e))
      /\ d.promptChanged =>
            ObservedPrompts("baseline", e.name) # ObservedPrompts("candidate", e.name)
      /\ d.modelChanged \/ d.toolsChanged =>
            MostCommon(Observed("baseline", e.name)) # MostCommon(Observed("candidate", e.name))
  BY <1>0, <1>1, DeltaFacts
<1>. HIDE DEF d
<1>3. /\ \A c \in DirectRules(d) :
            /\ d.promptChanged \/ d.codeChanged \/ d.modelChanged \/ d.toolsChanged
            /\ c.weight >= 80 => c.hunk
            /\ c.rule = "code_change" => c.target = d.file
      /\ d.codeChanged /\ d.file \in diff => Blame("code_change", d.file, 80) \in DirectRules(d)
  BY <1>0, <1>1, DirectFacts
<1>4. v \cap diff \in SUBSET diff /\ found \in SUBSET Blames
  BY <1>1, ApplyType
<1>5. b = Primary(found)
  BY DEF d
<1>6. CASE DirectRules(d) # {}
  <2>1. found = DirectRules(d)
    BY <1>6 DEF ApplyRules
  <2>. HIDE DEF found
  <2>2. b \in DirectRules(d) /\ \A c \in DirectRules(d) : c.weight <= b.weight
    BY <1>4, <1>5, <1>6, <2>1, PrimaryFacts
  <2>3. BodyChanged(e) /\ e.file \in diff => b.weight >= 80
    <3>1. Blame("code_change", d.file, 80).weight = 80
      BY BlameFacts
    <3>2. b \in Blames
      BY <1>4, <2>1, <2>2
    <3>3. b.weight \in Nat
      BY <3>2 DEF Blames
    <3>. QED BY <1>2, <1>3, <2>2, <3>1, <3>3
  <2>. QED BY <1>2, <1>3, <2>2, <2>3
<1>7. CASE DirectRules(d) = {}
  <2>1. found = ReachableChange(d, v \cap diff)
    BY <1>7 DEF ApplyRules
  <2>2. \A c \in found : c.weight < 50 /\ c.rule = "reachable_change"
    BY <1>0, <1>1, <1>4, <2>1, ReachableFacts
  <2>. HIDE DEF found
  <2>3. ~ (BodyChanged(e) /\ e.file \in diff)
    BY <1>2, <1>3, <1>7
  <2>4. b.weight \in Nat /\ b.weight < 50 /\ b.rule # "code_change"
    <3>1. CASE found = {}
      <4>1. b = NoBlame
        BY <1>5, <3>1 DEF Primary
      <4>. QED BY <4>1 DEF NoBlame
    <3>2. CASE found # {}
      <4>1. b \in found
        BY <1>4, <1>5, <3>2, PrimaryFacts
      <4>2. b.weight \in Nat
        BY <1>4, <4>1 DEF Blames
      <4>. QED BY <2>2, <4>1, <4>2
    <3>. QED BY <3>1, <3>2
  <2>. QED BY <2>3, <2>4
<1>. QED BY <1>6, <1>7

(* The configuration of one version differs from the other's only by the   *)
(* requests, or by a tie.                                                  *)
LEMMA ConfigMatches ==
    ASSUME world \in Worlds, NEW e \in Entries,
           MostCommon(Observed("baseline", e.name)) # MostCommon(Observed("candidate", e.name))
    PROVE  \/ Tied("baseline", e) \/ Tied("candidate", e)
           \/ \E c \in Configs("baseline", e) \cup Configs("candidate", e) :
                 Count("baseline", e, c) # Count("candidate", e, c)
<1>. DEFINE bs == Observed("baseline", e.name)
            cs == Observed("candidate", e.name)
<1>1. bs \in Seq(Observations) /\ cs \in Seq(Observations)
  BY WorldFacts DEF Observed, Versions, Entries
<1>2. \/ Split(bs) \/ Split(cs)
      \/ \E c \in Offered(bs) \cup Offered(cs) : Times(bs, c) # Times(cs, c)
  <2>. HIDE DEF bs, cs
  <2>1. MostCommon(bs) # MostCommon(cs)
    BY DEF bs, cs
  <2>. QED BY <1>1, <2>1, SameConfig
<1>3. /\ Offered(bs) = Configs("baseline", e) /\ Offered(cs) = Configs("candidate", e)
      /\ \A c : Times(bs, c) = Count("baseline", e, c)
      /\ \A c : Times(cs, c) = Count("candidate", e, c)
  BY DEF Offered, Configs, Times, Count
<1>. HIDE DEF bs, cs
<1>. QED BY <1>2, <1>3 DEF Split, Tied

LEMMA CausesAgree ==
    ASSUME IInv, NEW b \in Range(blamed), NEW c \in causes, c.function = b.agent.function
    PROVE  c.cause = b.primary
<1>. DEFINE f == b.agent.function
            hits == {i \in DOMAIN blamed :
                        blamed[i].agent.function = f /\ blamed[i].primary # NoBlame}
<1>1. c.cause = Cause(f)
  BY DEF IInv, StateInv, CauseSet
<1>2. blamed \in Seq(BlameRecords) /\ DOMAIN blamed = 1 .. Len(blamed)
  BY LenProperties DEF IInv, BlamedInv
<1>3. \A i \in DOMAIN blamed : blamed[i].agent.function = f => blamed[i].primary = b.primary
  <2>1. \A i \in DOMAIN blamed : blamed[i] \in Range(blamed)
    BY DEF Range
  <2>. QED BY <2>1, OneBlame
<1>4. PICK k \in DOMAIN blamed : b = blamed[k]
  BY DEF Range
<1>5. CASE hits = {}
  <2>1. Cause(f) = NoBlame
    BY <1>5 DEF Cause
  <2>2. b.primary = NoBlame
    BY <1>4, <1>5
  <2>. QED BY <1>1, <2>1, <2>2
<1>6. CASE hits # {}
  <2>1. hits \in SUBSET Nat /\ \A i \in hits : blamed[i].primary = b.primary
    BY <1>2, <1>3
  <2>2. Cause(f) = blamed[Min(hits)].primary
    BY <1>6 DEF Cause
  <2>. HIDE DEF hits
  <2>. QED BY <1>1, <1>6, <2>1, <2>2, MinLeast
<1>. QED BY <1>5, <1>6

LEMMA NameMatches ==
    ASSUME StateInv, stage \notin Early, NEW e \in Range(structure["agent"]),
           ~Known("entry_point", e), Known("agent", e) \/ Known("tool", e)
    PROVE  \E r \in {"agent", "tool"} : \E k \in KnownIn(world.existing, r, Key(e)) :
               e.name = world.existing[r][k].name
<1>1. /\ world.existing \in Docs /\ world.fresh \in Docs
      /\ structure = Merge(world.existing, world.fresh)
  BY WorldFacts DEF StateInv, Early
<1>2. PICK i \in DOMAIN structure["agent"] : e = structure["agent"][i]
  BY DEF Range
<1>3. "agent" \in Roles
  BY DEF Roles
<1>4. i \in DOMAIN world.fresh["agent"] /\ e = Merged(world.existing, "agent", world.fresh["agent"][i])
  BY <1>1, <1>2, <1>3, MergeFacts
<1>5. world.fresh["agent"][i] \in Entries
  BY <1>1, <1>3, <1>4 DEF Docs
<1>6. Key(world.fresh["agent"][i]) = Key(e)
  BY <1>1, <1>3, <1>4, <1>5, MergedFacts DEF Key
<1>. QED BY <1>1, <1>4, <1>5, <1>6, NameKept DEF Known

(* A cause matches what changed of the agent it is given for: by the rules *)
(* for one agent (rules.py:42-213, manifest_diff.py:43-66), since the walk *)
(* from a file ends in one place for the cases of a function, and by the   *)
(* rescan for the name (structure_yaml.py:109-127).                        *)
THEOREM CausesMatch == AttributionSpec => []CauseMatchesChange
<1>1. IInv => CauseMatchesChange
  <2>. SUFFICES ASSUME IInv, NEW i \in DOMAIN blamed
                PROVE  LET b == blamed[i].primary
                           e == blamed[i].agent
                       IN  /\ Alone(e) /\ world.mode = "git" =>
                                 /\ b.weight >= 50 =>
                                       \/ BodyChanged(e)
                                       \/ ObservedPrompts("baseline", e.name) # ObservedPrompts("candidate", e.name)
                                       \/ Tied("baseline", e) \/ Tied("candidate", e)
                                       \/ \E c \in Configs("baseline", e) \cup Configs("candidate", e) :
                                             Count("baseline", e, c) # Count("candidate", e, c)
                                 /\ BodyChanged(e) /\ e.file \in diff => b.weight >= 80 /\ b.hunk
                                 /\ b.rule = "code_change" => b.target = e.file
                                 /\ \A c \in causes : c.function = e.function => c.cause = b
                           /\ ~Known("entry_point", e) /\ (Known("agent", e) \/ Known("tool", e)) =>
                                 \E r \in {"agent", "tool"} : \E k \in KnownIn(world.existing, r, Key(e)) :
                                     e.name = world.existing[r][k].name
    BY DEF CauseMatchesChange
  <2>. DEFINE b == blamed[i].primary
              e == blamed[i].agent
  <2>0. StateInv /\ BlamedInv
    BY DEF IInv
  <2>1. stage \notin Early /\ blamed[i] \in Range(blamed)
    BY <2>0 DEF StateInv, Range
  <2>2. e \in Range(structure["agent"]) /\ Deserved(blamed[i]) /\ world \in Worlds
    BY <2>0 DEF BlamedInv, StateInv
  <2>3. e \in Entries
    BY <2>0, <2>2, DocFacts
  <2>4. \A c \in causes : c.function = e.function => c.cause = b
    BY <2>1, CausesAgree
  <2>5. ASSUME world.mode = "git"
        PROVE  \E v \in SUBSET FilePaths : b = Primary(ApplyRules(DeltaOf(e.function), v \cap diff))
    BY <2>2, <2>5 DEF Deserved
  <2>. HIDE DEF b, e
  <2>6. ASSUME Alone(e), world.mode = "git"
        PROVE  /\ b.weight >= 50 =>
                     \/ BodyChanged(e)
                     \/ ObservedPrompts("baseline", e.name) # ObservedPrompts("candidate", e.name)
                     \/ Tied("baseline", e) \/ Tied("candidate", e)
                     \/ \E c \in Configs("baseline", e) \cup Configs("candidate", e) :
                           Count("baseline", e, c) # Count("candidate", e, c)
               /\ BodyChanged(e) /\ e.file \in diff => b.weight >= 80 /\ b.hunk
               /\ b.rule = "code_change" => b.target = e.file
    <3>1. PICK v \in SUBSET FilePaths : b = Primary(ApplyRules(DeltaOf(e.function), v \cap diff))
      BY <2>5, <2>6
    <3>2. /\ b.weight >= 50 =>
                \/ BodyChanged(e)
                \/ ObservedPrompts("baseline", e.name) # ObservedPrompts("candidate", e.name)
                \/ MostCommon(Observed("baseline", e.name)) # MostCommon(Observed("candidate", e.name))
          /\ BodyChanged(e) /\ e.file \in diff => b.weight >= 80 /\ b.hunk
          /\ b.rule = "code_change" => b.target = e.file
      BY <2>0, <2>1, <2>2, <2>6, <3>1, BlameMatches
    <3>. QED BY <2>2, <2>3, <3>2, ConfigMatches
  <2>7. ~Known("entry_point", e) /\ (Known("agent", e) \/ Known("tool", e)) =>
           \E r \in {"agent", "tool"} : \E k \in KnownIn(world.existing, r, Key(e)) :
               e.name = world.existing[r][k].name
    BY <2>0, <2>1, <2>2, NameMatches
  <2>. QED BY <2>4, <2>6, <2>7 DEF b, e
<1>. QED BY <1>1, Inductive, PTL
=============================================================================

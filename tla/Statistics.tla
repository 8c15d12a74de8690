------------------------------ MODULE Statistics ------------------------------
(***************************************************************************)
(* The significance tests of a comparison (stats.py): pure functions of    *)
(* counts and of samples.  A probability is a number of thousandths.  Only *)
(* the tail of the normal distribution is abstracted, to the table Normal:   *)
(* a step function of the squared z score, falling as the score grows.     *)
(* Corrected probabilities have the unit 1 / (1000 * Scale), so that every *)
(* division by a rank is exact.                                            *)
(***************************************************************************)
EXTENDS Integers, FiniteSets, Sequences, FiniteSetsExt, Functions

CONSTANTS
    Normal,  \* rows [z2, p]: a squared z score of z2 / 1000 or more has probability p
    Scale    \* a multiple of every size of a family of tests

One == 1000

ASSUME NormalAssumption ==
    /\ Normal \subseteq [z2 : Nat, p : 0 .. One]
    /\ [z2 |-> 0, p |-> One] \in Normal
    /\ IsFiniteSet(Normal)
ASSUME ScaleAssumption == Scale \in Nat \ {0}

Total(s) ==
    LET upto[i \in 0 .. Len(s)] == IF i = 0 THEN 0 ELSE upto[i - 1] + s[i]
    IN  upto[Len(s)]

(* The two-sided probability of a z score whose square is num / den.       *)
TwoSided(num, den) ==
    Min({row.p : row \in {r \in Normal : r.z2 * den <= One * num}})

(* bs of bn runs of the baseline and cs of cn runs of the candidate.       *)
TwoProportion(bs, bn, cs, cn) ==
    LET gap == cs * bn - bs * cn
        all == bs + cs
    IN  IF bn = 0 \/ cn = 0 \/ all \in {0, bn + cn}
        THEN One
        ELSE TwoSided(gap * gap * (bn + cn), bn * cn * all * (bn + cn - all))

Occurs(v, s) == Cardinality({i \in DOMAIN s : s[i] = v})
Below(v, s) == Cardinality({i \in DOMAIN s : s[i] < v})

(* Two samples x and y, in any order.  Ranks are doubled, since tied values *)
(* share the average of their ranks; each of t tied values adds t^2 - 1 to  *)
(* the tie term.                                                           *)
MannWhitney(x, y) ==
    LET n1 == Len(x)
        n2 == Len(y)
        n == n1 + n2
        Tied(v) == Occurs(v, x) + Occurs(v, y)
        Rank2(v) == 2 * (Below(v, x) + Below(v, y)) + Tied(v) + 1
        gap == Total([i \in 1 .. n1 |-> Rank2(x[i])]) - n1 * (n1 + 1) - n1 * n2
        ties == Total([i \in 1 .. n1 |-> Tied(x[i]) * Tied(x[i]) - 1])
                + Total([i \in 1 .. n2 |-> Tied(y[i]) * Tied(y[i]) - 1])
        spread == n * (n * n - 1) - ties
        off == IF gap < 0 THEN gap + 1 ELSE gap - 1
    IN  IF n1 = 0 \/ n2 = 0 \/ spread = 0
        THEN One
        ELSE TwoSided(3 * n * (n - 1) * off * off, n1 * n2 * spread)

Significant(adjusted, alpha) == adjusted < alpha * Scale

(* A family is a function of the places of its tests, pairs of numbers.    *)
(* The rank of a test, smallest probability first; equal ones keep the     *)
(* order of their places.                                                  *)
UpTo(a, b) == a[1] < b[1] \/ (a[1] = b[1] /\ a[2] <= b[2])
Rank(p, a) ==
    Cardinality({b \in DOMAIN p : p[b] < p[a] \/ (p[b] = p[a] /\ UpTo(b, a))})

Share(p, a) == (p[a] * Cardinality(DOMAIN p) * Scale) \div Rank(p, a)

(* Mutants of Adjusted: without the bound, and without the running minimum. *)
AdjustedUnbounded(p, a) == Share(p, a)
AdjustedAlone(p, a) == Min({One * Scale, Share(p, a)})

(* The running minimum over the ranks from a's to the last one.            *)
Adjusted(p, a) ==
    Min({One * Scale} \cup {Share(p, b) : b \in {c \in DOMAIN p : Rank(p, c) >= Rank(p, a)}})

BenjaminiHochberg(p) == [a \in DOMAIN p |-> Adjusted(p, a)]
=============================================================================

---------------------------- MODULE FoldTheorems ----------------------------
(***************************************************************************)
(* What FoldLeft computes, by induction: on the empty sequence and on a    *)
(* sequence with one element more. Op is the body of the loop; a module    *)
(* that folds with an operator of its own takes these theorems with        *)
(* INSTANCE FoldTheorems WITH Op <- ...                                    *)
(***************************************************************************)
EXTENDS SequencesExt, WellFoundedInduction, TLAPS

CONSTANT Op(_, _)

\* A loop over seq that starts from base, as FoldLeft defines it.
Fold(base, seq) == FoldLeft(Op, base, seq)

\* A set of numbers that is not empty has a least one. This is the induction
\* that the proofs of this project use.
LEMMA LeastNumber ==
    ASSUME NEW T, T \subseteq Nat, T # {}
    PROVE  \E n \in T : \A m \in T : n <= m
  <1>1. PICK n \in T : \A m \in T : ~(<<m, n>> \in OpToRel(<, Nat))
    BY NatLessThanWellFounded, WFMin, Zenon
  <1>2. \A m \in T : ~(m < n)
    BY <1>1, Zenon DEF OpToRel
  <1> QED
    BY <1>2

\* Counting up from 0 reaches every number.
LEMMA CountUp ==
    ASSUME NEW T, 0 \in T, \A n \in Nat : n \in T => n + 1 \in T
    PROVE  \A n \in Nat : n \in T
  <1> DEFINE F == {n \in Nat : n \notin T}
  <1>1. SUFFICES ASSUME F # {} PROVE FALSE
    OBVIOUS
  <1>2. PICK n \in F : \A m \in F : n <= m
    BY <1>1, LeastNumber
  <1>3. n # 0 /\ n \in Nat /\ n \notin T
    BY <1>2
  <1>4. n - 1 \in Nat /\ n - 1 \notin F
    BY <1>2, <1>3
  <1>5. n - 1 \in T
    BY <1>4
  <1>6. (n - 1) + 1 \in T
    BY <1>4, <1>5
  <1> QED
    BY <1>3, <1>6

\* g is the table of the recursive function behind FoldLeft, over the
\* subsets of 1 .. n: without its largest element S is a smaller set.
Table(g, n, base, s) ==
    g = [S \in SUBSET (1 .. n) |->
            IF S = {} THEN base ELSE Op(g[S \ {Max(S)}], s[Max(S)])]

\* The largest element of a set of indices that has n is n, and what is left
\* is below n.
LEMMA MaxIsTop ==
    ASSUME NEW n \in Nat \ {0}, NEW S \in SUBSET (1 .. n), n \in S
    PROVE  Max(S) = n /\ S \ {n} \in SUBSET (1 .. n - 1)
  <1>1. \A y \in S : n >= y
    OBVIOUS
  <1>2. Max(S) \in S /\ \A y \in S : Max(S) >= y
    BY <1>1, Zenon DEF Max
  <1>3. Max(S) \in 1 .. n /\ Max(S) >= n
    BY <1>2
  <1>4. Max(S) = n
    BY <1>3
  <1>5. S \ {n} \in SUBSET (1 .. n - 1)
    OBVIOUS
  <1> QED
    BY <1>4, <1>5

\* There is such a table for every n, so the CHOOSE of a recursive function
\* finds one.
LEMMA TableExists ==
    ASSUME NEW base, NEW s
    PROVE  \A n \in Nat : \E g : Table(g, n, base, s)
  <1> DEFINE T == {n \in Nat : ~\E g : Table(g, n, base, s)}
  <1>1. SUFFICES ASSUME T # {} PROVE FALSE
    OBVIOUS
  <1>2. PICK n \in T : \A m \in T : n <= m
    BY <1>1, LeastNumber
  <1>3. n # 0
    <2> DEFINE g == [S \in SUBSET (1 .. 0) |-> base]
    <2>1. Table(g, 0, base, s)
      BY DEF Table
    <2> QED
      BY <2>1
  <1>4. n \in Nat \ {0} /\ n - 1 \in Nat /\ n - 1 \notin T
    BY <1>2, <1>3
  <1>5. PICK g : Table(g, n - 1, base, s)
    BY <1>4
  <1> DEFINE h == [S \in SUBSET (1 .. n) |->
                    IF n \in S THEN Op(g[S \ {n}], s[n]) ELSE g[S]]
  <1>6. Table(h, n, base, s)
    <2>1. ASSUME NEW S \in SUBSET (1 .. n), n \in S
          PROVE  h[S] = Op(h[S \ {Max(S)}], s[Max(S)])
      <3>1. Max(S) = n /\ S \ {n} \in SUBSET (1 .. n - 1)
        BY <2>1, <1>4, MaxIsTop
      <3>2. h[S \ {n}] = g[S \ {n}]
        BY <3>1
      <3> QED
        BY <2>1, <3>1, <3>2
    <2>2. ASSUME NEW S \in SUBSET (1 .. n), n \notin S
          PROVE  h[S] = IF S = {} THEN base ELSE Op(h[S \ {Max(S)}], s[Max(S)])
      <3>1. S \in SUBSET (1 .. n - 1)
        BY <2>2
      <3>2. h[S] = g[S] /\ h[S \ {Max(S)}] = g[S \ {Max(S)}]
        BY <2>2, <3>1
      <3> QED
        BY <3>1, <3>2, <1>5 DEF Table
    <2> QED
      BY <2>1, <2>2 DEF Table
  <1> QED
    BY <1>6

\* What a loop over a sequence computes is the entry of its table for all
\* indices.
LEMMA FoldIsTable ==
    ASSUME NEW base, NEW s, NEW n \in Nat, DOMAIN s = 1 .. n
    PROVE  \E g : Table(g, n, base, s) /\ Fold(base, s) = g[1 .. n]
  <1> DEFINE h == CHOOSE g : Table(g, n, base, s)
  <1>1. Fold(base, s) = h[1 .. n]
    BY DEF Fold, FoldLeft, MapThenFoldSet, Table
  <1>2. Table(h, n, base, s)
    BY TableExists
  <1> QED
    BY <1>1, <1>2

\* Two sequences that begin alike have tables that begin alike.
LEMMA TableUnique ==
    ASSUME NEW base, NEW s, NEW t, NEW n \in Nat, NEW m \in Nat, NEW g, NEW h,
           n <= m, \A i \in 1 .. n : s[i] = t[i],
           Table(g, n, base, s), Table(h, m, base, t)
    PROVE  g[1 .. n] = h[1 .. n]
  <1> DEFINE Agree(k) == \A S \in SUBSET (1 .. k) : g[S] = h[S]
             T == {k \in 0 .. n : ~Agree(k)}
  <1>1. SUFFICES ASSUME T # {} PROVE FALSE
    <2>1. n \in 0 .. n /\ (Agree(n) => g[1 .. n] = h[1 .. n])
      OBVIOUS
    <2> HIDE DEF Agree
    <2>2. T = {} => Agree(n)
      BY <2>1
    <2> QED
      BY <2>1, <2>2
  <1>2. PICK k \in T : \A j \in T : k <= j
    <2>1. T \subseteq Nat
      OBVIOUS
    <2> QED
      BY <1>1, <2>1, LeastNumber, Zenon
  <1>3. k \in 0 .. n /\ (k > 0 => Agree(k - 1))
    <2>1. k > 0 => k - 1 \in 0 .. n /\ k - 1 \notin T
      BY <1>2
    <2> QED
      BY <2>1
  <1> HIDE DEF Agree
  <1>4. ASSUME NEW S \in SUBSET (1 .. k) PROVE g[S] = h[S]
    <2>1. S \in SUBSET (1 .. n) /\ S \in SUBSET (1 .. m)
      BY <1>3
    <2>2. CASE S = {}
      BY <2>1, <2>2 DEF Table
    <2>3. CASE k > 0 /\ k \in S
      <3>1. Max(S) = k /\ S \ {k} \in SUBSET (1 .. k - 1)
        BY <2>3, <1>3, MaxIsTop
      <3>2. g[S \ {k}] = h[S \ {k}]
        BY <3>1, <2>3, <1>3 DEF Agree
      <3>3. g[S] = Op(g[S \ {k}], s[k]) /\ h[S] = Op(h[S \ {k}], t[k])
        BY <3>1, <2>1, <2>3 DEF Table
      <3> QED
        BY <3>2, <3>3, <2>3, <1>3
    <2>4. CASE k > 0 /\ k \notin S
      <3>1. S \in SUBSET (1 .. k - 1)
        BY <2>4, <1>3
      <3> QED
        BY <3>1, <2>4, <1>3 DEF Agree
    <2> QED
      BY <2>2, <2>3, <2>4, <1>3
  <1> QED
    BY <1>2, <1>4 DEF Agree

\* A loop over nothing leaves what it started from.
THEOREM FoldEmpty ==
    ASSUME NEW base
    PROVE  Fold(base, <<>>) = base
  <1>1. DOMAIN <<>> = 1 .. 0
    OBVIOUS
  <1>2. PICK g : Table(g, 0, base, <<>>) /\ Fold(base, <<>>) = g[1 .. 0]
    BY <1>1, FoldIsTable
  <1>3. 1 .. 0 = {}
    OBVIOUS
  <1> QED
    BY <1>2, <1>3 DEF Table

\* A loop over one element more is one iteration more.
THEOREM FoldAppend ==
    ASSUME NEW base, NEW S, NEW s \in Seq(S), NEW t \in Seq(S),
           Len(t) = Len(s) + 1, \A i \in 1 .. Len(s) : t[i] = s[i]
    PROVE  Fold(base, t) = Op(Fold(base, s), t[Len(t)])
  <1> DEFINE n == Len(s)
  <1>1. n \in Nat /\ DOMAIN s = 1 .. n
    OBVIOUS
  <1>2. PICK m \in Nat : m = n + 1 /\ DOMAIN t = 1 .. m /\ Len(t) = m
    OBVIOUS
  <1>3. \A i \in 1 .. n : s[i] = t[i]
    OBVIOUS
  <1> HIDE DEF n
  <1>4. PICK g : Table(g, n, base, s) /\ Fold(base, s) = g[1 .. n]
    BY <1>1, FoldIsTable
  <1>5. PICK h : Table(h, m, base, t) /\ Fold(base, t) = h[1 .. m]
    BY <1>2, FoldIsTable
  <1>6. g[1 .. n] = h[1 .. n]
    <2>1. n <= m
      BY <1>1, <1>2
    <2> QED
      BY <1>1, <1>3, <1>4, <1>5, <2>1, TableUnique
  <1>7. Max(1 .. m) = m /\ (1 .. m) \ {m} = 1 .. n
    BY <1>1, <1>2, MaxIsTop
  <1>8. h[1 .. m] = Op(h[1 .. n], t[m])
    <2>1. 1 .. m # {} /\ 1 .. m \in SUBSET (1 .. m)
      BY <1>1, <1>2
    <2> QED
      BY <1>5, <1>7, <2>1 DEF Table
  <1> QED
    BY <1>2, <1>4, <1>5, <1>6, <1>8

\* A loop whose body maps results to results ends with a result.
THEOREM FoldType ==
    ASSUME NEW R, NEW S, NEW base \in R, NEW s \in Seq(S),
           \A r \in R, e \in S : Op(r, e) \in R
    PROVE  Fold(base, s) \in R
  <1> DEFINE P(k) == SubSeq(s, 1, k)
             T == {k \in Nat : k <= Len(s) => Fold(base, P(k)) \in R}
  <1>1. 0 \in T
    <2>1. P(0) = <<>>
      OBVIOUS
    <2>2. Fold(base, P(0)) \in R
      BY <2>1, FoldEmpty
    <2> QED
      BY <2>2
  <1>2. ASSUME NEW k \in Nat, k \in T
        PROVE  k + 1 \in T
    <2> SUFFICES ASSUME k + 1 <= Len(s) PROVE Fold(base, P(k + 1)) \in R
      OBVIOUS
    <2>1. PICK j : j = k + 1
      OBVIOUS
    <2>2. Fold(base, P(k)) \in R
      BY <1>2
    <2>3. /\ P(k) \in Seq(S) /\ P(j) \in Seq(S)
          /\ Len(P(k)) = k /\ Len(P(j)) = j /\ P(j)[j] = s[j] /\ s[j] \in S
          /\ \A i \in 1 .. k : P(j)[i] = P(k)[i]
      BY <2>1
    <2> HIDE DEF P
    <2>4. Fold(base, P(j)) = Op(Fold(base, P(k)), s[j])
      BY <2>1, <2>3, FoldAppend
    <2> QED
      BY <2>1, <2>2, <2>3, <2>4
  <1>3. \A k \in Nat : k \in T
    <2> HIDE DEF T
    <2> QED
      BY <1>1, <1>2, CountUp
  <1>4. PICK n \in Nat : n = Len(s) /\ P(n) = s
    OBVIOUS
  <1>5. n \in T
    BY <1>3
  <1> HIDE DEF P
  <1> QED
    BY <1>4, <1>5
=============================================================================

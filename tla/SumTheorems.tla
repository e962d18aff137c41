---------------------------- MODULE SumTheorems ----------------------------
(***************************************************************************)
(* What SumFunctionOnSet computes over a finite set, by induction on the   *)
(* set: the terms may be added in any order, one term may be exchanged,    *)
(* and numbers that are not negative bound their sum from below.  Sums of  *)
(* int64 values that overflow are compared modulo the width.               *)
(***************************************************************************)
EXTENDS Functions, FiniteSetTheorems, TLAPS

Counting == INSTANCE FoldTheorems WITH Op <- LAMBDA m, n : m + n

-----------------------------------------------------------------------------
(* Remainders *)

\* A number and the one w below it leave the same remainder.
LEMMA ModShift ==
    ASSUME NEW x \in Int, NEW w \in Int, w > 0
    PROVE  (x - w) % w = x % w
  <1> DEFINE y == x - w
  <1>1. PICK p \in Int, q \in Int, a \in 0 .. w - 1, b \in 0 .. w - 1 :
            /\ x = w * p + a /\ a = x % w
            /\ y = w * q + b /\ b = y % w
    <2>1. x = w * (x \div w) + (x % w) /\ y = w * (y \div w) + (y % w)
      OBVIOUS
    <2>2. x \div w \in Int /\ y \div w \in Int /\ x % w \in 0 .. w - 1 /\ y % w \in 0 .. w - 1
      OBVIOUS
    <2> HIDE DEF y
    <2> QED
      BY <2>1, <2>2
  <1>2. PICK k \in Int : k = p - q - 1
    OBVIOUS
  <1>3. w * k = b - a
    BY <1>1, <1>2
  <1>4. k > 0 => w * k >= w
    BY <1>2
  <1>5. k < 0 => w * k <= -w
    BY <1>2
  <1>6. k = 0
    BY <1>3, <1>4, <1>5
  <1>7. w * k = 0
    BY <1>6
  <1> QED
    BY <1>1, <1>3, <1>7

-----------------------------------------------------------------------------
(* Induction on a finite set *)

\* P has a finite set if it has every set all of whose proper subsets it has.
LEMMA FiniteInduction ==
    ASSUME NEW S, IsFiniteSet(S), NEW P,
           \A T \in SUBSET S :
                (\A U \in SUBSET T : U # T => U \in P) => T \in P
    PROVE  S \in P
  <1> DEFINE Bad == {T \in SUBSET S : T \notin P}
             Sizes == {Cardinality(T) : T \in Bad}
  <1>1. SUFFICES ASSUME S \notin P PROVE FALSE
    OBVIOUS
  <1>2. \A T \in SUBSET S : IsFiniteSet(T) /\ Cardinality(T) \in Nat
    BY FS_Subset, FS_CardinalityType
  <1>3. Sizes \subseteq Nat /\ Sizes # {}
    BY <1>1, <1>2
  <1>4. PICK n \in Sizes : \A m \in Sizes : n <= m
    <2> HIDE DEF Sizes
    <2> QED
      BY <1>3, Counting!LeastNumber
  <1>5. PICK T \in Bad : n = Cardinality(T)
    BY <1>4
  <1>6. ASSUME NEW U \in SUBSET T, U # T PROVE U \in P
    <2>1. U \in SUBSET S /\ IsFiniteSet(T) /\ Cardinality(U) \in Nat
      BY <1>2, <1>5
    <2>2. Cardinality(U) <= Cardinality(T) /\ Cardinality(U) # Cardinality(T)
      BY <1>6, <2>1, FS_Subset
    <2>3. ~(n <= Cardinality(U))
      BY <1>2, <1>5, <2>1, <2>2
    <2>4. Cardinality(U) \notin Sizes
      BY <1>4, <2>3
    <2> QED
      BY <2>1, <2>4
  <1> QED
    BY <1>5, <1>6

-----------------------------------------------------------------------------
(* The recursive function behind the sum *)

\* The element that is added first.
Choice(T) == CHOOSE x \in T : TRUE

\* h is the table of the sums of f over the sets of Sets.
SumTable(h, f, Sets) ==
    h = [T \in Sets |-> IF T = {} THEN 0 ELSE f[Choice(T)] + h[T \ {Choice(T)}]]

\* The sets of at most n elements of S.
Small(S, n) == {T \in SUBSET S : Cardinality(T) <= n}

\* There is such a table for the subsets of a finite set, so the CHOOSE of a
\* recursive function finds one.
LEMMA SumTableExists ==
    ASSUME NEW f, NEW S, IsFiniteSet(S)
    PROVE  \E h : SumTable(h, f, SUBSET S)
  <1> DEFINE Has == {n \in Nat : \E h : SumTable(h, f, Small(S, n))}
  <1>1. \A T \in SUBSET S : /\ IsFiniteSet(T) /\ Cardinality(T) \in Nat
                            /\ Cardinality(T) <= Cardinality(S)
                            /\ (Cardinality(T) = 0 <=> T = {})
    BY FS_Subset, FS_CardinalityType, FS_EmptySet
  <1>2. ASSUME NEW T \in SUBSET S, T # {}
        PROVE  T \ {Choice(T)} \in SUBSET S
               /\ Cardinality(T \ {Choice(T)}) = Cardinality(T) - 1
    <2>1. Choice(T) \in T
      BY <1>2 DEF Choice
    <2> QED
      BY <1>1, <2>1, FS_RemoveElement
  <1>3. 0 \in Has
    <2> DEFINE h == [T \in Small(S, 0) |-> 0]
    <2>1. \A T \in Small(S, 0) : T = {}
      BY <1>1 DEF Small
    <2>2. SumTable(h, f, Small(S, 0))
      BY <2>1 DEF SumTable
    <2> QED
      BY <2>2
  <1>4. ASSUME NEW n \in Nat, n \in Has
        PROVE  n + 1 \in Has
    <2>1. PICK g : SumTable(g, f, Small(S, n))
      BY <1>4
    <2>2. PICK m \in Nat : m = n + 1
      OBVIOUS
    <2> DEFINE h == [T \in Small(S, m) |->
                        IF T \in Small(S, n) THEN g[T]
                        ELSE f[Choice(T)] + g[T \ {Choice(T)}]]
    <2>3. Small(S, n) \subseteq Small(S, m)
      BY <1>1, <2>2 DEF Small
    <2>4. ASSUME NEW T \in Small(S, m)
          PROVE  h[T] = IF T = {} THEN 0 ELSE f[Choice(T)] + h[T \ {Choice(T)}]
      <3>1. T \in SUBSET S /\ Cardinality(T) \in Nat /\ Cardinality(T) <= m
        BY <1>1 DEF Small
      <3>2. CASE T = {}
        <4>1. T \in Small(S, n) /\ h[T] = g[T]
          BY <1>1, <3>1, <3>2 DEF Small
        <4> QED
          BY <2>1, <3>2, <4>1 DEF SumTable
      <3>3. CASE T # {}
        <4> DEFINE U == T \ {Choice(T)}
        <4>1. U \in Small(S, n)
          <5>1. U \in SUBSET S /\ Cardinality(U) = Cardinality(T) - 1
            BY <1>2, <3>1, <3>3
          <5>2. Cardinality(U) <= n
            BY <2>2, <3>1, <5>1
          <5> QED
            BY <5>1, <5>2 DEF Small
        <4>2. h[U] = g[U]
          BY <2>3, <4>1
        <4>3. CASE T \in Small(S, n)
          BY <2>1, <3>3, <4>2, <4>3 DEF SumTable
        <4>4. CASE T \notin Small(S, n)
          BY <3>3, <4>2, <4>4
        <4> QED
          BY <4>3, <4>4
      <3> QED
        BY <3>2, <3>3
    <2>5. SumTable(h, f, Small(S, m))
      <3>1. h = [T \in Small(S, m) |->
                    IF T = {} THEN 0 ELSE f[Choice(T)] + h[T \ {Choice(T)}]]
        <4>1. h = [T \in Small(S, m) |-> h[T]]
          BY Zenon
        <4> HIDE DEF h
        <4> QED
          BY <2>4, <4>1, Zenon
      <3> HIDE DEF h
      <3> QED
        BY <3>1, Zenon DEF SumTable
    <2>6. m \in Has
      BY <2>5
    <2> QED
      BY <2>2, <2>6
  <1>5. Cardinality(S) \in Has
    <2>1. \A n \in Nat : n \in Has
      <3> HIDE DEF Has
      <3> QED
        BY <1>3, <1>4, Counting!CountUp
    <2>2. Cardinality(S) \in Nat
      BY FS_CardinalityType
    <2> QED
      BY <2>1, <2>2
  <1>6. Small(S, Cardinality(S)) = SUBSET S
    BY <1>1 DEF Small
  <1> QED
    BY <1>5, <1>6

\* The sum over a finite set is the entry of a table for all its subsets.
LEMMA SumIsTable ==
    ASSUME NEW f, NEW S, IsFiniteSet(S)
    PROVE  \E h : /\ SumTable(h, f, SUBSET S)
                  /\ SumFunctionOnSet(f, S) = h[S]
  <1> DEFINE h == CHOOSE g : SumTable(g, f, SUBSET S)
  <1>1. SumFunctionOnSet(f, S) = h[S]
    BY DEF SumFunctionOnSet, FoldFunctionOnSet, MapThenFoldSet, SumTable, Choice
  <1>2. SumTable(h, f, SUBSET S)
    BY SumTableExists
  <1> QED
    BY <1>1, <1>2

\* h is a table of the sums of f that has the subsets of S.
TableFor(h, f, S) == \E Sets : SUBSET S \subseteq Sets /\ SumTable(h, f, Sets)

\* Tables of functions that agree on S agree on the subsets of S.
LEMMA SumTableUnique ==
    ASSUME NEW f, NEW e, NEW S, NEW g, NEW h, IsFiniteSet(S),
           \A x \in S : f[x] = e[x], TableFor(g, f, S), TableFor(h, e, S)
    PROVE  g[S] = h[S]
  <1>0. PICK R, Q : /\ SUBSET S \subseteq R /\ SumTable(g, f, R)
                    /\ SUBSET S \subseteq Q /\ SumTable(h, e, Q)
    BY DEF TableFor
  <1> DEFINE Same == {T \in SUBSET S : g[T] = h[T]}
  <1>1. ASSUME NEW T \in SUBSET S, \A U \in SUBSET T : U # T => U \in Same
        PROVE  g[T] = h[T]
    <2>1. T \in R /\ T \in Q
      BY <1>0
    <2>2. CASE T = {}
      BY <1>0, <2>1, <2>2 DEF SumTable
    <2>3. CASE T # {}
      <3>1. Choice(T) \in T
        BY <2>3 DEF Choice
      <3>2. PICK x : x = Choice(T)
        OBVIOUS
      <3>3. g[T \ {x}] = h[T \ {x}] /\ f[x] = e[x]
        BY <1>1, <3>1, <3>2
      <3>4. g[T] = f[x] + g[T \ {x}] /\ h[T] = e[x] + h[T \ {x}]
        BY <1>0, <2>1, <2>3, <3>2 DEF SumTable
      <3> QED
        BY <3>3, <3>4
    <2> QED
      BY <2>2, <2>3
  <1>2. S \in Same
    <2>1. \A T \in SUBSET S :
            (\A U \in SUBSET T : U # T => U \in Same) => T \in Same
      BY <1>1
    <2> HIDE DEF Same
    <2> QED
      BY <2>1, FiniteInduction
  <1> QED
    BY <1>2

-----------------------------------------------------------------------------
(* What the sum is *)

\* The sum of nothing.
THEOREM SumEmpty ==
    ASSUME NEW f
    PROVE  SumFunctionOnSet(f, {}) = 0
  <1>1. PICK h : SumTable(h, f, SUBSET {}) /\ SumFunctionOnSet(f, {}) = h[{}]
    BY SumIsTable, FS_EmptySet
  <1>2. {} \in SUBSET {}
    OBVIOUS
  <1> QED
    BY <1>1, <1>2 DEF SumTable

\* Functions that agree on a set have the same sum over it.
THEOREM SumSame ==
    ASSUME NEW f, NEW e, NEW S, IsFiniteSet(S), \A x \in S : f[x] = e[x]
    PROVE  SumFunctionOnSet(f, S) = SumFunctionOnSet(e, S)
  <1>1. PICK g : SumTable(g, f, SUBSET S) /\ SumFunctionOnSet(f, S) = g[S]
    BY SumIsTable
  <1>2. PICK h : SumTable(h, e, SUBSET S) /\ SumFunctionOnSet(e, S) = h[S]
    BY SumIsTable
  <1>3. TableFor(g, f, S) /\ TableFor(h, e, S)
    BY <1>1, <1>2 DEF TableFor
  <1>4. g[S] = h[S]
    BY <1>3, SumTableUnique
  <1> QED
    BY <1>1, <1>2, <1>4

\* The sum adds one element to the sum of the others.
LEMMA SumChoice ==
    ASSUME NEW f, NEW S, IsFiniteSet(S), S # {}
    PROVE  /\ Choice(S) \in S
           /\ SumFunctionOnSet(f, S)
                = f[Choice(S)] + SumFunctionOnSet(f, S \ {Choice(S)})
  <1>1. PICK x : x = Choice(S) /\ x \in S
    BY DEF Choice
  <1>2. IsFiniteSet(S \ {x})
    BY FS_RemoveElement
  <1>3. PICK g : SumTable(g, f, SUBSET S) /\ SumFunctionOnSet(f, S) = g[S]
    BY SumIsTable
  <1>4. PICK h : /\ SumTable(h, f, SUBSET (S \ {x}))
                 /\ SumFunctionOnSet(f, S \ {x}) = h[S \ {x}]
    BY <1>2, SumIsTable
  <1>5. g[S \ {x}] = h[S \ {x}]
    <2>1. PICK U : U = S \ {x}
      OBVIOUS
    <2>2. SUBSET U \subseteq SUBSET S /\ SUBSET U \subseteq SUBSET U
      BY <2>1
    <2>3. TableFor(g, f, U) /\ TableFor(h, f, U) /\ IsFiniteSet(U)
      BY <1>2, <1>3, <1>4, <2>1, <2>2 DEF TableFor
    <2>4. g[U] = h[U]
      BY <2>3, SumTableUnique
    <2> QED
      BY <2>1, <2>4
  <1>6. g[S] = f[x] + g[S \ {x}]
    BY <1>1, <1>3 DEF SumTable
  <1> QED
    BY <1>1, <1>3, <1>4, <1>5, <1>6

\* A sum of integers is an integer.
THEOREM SumType ==
    ASSUME NEW f, NEW S, IsFiniteSet(S), \A x \in S : f[x] \in Int
    PROVE  SumFunctionOnSet(f, S) \in Int
  <1> DEFINE P == {T \in SUBSET S : SumFunctionOnSet(f, T) \in Int}
  <1>1. ASSUME NEW T \in SUBSET S, \A U \in SUBSET T : U # T => U \in P
        PROVE  SumFunctionOnSet(f, T) \in Int
    <2>1. CASE T = {}
      BY <2>1, SumEmpty
    <2>2. CASE T # {}
      <3>1. IsFiniteSet(T)
        BY FS_Subset
      <3>2. PICK x \in T : SumFunctionOnSet(f, T) = f[x] + SumFunctionOnSet(f, T \ {x})
        BY <2>2, <3>1, SumChoice
      <3>3. SumFunctionOnSet(f, T \ {x}) \in Int
        BY <1>1
      <3> QED
        BY <3>2, <3>3
    <2> QED
      BY <2>1, <2>2
  <1>2. S \in P
    <2>1. \A T \in SUBSET S : (\A U \in SUBSET T : U # T => U \in P) => T \in P
      BY <1>1
    <2> HIDE DEF P
    <2> QED
      BY <2>1, FiniteInduction
  <1> QED
    BY <1>2

\* A sum of zeros.
THEOREM SumZero ==
    ASSUME NEW f, NEW S, IsFiniteSet(S), \A x \in S : f[x] = 0
    PROVE  SumFunctionOnSet(f, S) = 0
  <1> DEFINE P == {T \in SUBSET S : SumFunctionOnSet(f, T) = 0}
  <1>1. ASSUME NEW T \in SUBSET S, \A U \in SUBSET T : U # T => U \in P
        PROVE  SumFunctionOnSet(f, T) = 0
    <2>1. CASE T = {}
      BY <2>1, SumEmpty
    <2>2. CASE T # {}
      <3>1. IsFiniteSet(T)
        BY FS_Subset
      <3>2. PICK x \in T : SumFunctionOnSet(f, T) = f[x] + SumFunctionOnSet(f, T \ {x})
        BY <2>2, <3>1, SumChoice
      <3>3. SumFunctionOnSet(f, T \ {x}) = 0
        BY <1>1
      <3> QED
        BY <3>2, <3>3
    <2> QED
      BY <2>1, <2>2
  <1>2. S \in P
    <2>1. \A T \in SUBSET S : (\A U \in SUBSET T : U # T => U \in P) => T \in P
      BY <1>1
    <2> HIDE DEF P
    <2> QED
      BY <2>1, FiniteInduction
  <1> QED
    BY <1>2

\* Any element may be added first.
THEOREM SumRemove ==
    ASSUME NEW f, NEW S, IsFiniteSet(S), \A x \in S : f[x] \in Int, NEW a \in S
    PROVE  /\ SumFunctionOnSet(f, S) = f[a] + SumFunctionOnSet(f, S \ {a})
           /\ SumFunctionOnSet(f, S \ {a}) \in Int
  <1> DEFINE Any(T) == \A x \in T : SumFunctionOnSet(f, T)
                                        = f[x] + SumFunctionOnSet(f, T \ {x})
             P == {T \in SUBSET S : Any(T)}
  <1>1. \A T \in SUBSET S : IsFiniteSet(T) /\ SumFunctionOnSet(f, T) \in Int
    BY FS_Subset, SumType
  <1>2. ASSUME NEW T \in SUBSET S, \A U \in SUBSET T : U # T => Any(U),
               NEW x \in T
        PROVE  SumFunctionOnSet(f, T) = f[x] + SumFunctionOnSet(f, T \ {x})
    <2>1. PICK y \in T : SumFunctionOnSet(f, T) = f[y] + SumFunctionOnSet(f, T \ {y})
      BY <1>1, SumChoice
    <2>2. CASE x = y
      BY <2>1, <2>2
    <2>3. CASE x # y
      <3> DEFINE V == (T \ {y}) \ {x}
      <3>1. SumFunctionOnSet(f, T \ {y}) = f[x] + SumFunctionOnSet(f, V)
        <4>1. T \ {y} # T /\ x \in T \ {y}
          BY <2>3
        <4>2. Any(T \ {y})
          BY <1>2, <4>1
        <4> QED
          BY <4>1, <4>2
      <3>2. SumFunctionOnSet(f, T \ {x}) = f[y] + SumFunctionOnSet(f, V)
        <4>1. T \ {x} # T /\ y \in T \ {x} /\ (T \ {x}) \ {y} = V
          BY <2>3
        <4>2. Any(T \ {x})
          BY <1>2, <4>1
        <4> QED
          BY <4>1, <4>2
      <3>3. SumFunctionOnSet(f, V) \in Int /\ f[x] \in Int /\ f[y] \in Int
        BY <1>1
      <3> HIDE DEF V
      <3> QED
        BY <2>1, <3>1, <3>2, <3>3
    <2> QED
      BY <2>2, <2>3
  <1>3. S \in P
    <2>1. \A T \in SUBSET S : (\A U \in SUBSET T : U # T => U \in P) => T \in P
      BY <1>2
    <2> HIDE DEF P
    <2> QED
      BY <2>1, FiniteInduction
  <1> QED
    BY <1>1, <1>3

\* Exchanging one term moves the sum by the difference.
THEOREM SumChange ==
    ASSUME NEW f, NEW e, NEW S, IsFiniteSet(S), \A x \in S : f[x] \in Int,
           NEW a \in S, e[a] \in Int, \A x \in S : x # a => e[x] = f[x]
    PROVE  SumFunctionOnSet(e, S) = SumFunctionOnSet(f, S) - f[a] + e[a]
  <1>1. \A x \in S : e[x] \in Int
    OBVIOUS
  <1>2. SumFunctionOnSet(f, S) = f[a] + SumFunctionOnSet(f, S \ {a})
        /\ SumFunctionOnSet(f, S \ {a}) \in Int
    BY SumRemove
  <1>3. SumFunctionOnSet(e, S) = e[a] + SumFunctionOnSet(e, S \ {a})
    BY <1>1, SumRemove
  <1>4. SumFunctionOnSet(e, S \ {a}) = SumFunctionOnSet(f, S \ {a})
    <2>1. IsFiniteSet(S \ {a}) /\ \A x \in S \ {a} : e[x] = f[x]
      BY FS_RemoveElement
    <2> QED
      BY <2>1, SumSame
  <1> QED
    BY <1>2, <1>3, <1>4

\* No term that is not negative exceeds the sum, and the sum is not negative.
THEOREM SumBounds ==
    ASSUME NEW f, NEW S, IsFiniteSet(S), \A x \in S : f[x] \in Nat
    PROVE  /\ SumFunctionOnSet(f, S) \in Nat
           /\ \A x \in S : f[x] <= SumFunctionOnSet(f, S)
  <1> DEFINE P == {T \in SUBSET S : SumFunctionOnSet(f, T) \in Nat}
  <1>1. ASSUME NEW T \in SUBSET S, \A U \in SUBSET T : U # T => U \in P
        PROVE  SumFunctionOnSet(f, T) \in Nat
    <2>1. CASE T = {}
      BY <2>1, SumEmpty
    <2>2. CASE T # {}
      <3>1. IsFiniteSet(T)
        BY FS_Subset
      <3>2. PICK x \in T : SumFunctionOnSet(f, T) = f[x] + SumFunctionOnSet(f, T \ {x})
        BY <2>2, <3>1, SumChoice
      <3>3. SumFunctionOnSet(f, T \ {x}) \in Nat
        BY <1>1
      <3> QED
        BY <3>2, <3>3
    <2> QED
      BY <2>1, <2>2
  <1>2. \A T \in SUBSET S : SumFunctionOnSet(f, T) \in Nat
    <2>1. ASSUME NEW R \in SUBSET S PROVE R \in P
      <3>1. \A T \in SUBSET R : (\A U \in SUBSET T : U # T => U \in P) => T \in P
        BY <1>1
      <3>2. IsFiniteSet(R)
        BY FS_Subset
      <3> HIDE DEF P
      <3> QED
        BY <3>1, <3>2, FiniteInduction
    <2> QED
      BY <2>1
  <1>3. ASSUME NEW x \in S PROVE f[x] <= SumFunctionOnSet(f, S)
    <2>1. SumFunctionOnSet(f, S) = f[x] + SumFunctionOnSet(f, S \ {x})
      BY SumRemove
    <2>2. SumFunctionOnSet(f, S \ {x}) \in Nat
      BY <1>2
    <2> QED
      BY <2>1, <2>2
  <1> QED
    BY <1>2, <1>3
=============================================================================

---------------------------- MODULE FiniteLemmas ----------------------------
(***************************************************************************)
(* Facts about finite sets, natural numbers, sums, congruences mod m and   *)
(* the contexts of a list of programs that the proofs of several           *)
(* components rest on.  What would be an induction is an appeal to a       *)
(* smallest counterexample, which well-foundedness provides.               *)
(***************************************************************************)
EXTENDS Integers, Sums, Contexts, FiniteSetTheorems, SequenceTheorems, WellFoundedInduction, TLAPS

\* A set of natural numbers has a least element.
LEMMA LeastNumber ==
  ASSUME NEW T, T \subseteq Nat, T # {}
  PROVE  \E x \in T : \A y \in T : x <= y
<1> DEFINE R == OpToRel(<, Nat)
<1>1. IsWellFoundedOn(R, Nat)
  BY NatLessThanWellFounded
<1>2. ASSUME NEW x \in Nat, NEW y \in Nat, x < y PROVE <<x, y>> \in R
  BY <1>2, Zenon DEF OpToRel
<1> HIDE DEF R
<1>3. PICK x \in T : \A y \in T : ~(<<y, x>> \in R)
  BY <1>1, WFMin
<1>4. ASSUME NEW y \in T PROVE x <= y
  <2>1. x \in Nat /\ y \in Nat
    OBVIOUS
  <2>2. ~(y < x)
    BY <1>2, <1>3, <2>1
  <2> QED  BY <2>1, <2>2
<1> QED  BY <1>4

\* The greatest element of a set of numbers up to n.
LEMMA GreatestNumber ==
  ASSUME NEW n \in Nat, NEW T \in SUBSET (1..n), T # {}
  PROVE  \E x \in T : \A y \in T : y <= x
<1> DEFINE D == {d \in Nat : n - d \in T}
<1>1. D \subseteq Nat /\ D # {}
  <2>1. PICK x \in T : TRUE
    OBVIOUS
  <2>2. x \in Int /\ n - x \in Nat /\ n - (n - x) = x
    OBVIOUS
  <2> QED  BY <2>2
<1>2. PICK d \in D : \A e \in D : d <= e
  <2> HIDE DEF D
  <2> QED  BY <1>1, LeastNumber
<1>3. ASSUME NEW y \in T PROVE y <= n - d
  <2>1. y \in Int /\ n - y \in Nat /\ n - (n - y) = y
    OBVIOUS
  <2>2. d <= n - y
    BY <1>2, <2>1
  <2> QED  BY <2>1, <2>2
<1> QED  BY <1>2, <1>3

\* A family of finite sets has a smallest member: none of the others is part
\* of it.
LEMMA SmallestSet ==
  ASSUME NEW S, IsFiniteSet(S), NEW Family, Family \subseteq SUBSET S, Family # {}
  PROVE  \E T \in Family : \A U \in Family : U \subseteq T => U = T
<1> DEFINE R == StrictSubsetOrdering(S)
           D == FiniteSubsetsOf(S)
<1>1. IsWellFoundedOn(R, D)
  BY FS_StrictSubsetOrderingWellFounded
<1>2. D = SUBSET S
  BY FS_FiniteSubsetsOfFinite
<1>3. ASSUME NEW U \in SUBSET S, NEW T \in SUBSET S, U \subseteq T, U # T
      PROVE  <<U, T>> \in R
  BY <1>3 DEF StrictSubsetOrdering
<1> HIDE DEF R, D
<1>4. PICK T \in Family : \A U \in Family : ~(<<U, T>> \in R)
  BY <1>1, <1>2, WFMin
<1> QED  BY <1>3, <1>4

\* R orders the elements of S one after the other.
Orders(R, S) ==
  /\ \A x, y \in S : x # y => <<x, y>> \in R \/ <<y, x>> \in R
  /\ \A x, y, z \in S : <<x, y>> \in R /\ <<y, z>> \in R => <<x, z>> \in R

\* A finite set that is ordered has a first element.
LEMMA FirstElement ==
  ASSUME NEW S, IsFiniteSet(S), S # {}, NEW R, Orders(R, S)
  PROVE  \E x \in S : \A y \in S \ {x} : <<x, y>> \in R
<1> DEFINE HasFirst(T) == \E x \in T : \A y \in T \ {x} : <<x, y>> \in R
           Bad == {T \in SUBSET S : T # {} /\ ~HasFirst(T)}
<1> SUFFICES ASSUME S \in Bad PROVE FALSE
  OBVIOUS
<1>0. Bad \subseteq SUBSET S /\ Bad # {}
  OBVIOUS
<1>1. PICK T \in Bad : \A U \in Bad : U \subseteq T => U = T
  <2> HIDE DEF Bad
  <2> QED  BY <1>0, SmallestSet
<1>2. PICK x \in T : TRUE
  OBVIOUS
<1>3. CASE T \ {x} = {}
  BY <1>2, <1>3
<1>4. CASE T \ {x} # {}
  <2>1. HasFirst(T \ {x})
    <3>1. T \ {x} # T /\ T \ {x} \subseteq T /\ T \ {x} \in SUBSET S
      BY <1>2
    <3>2. T \ {x} \notin Bad
      BY <1>1, <3>1
    <3> QED  BY <1>4, <3>1, <3>2
  <2>2. PICK m \in T \ {x} : \A y \in (T \ {x}) \ {m} : <<m, y>> \in R
    BY <2>1
  <2>3. CASE <<m, x>> \in R
    BY <2>2, <2>3
  <2>4. CASE <<x, m>> \in R
    <3>1. ASSUME NEW y \in T \ {x} PROVE <<x, y>> \in R
      BY <1>2, <2>2, <2>4 DEF Orders
    <3> QED  BY <1>2, <3>1
  <2> QED  BY <1>2, <2>2, <2>3, <2>4 DEF Orders
<1> QED  BY <1>3, <1>4

\* A finite set of numbers has a least element.
LEMMA LeastInteger ==
  ASSUME NEW S, IsFiniteSet(S), S # {}, S \subseteq Int
  PROVE  \E x \in S : \A y \in S : x <= y
<1> DEFINE R == {p \in Int \X Int : p[1] <= p[2]}
<1>1. \A x, y \in Int : <<x, y>> \in R <=> x <= y
  OBVIOUS
<1>2. \A x, y \in S : x # y => <<x, y>> \in R \/ <<y, x>> \in R
  BY <1>1
<1>3. ASSUME NEW x \in S, NEW y \in S, NEW z \in S, <<x, y>> \in R, <<y, z>> \in R
      PROVE  <<x, z>> \in R
  BY <1>1, <1>3
<1>4. Orders(R, S)
  BY <1>2, <1>3 DEF Orders
<1> HIDE DEF R
<1>5. PICK x \in S : \A y \in S \ {x} : <<x, y>> \in R
  BY <1>4, FirstElement
<1>6. ASSUME NEW y \in S PROVE x <= y
  <2>1. x \in Int /\ y \in Int
    OBVIOUS
  <2>2. x # y => <<x, y>> \in R
    BY <1>5
  <2> QED  BY <1>1, <2>1, <2>2
<1> QED  BY <1>6
------------------------------------------------------------------------------
\* A sequence of numbers has partial sums.
LEMMA SumsExist ==
  ASSUME NEW N \in Nat, NEW x, \A n \in 1..N : x[n] \in Int
  PROVE  \E g \in [0..N -> Int] : g[0] = 0 /\ \A n \in 1..N : g[n] = g[n - 1] + x[n]
<1> DEFINE Is(g, m) == g[0] = 0 /\ \A n \in 1..m : g[n] = g[n - 1] + x[n]
           Bad == {m \in 0..N : ~\E g \in [0..m -> Int] : Is(g, m)}
<1> SUFFICES ASSUME N \in Bad PROVE FALSE
  OBVIOUS
<1>1. PICK m \in Bad : \A n \in Bad : m <= n
  <2>1. Bad \subseteq Nat
    OBVIOUS
  <2>2. Bad # {}
    OBVIOUS
  <2> HIDE DEF Bad
  <2> QED  BY <2>1, <2>2, LeastNumber
<1>2. m \in 0..N /\ ~\E g \in [0..m -> Int] : Is(g, m)
  BY <1>1
<1>3. CASE m = 0
  <2> DEFINE g == [n \in 0..0 |-> 0]
  <2>1. g \in [0..m -> Int] /\ g[0] = 0 /\ 1..m = {}
    BY <1>3
  <2> QED  BY <1>2, <2>1
<1>4. CASE m # 0
  <2>1. m - 1 \in 0..N /\ m - 1 \notin Bad
    <3>1. m - 1 \in 0..N /\ ~(m <= m - 1)
      BY <1>2, <1>4
    <3> HIDE DEF Bad
    <3> QED  BY <1>1, <3>1
  <2>2. PICK h \in [0..(m - 1) -> Int] : Is(h, m - 1)
    BY <2>1
  <2> DEFINE g == [n \in 0..m |-> IF n = m THEN h[m - 1] + x[m] ELSE h[n]]
  <2>3. ASSUME NEW n \in 0..m PROVE n = m \/ n \in 0..(m - 1)
    BY <1>2
  <2>4. h[m - 1] + x[m] \in Int
    <3>1. m - 1 \in 0..(m - 1) /\ m \in 1..N
      BY <1>2, <1>4
    <3> QED  BY <3>1
  <2>5. g \in [0..m -> Int]
    BY <2>3, <2>4
  <2>6. g[0] = 0
    BY <1>2, <1>4, <2>2
  <2>7. ASSUME NEW n \in 1..m PROVE g[n] = g[n - 1] + x[n]
    <3>1. g[n - 1] = h[n - 1]
      BY <1>2, <1>4
    <3>2. CASE n = m
      <4>1. g[m] = h[m - 1] + x[m]
        BY <1>2, <1>4
      <4> QED  BY <3>1, <3>2, <4>1
    <3>3. CASE n # m
      <4>1. n \in 1..(m - 1) /\ g[n] = h[n]
        BY <1>2, <3>3
      <4> QED  BY <2>2, <3>1, <4>1
    <3> QED  BY <3>2, <3>3
  <2> HIDE DEF g
  <2> QED  BY <1>2, <2>5, <2>6, <2>7
<1> QED  BY <1>3, <1>4

\* g are the sums of the first numbers of x.
Partial(g, x) ==
  /\ g \in [0..Len(x) -> Int]
  /\ g[0] = 0
  /\ \A n \in 1..Len(x) : g[n] = g[n - 1] + x[n]

LEMMA PartialSums ==
  ASSUME NEW x \in Seq(Int)
  PROVE  /\ \E g : Partial(g, x)
         /\ \A g : Partial(g, x) => SumSeq(x) = g[Len(x)]
<1> DEFINE N == Len(x)
<1>1. N \in Nat /\ \A n \in 1..N : x[n] \in Int
  BY ElementOfSeq, LenProperties
<1>2. PICK g : Partial(g, x)
  <2>1. PICK g \in [0..N -> Int] : g[0] = 0 /\ \A n \in 1..N : g[n] = g[n - 1] + x[n]
    <3> HIDE DEF N
    <3> QED  BY <1>1, SumsExist
  <2> QED  BY <2>1 DEF Partial
<1> DEFINE Is(f) == f = [n \in 0..N |-> IF n = 0 THEN 0 ELSE f[n - 1] + x[n]]
           sum == CHOOSE f : Is(f)
<1>3. SumSeq(x) = sum[N]
  BY DEF SumSeq
<1>4. \A f : Partial(f, x) => Is(f)
  <2> SUFFICES ASSUME NEW f, Partial(f, x) PROVE Is(f)
    OBVIOUS
  <2>1. f = [n \in 0..N |-> f[n]]
    BY DEF Partial
  <2>2. ASSUME NEW n \in 0..N PROVE f[n] = IF n = 0 THEN 0 ELSE f[n - 1] + x[n]
    BY <1>1 DEF Partial
  <2> HIDE DEF N
  <2> QED  BY <2>1, <2>2
<1>5. Is(sum)
  <2>1. Is(g)
    BY <1>2, <1>4
  <2> HIDE DEF Is
  <2> QED  BY <2>1
<1>6. \A n \in 0..N : sum[n] = IF n = 0 THEN 0 ELSE sum[n - 1] + x[n]
  <2> HIDE DEF sum
  <2> QED  BY <1>5, Zenon
<1> HIDE DEF sum, Is
<1>7. ASSUME NEW f, Partial(f, x) PROVE sum[N] = f[N]
  <2> DEFINE Bad == {n \in 0..N : sum[n] # f[n]}
  <2>1. CASE Bad = {}
    BY <1>1, <2>1
  <2>2. CASE Bad # {}
    <3>1. Bad \subseteq Nat
      OBVIOUS
    <3>2. PICK n \in Bad : \A k \in Bad : n <= k
      <4> HIDE DEF Bad
      <4> QED  BY <2>2, <3>1, LeastNumber
    <3>3. n # 0 /\ n \in 1..N
      BY <1>1, <1>6, <1>7, <3>2 DEF Partial
    <3>4. n - 1 \in 0..N /\ ~(n <= n - 1)
      BY <1>1, <3>3
    <3>5. sum[n - 1] = f[n - 1]
      BY <3>2, <3>4
    <3> QED  BY <1>6, <1>7, <3>2, <3>3, <3>5 DEF Partial
  <2> QED  BY <2>1, <2>2
<1> QED  BY <1>2, <1>3, <1>7

LEMMA SumType ==
  ASSUME NEW x \in Seq(Int)
  PROVE  SumSeq(x) \in Int
<1>1. PICK g : Partial(g, x)
  BY PartialSums
<1>2. Len(x) \in Nat
  OBVIOUS
<1> QED  BY <1>1, <1>2, PartialSums DEF Partial

LEMMA SumEmpty == SumSeq(<<>>) = 0
<1>1. <<>> \in Seq(Int) /\ Len(<<>>) = 0
  OBVIOUS
<1>2. PICK g : Partial(g, <<>>)
  BY <1>1, PartialSums
<1> QED  BY <1>1, <1>2, PartialSums DEF Partial

LEMMA SumAppend ==
  ASSUME NEW x \in Seq(Int), NEW v \in Int
  PROVE  SumSeq(Append(x, v)) = SumSeq(x) + v
<1> DEFINE y == Append(x, v)
           N == Len(x)
<1>1. /\ y \in Seq(Int) /\ Len(y) = N + 1 /\ N \in Nat
      /\ (\A n \in 1..N : y[n] = x[n]) /\ y[N + 1] = v
  BY AppendProperties
<1>2. PICK g : Partial(g, x)
  BY PartialSums
<1>3. SumSeq(x) = g[N]
  BY <1>2, PartialSums
<1> HIDE DEF y, N
<1> DEFINE h == [n \in 0..(N + 1) |-> IF n = N + 1 THEN g[N] + v ELSE g[n]]
<1>4. g \in [0..N -> Int] /\ g[0] = 0 /\ \A n \in 1..N : g[n] = g[n - 1] + x[n]
  BY <1>2 DEF Partial, N
<1>5. h \in [0..(N + 1) -> Int] /\ h[0] = 0 /\ h[N + 1] = g[N] + v
  BY <1>1, <1>4
<1>6. ASSUME NEW n \in 1..(N + 1) PROVE h[n] = h[n - 1] + y[n]
  <2>1. h[n - 1] = g[n - 1]
    BY <1>1
  <2>2. CASE n = N + 1
    BY <1>1, <1>5, <2>1, <2>2
  <2>3. CASE n # N + 1
    <3>1. n \in 1..N /\ h[n] = g[n]
      BY <1>1, <2>3
    <3> QED  BY <1>1, <1>4, <2>1, <3>1
  <2> QED  BY <2>2, <2>3
<1> HIDE DEF h
<1>7. Partial(h, y)
  BY <1>1, <1>5, <1>6 DEF Partial
<1>8. SumSeq(y) = h[N + 1]
  BY <1>1, <1>7, PartialSums
<1> QED  BY <1>3, <1>5, <1>8 DEF y

\* y is x with one number more.
LEMMA SumLonger ==
  ASSUME NEW x \in Seq(Int), NEW y \in Seq(Int), Len(y) = Len(x) + 1,
         \A n \in 1..Len(x) : y[n] = x[n]
  PROVE  SumSeq(y) = SumSeq(x) + y[Len(y)]
<1> DEFINE v == y[Len(y)]
           z == Append(x, v)
<1>1. Len(x) \in Nat /\ v \in Int
  BY ElementOfSeq, LenProperties
<1>2. /\ z \in Seq(Int) /\ Len(z) = Len(x) + 1
      /\ (\A n \in 1..Len(x) : z[n] = x[n]) /\ z[Len(x) + 1] = v
  BY <1>1, AppendProperties
<1>3. SumSeq(z) = SumSeq(x) + v
  BY <1>1, SumAppend
<1> HIDE DEF z
<1>4. ASSUME NEW n \in 1..Len(y) PROVE y[n] = z[n]
  <2>1. CASE n = Len(x) + 1
    BY <1>2, <2>1
  <2>2. CASE n # Len(x) + 1
    <3>1. n \in 1..Len(x)
      BY <1>1, <2>2
    <3> QED  BY <1>2, <3>1
  <2> QED  BY <2>1, <2>2
<1>5. y = z
  BY <1>2, <1>4, SeqEqual
<1> QED  BY <1>3, <1>5

\* y without its k-th element.
Without(y, k) == [j \in 1..(Len(y) - 1) |-> IF j < k THEN y[j] ELSE y[j + 1]]

LEMMA SumWithout ==
  ASSUME NEW y \in Seq(Int), NEW k \in 1..Len(y)
  PROVE  /\ Without(y, k) \in Seq(Int)
         /\ Len(Without(y, k)) = Len(y) - 1
         /\ SumSeq(y) = SumSeq(Without(y, k)) + y[k]
<1> DEFINE n == Len(y)
           z == Without(y, k)
<1>1. n \in Nat \ {0} /\ \A j \in 1..n : y[j] \in Int
  BY ElementOfSeq, LenProperties
<1>2. z \in Seq(Int) /\ Len(z) = n - 1 /\ \A j \in 1..(n - 1) : z[j] = IF j < k THEN y[j] ELSE y[j + 1]
  <2>1. n - 1 \in Nat
    BY <1>1
  <2>2. ASSUME NEW j \in 1..(n - 1) PROVE (IF j < k THEN y[j] ELSE y[j + 1]) \in Int
    BY <1>1
  <2> HIDE DEF n
  <2>3. z = [j \in 1..(n - 1) |-> IF j < k THEN y[j] ELSE y[j + 1]]
    BY DEF Without, n
  <2> HIDE DEF z
  <2>4. z \in [1..(n - 1) -> Int]
    BY <2>2, <2>3
  <2>5. z \in Seq(Int) /\ Len(z) = n - 1
    BY <2>1, <2>4
  <2> QED  BY <2>3, <2>5
<1>3. PICK g : Partial(g, y)
  BY PartialSums
<1>4. SumSeq(y) = g[n]
  BY <1>3, PartialSums
<1>5. g \in [0..n -> Int] /\ g[0] = 0 /\ \A j \in 1..n : g[j] = g[j - 1] + y[j]
  BY <1>3 DEF Partial
<1> HIDE DEF n, z
<1>0. k \in 1..n
  BY DEF n
<1> DEFINE h == [j \in 0..(n - 1) |-> IF j < k THEN g[j] ELSE g[j + 1] - y[k]]
<1>6. h[0] = 0
  BY <1>0, <1>1, <1>5
<1>7. ASSUME NEW j \in 0..(n - 1) PROVE h[j] \in Int
  <2>1. j \in 0..n /\ j + 1 \in 0..n
    BY <1>1
  <2>2. g[j] \in Int /\ g[j + 1] \in Int /\ y[k] \in Int
    BY <1>0, <1>1, <1>5, <2>1
  <2>3. g[j] \in Int /\ g[j + 1] - y[k] \in Int
    BY <2>2
  <2>4. h[j] = g[j] \/ h[j] = g[j + 1] - y[k]
    OBVIOUS
  <2> HIDE DEF h
  <2> QED  BY <2>3, <2>4
<1>8. ASSUME NEW j \in 1..(n - 1) PROVE h[j] = h[j - 1] + z[j]
  <2>0. h[j] = (IF j < k THEN g[j] ELSE g[j + 1] - y[k]) /\ h[j - 1] = IF j - 1 < k THEN g[j - 1] ELSE g[j] - y[k]
    BY <1>1
  <2> HIDE DEF h
  <2>1. j \in 1..n /\ j + 1 \in 1..n /\ j - 1 \in 0..n
    BY <1>1
  <2>2. g[j] = g[j - 1] + y[j] /\ g[j + 1] = g[j] + y[j + 1]
    BY <1>5, <2>1
  <2>3. g[j - 1] \in Int /\ g[j] \in Int /\ g[j + 1] \in Int /\ y[j] \in Int /\ y[j + 1] \in Int /\ y[k] \in Int
    BY <1>0, <1>1, <1>5, <2>1, SMTT(30)
  <2>7. z[j] = IF j < k THEN y[j] ELSE y[j + 1]
    BY <1>2
  <2>8. j \in Int /\ k \in Int
    BY <1>0, <2>1
  <2>9. g[j + 1] - y[j] = g[j - 1] + y[j + 1]
    <3>1. g[j + 1] = (g[j - 1] + y[j]) + y[j + 1]
      BY <2>2
    <3>2. (g[j - 1] + y[j]) + y[j + 1] = (g[j - 1] + y[j + 1]) + y[j]
      BY <2>3, SMTT(30)
    <3>3. g[j - 1] + y[j + 1] \in Int
      BY <2>3
    <3> QED  BY <2>3, <3>1, <3>2, <3>3
  <2>4. CASE j < k
    <3>1. h[j] = g[j] /\ h[j - 1] = g[j - 1] /\ z[j] = y[j]
      BY <2>0, <2>4, <2>7, <2>8
    <3> QED  BY <2>2, <2>3, <3>1
  <2>5. CASE j = k
    <3>1. h[j] = g[j + 1] - y[j] /\ h[j - 1] = g[j - 1] /\ z[j] = y[j + 1]
      BY <2>0, <2>5, <2>7, <2>8
    <3> QED  BY <2>9, <3>1
  <2>6. CASE j > k
    <3>1. h[j] = g[j + 1] - y[k] /\ h[j - 1] = g[j] - y[k] /\ z[j] = y[j + 1]
      BY <2>0, <2>6, <2>7, <2>8
    <3> QED  BY <2>2, <2>3, <3>1, SMTT(30)
  <2> QED  BY <2>8, <2>4, <2>5, <2>6
<1>9. h[n - 1] = g[n] - y[k]
  <2>1. CASE k = n
    BY <1>0, <1>1, <1>5, <2>1
  <2>2. CASE k # n
    BY <1>0, <1>1, <1>5, <2>2
  <2> QED  BY <2>1, <2>2
<1>10. h \in [0..(n - 1) -> Int]
  BY <1>7
<1> HIDE DEF h
<1>11. Partial(h, z)
  BY <1>2, <1>6, <1>8, <1>10 DEF Partial
<1>12. SumSeq(z) = g[n] - y[k]
  BY <1>2, <1>9, <1>11, PartialSums
<1>13. g[n] \in Int /\ y[k] \in Int
  BY <1>0, <1>1, <1>5
<1> QED  BY <1>2, <1>4, <1>12, <1>13 DEF n, z

Past(j, k) == IF j < k THEN j ELSE j + 1

\* The numbers up to n but for k, in order.
LEMMA PastSkips ==
  ASSUME NEW n \in Nat, NEW k \in 1..n
  PROVE  /\ \A j \in 1..(n - 1) : Past(j, k) \in 1..n /\ Past(j, k) # k
         /\ \A j, l \in 1..(n - 1) : Past(j, k) = Past(l, k) => j = l
         /\ \A i \in 1..n : i # k => \E j \in 1..(n - 1) : Past(j, k) = i
<1>1. ASSUME NEW j \in 1..(n - 1) PROVE Past(j, k) \in 1..n /\ Past(j, k) # k
  <2>1. CASE j < k
    BY <2>1 DEF Past
  <2>2. CASE ~(j < k)
    BY <2>2 DEF Past
  <2> QED  BY <2>1, <2>2
<1>2. ASSUME NEW j \in 1..(n - 1), NEW l \in 1..(n - 1), Past(j, k) = Past(l, k)
      PROVE  j = l
  BY <1>2 DEF Past
<1>3. ASSUME NEW i \in 1..n, i # k PROVE \E j \in 1..(n - 1) : Past(j, k) = i
  <2>1. CASE i < k
    <3>1. i \in 1..(n - 1) /\ Past(i, k) = i
      BY <2>1 DEF Past
    <3> QED  BY <3>1
  <2>2. CASE ~(i < k)
    <3>1. i - 1 \in 1..(n - 1) /\ Past(i - 1, k) = i
      BY <1>3, <2>2 DEF Past
    <3> QED  BY <3>1
  <2> QED  BY <2>1, <2>2
<1> QED  BY <1>1, <1>2, <1>3

\* y are the elements of x in the order f gives.
Arranges(f, x, y) ==
  /\ Len(x) = Len(y)
  /\ f \in [1..Len(x) -> 1..Len(x)]
  /\ \A j, k \in 1..Len(x) : f[j] = f[k] => j = k
  /\ \A l \in 1..Len(x) : \E j \in 1..Len(x) : f[j] = l
  /\ \A j \in 1..Len(x) : y[j] = x[f[j]]

\* A sum does not depend on the order.
LEMMA SumArranged ==
  ASSUME NEW x0 \in Seq(Int), NEW y0 \in Seq(Int), NEW f0, Arranges(f0, x0, y0)
  PROVE  SumSeq(x0) = SumSeq(y0)
<1> DEFINE Fails(x, y) == (\E f : Arranges(f, x, y)) /\ SumSeq(x) # SumSeq(y)
           Bad == {n \in Nat : \E x, y \in Seq(Int) : Len(x) = n /\ Fails(x, y)}
<1> SUFFICES ASSUME Bad # {} PROVE FALSE
  OBVIOUS
<1>1. PICK n \in Bad : \A k \in Bad : n <= k
  <2>1. Bad \subseteq Nat
    OBVIOUS
  <2> HIDE DEF Bad
  <2> QED  BY <2>1, LeastNumber
<1>2. PICK x \in Seq(Int), y \in Seq(Int) : Len(x) = n /\ Fails(x, y)
  BY <1>1
<1>3. PICK f : Arranges(f, x, y)
  BY <1>2
<1>4. /\ n \in Nat /\ Len(x) = n /\ Len(y) = n /\ f \in [1..n -> 1..n]
      /\ \A j, k \in 1..n : f[j] = f[k] => j = k
      /\ \A l \in 1..n : \E j \in 1..n : f[j] = l
      /\ \A j \in 1..n : y[j] = x[f[j]]
  BY <1>1, <1>2, <1>3 DEF Arranges
<1>5. CASE n = 0
  <2>1. x = <<>> /\ y = <<>>
    BY <1>4, <1>5
  <2> QED  BY <1>2, <2>1
<1>6. CASE n # 0
  <2>1. PICK k \in 1..n : f[k] = n
    BY <1>4, <1>6
  <2> DEFINE u == Without(x, n)
             v == Without(y, k)
             g == [j \in 1..(n - 1) |-> f[Past(j, k)]]
  <2>2. /\ u \in Seq(Int) /\ Len(u) = n - 1 /\ SumSeq(x) = SumSeq(u) + x[n]
        /\ v \in Seq(Int) /\ Len(v) = n - 1 /\ SumSeq(y) = SumSeq(v) + y[k]
    <3>1. n \in 1..Len(x) /\ k \in 1..Len(y)
      BY <1>4, <1>6
    <3>2. SumSeq(x) = SumSeq(u) + x[n] /\ u \in Seq(Int) /\ Len(u) = n - 1
      BY <1>4, <3>1, SumWithout
    <3>3. SumSeq(y) = SumSeq(v) + y[k] /\ v \in Seq(Int) /\ Len(v) = n - 1
      BY <1>4, <3>1, SumWithout
    <3> QED  BY <3>2, <3>3
  <2>3. y[k] = x[n] /\ x[n] \in Int
    BY <1>4, <1>6, <2>1, ElementOfSeq
  <2>4. \A j \in 1..(n - 1) : Past(j, k) \in 1..n /\ Past(j, k) # k
    BY <1>4, PastSkips
  <2>5. \A j \in 1..(n - 1) : u[j] = x[j] /\ v[j] = y[Past(j, k)]
    <3>1. u = [j \in 1..(n - 1) |-> IF j < n THEN x[j] ELSE x[j + 1]]
      BY <1>4 DEF Without
    <3>2. v = [j \in 1..(n - 1) |-> IF j < k THEN y[j] ELSE y[j + 1]]
      BY <1>4 DEF Without
    <3>3. \A j \in 1..(n - 1) : j < n
      BY <1>4
    <3> HIDE DEF u, v
    <3> QED  BY <3>1, <3>2, <3>3 DEF Past
  <2> HIDE DEF u, v
  <2>6. ASSUME NEW j \in 1..(n - 1) PROVE f[Past(j, k)] \in 1..(n - 1) /\ f[Past(j, k)] # n
    <3>1. PICK q : q = Past(j, k)
      OBVIOUS
    <3>2. q \in 1..n /\ q # k
      BY <2>4, <3>1
    <3>3. f[q] # n
      BY <1>4, <2>1, <3>2
    <3>4. f[q] \in 1..n
      BY <1>4, <3>2
    <3>5. \A i \in 1..n : i # n => i \in 1..(n - 1)
      BY <1>4
    <3>6. f[q] \in 1..(n - 1)
      BY <3>3, <3>4, <3>5
    <3> QED  BY <3>1, <3>3, <3>6
  <2>7. g \in [1..(n - 1) -> 1..(n - 1)]
    BY <2>6
  <2>8. ASSUME NEW j \in 1..(n - 1), NEW l \in 1..(n - 1), g[j] = g[l] PROVE j = l
    <3>1. Past(j, k) = Past(l, k)
      BY <1>4, <2>4, <2>8
    <3> QED  BY <1>4, <3>1, PastSkips, SMTT(30)
  <2>9. ASSUME NEW l \in 1..(n - 1) PROVE \E j \in 1..(n - 1) : g[j] = l
    <3>1. PICK i \in 1..n : f[i] = l
      BY <1>4
    <3>2. i # k
      BY <1>4, <2>1, <3>1
    <3>3. PICK j \in 1..(n - 1) : Past(j, k) = i
      BY <1>4, <3>2, PastSkips
    <3> QED  BY <3>1, <3>3
  <2>10. ASSUME NEW j \in 1..(n - 1) PROVE v[j] = u[g[j]]
    <3>1. v[j] = x[f[Past(j, k)]]
      BY <1>4, <2>4, <2>5
    <3>2. u[f[Past(j, k)]] = x[f[Past(j, k)]]
      BY <2>5, <2>6
    <3> QED  BY <3>1, <3>2
  <2> HIDE DEF g
  <2>11. Arranges(g, u, v)
    BY <2>2, <2>7, <2>8, <2>9, <2>10 DEF Arranges
  <2>12. n - 1 \in Nat /\ ~(n <= n - 1)
    BY <1>4, <1>6
  <2>13. SumSeq(u) = SumSeq(v)
    BY <1>1, <2>2, <2>11, <2>12
  <2>14. SumSeq(x) = SumSeq(y)
    BY <2>2, <2>3, <2>13
  <2> QED  BY <1>2, <2>14
<1> QED  BY <1>5, <1>6

------------------------------------------------------------------------------
(* Contexts, of a reader who stands at match j of program k.               *)

SeenBefore(found, k, j) ==
  (UNION {ToSet(found[i]) : i \in 1..(k - 1)}) \cup {found[k][i] : i \in 1..(j - 1)}

NewAt(found, k, j) ==
  \A u \in SeenBefore(found, k, j) : found[k][j].left # u.left /\ found[k][j].right # u.right

\* The program at hand is one already.
HasContext(found, k, j) == \E i \in 1..(j - 1) : NewAt(found, k, i)

CountedTo(found, k, j) ==
  Cardinality({i \in ContextsOf(found) : i < k}) + IF HasContext(found, k, j) THEN 1 ELSE 0

\* The tables hold the matches before, and nothing else.
Holds(t, found, k, j) ==
  /\ t.left = {u.left : u \in SeenBefore(found, k, j)}
  /\ t.right = {u.right : u \in SeenBefore(found, k, j)}

AreLists(found) ==
  /\ Len(found) \in Nat /\ DOMAIN found = 1..Len(found)
  /\ \A k \in 1..Len(found) : Len(found[k]) \in Nat /\ DOMAIN found[k] = 1..Len(found[k])

LEMMA ContextsAre ==
  ASSUME NEW found
  PROVE  ContextsOf(found) = {k \in DOMAIN found : \E j \in DOMAIN found[k] : NewAt(found, k, j)}
BY DEF ContextsOf, NewAt, SeenBefore

LEMMA ContextsFinite ==
  ASSUME NEW found, AreLists(found), NEW k \in Int
  PROVE  LET S == {i \in ContextsOf(found) : i < k}
         IN  IsFiniteSet(S) /\ Cardinality(S) \in Nat
<1> DEFINE S == {i \in ContextsOf(found) : i < k}
<1>1. S \in SUBSET (1..Len(found))
  BY ContextsAre DEF AreLists
<1>2. IsFiniteSet(1..Len(found))
  BY FS_Interval DEF AreLists
<1> HIDE DEF S
<1>3. IsFiniteSet(S)
  BY <1>1, <1>2, FS_Subset
<1>4. Cardinality(S) \in Nat
  BY <1>3, FS_CardinalityType
<1> QED  BY <1>3, <1>4 DEF S

LEMMA CountedIsNat ==
  ASSUME NEW found, AreLists(found), NEW k \in Int, NEW j
  PROVE  CountedTo(found, k, j) \in Nat
BY ContextsFinite DEF CountedTo

\* SeenBefore the first match nothing has been seen.
LEMMA NothingBefore ==
  ASSUME NEW found, AreLists(found)
  PROVE  Holds(NoHashes, found, 1, 1) /\ CountedTo(found, 1, 1) = 0
<1>1. 1..(1 - 1) = {}
  OBVIOUS
<1>2. SeenBefore(found, 1, 1) = {} /\ ~HasContext(found, 1, 1)
  BY <1>1 DEF SeenBefore, HasContext
<1>3. {i \in ContextsOf(found) : i < 1} = {}
  BY ContextsAre DEF AreLists
<1> QED  BY <1>2, <1>3, FS_EmptySet DEF Holds, NoHashes, CountedTo

\* A match is examined.
LEMMA MatchSeen ==
  ASSUME NEW found, AreLists(found), NEW k \in 1..Len(found), NEW j \in 1..Len(found[k]),
         NEW t, Holds(t, found, k, j)
  PROVE  /\ IsNew(found[k][j], t) <=> NewAt(found, k, j)
         /\ Holds(Enter(found[k][j], t), found, k, j + 1)
         /\ HasContext(found, k, j + 1) <=> HasContext(found, k, j) \/ NewAt(found, k, j)
         /\ CountedTo(found, k, j + 1) =
              CountedTo(found, k, j) + IF NewAt(found, k, j) /\ ~HasContext(found, k, j) THEN 1 ELSE 0
<1> DEFINE match == found[k][j]
<1>1. IsNew(match, t) <=> NewAt(found, k, j)
  BY DEF IsNew, NewAt, Holds
<1>2. j + 1 - 1 = j /\ 1..j = 1..(j - 1) \cup {j}
  BY DEF AreLists
<1>3. SeenBefore(found, k, j + 1) = SeenBefore(found, k, j) \cup {match}
  <2>1. {found[k][i] : i \in 1..j} = {found[k][i] : i \in 1..(j - 1)} \cup {match}
    BY <1>2
  <2> QED  BY <1>2, <2>1 DEF SeenBefore
<1>4. Holds(Enter(match, t), found, k, j + 1)
  <2> DEFINE B == SeenBefore(found, k, j)
             C == SeenBefore(found, k, j + 1)
  <2>1. C = B \cup {match}
    BY <1>3
  <2> HIDE DEF B, C, match
  <2>2. {u.left : u \in C} = {u.left : u \in B} \cup {match.left}
    BY <2>1
  <2>3. {u.right : u \in C} = {u.right : u \in B} \cup {match.right}
    BY <2>1
  <2>4. t.left = {u.left : u \in B} /\ t.right = {u.right : u \in B}
    BY DEF Holds, B
  <2> QED  BY <2>2, <2>3, <2>4 DEF Holds, Enter, C
<1>5. HasContext(found, k, j + 1) <=> HasContext(found, k, j) \/ NewAt(found, k, j)
  BY <1>2 DEF HasContext
<1>6. Cardinality({i \in ContextsOf(found) : i < k}) \in Nat
  <2>1. k \in Int
    BY DEF AreLists
  <2> QED  BY <2>1, ContextsFinite
<1>7. CountedTo(found, k, j + 1) =
        CountedTo(found, k, j) + IF NewAt(found, k, j) /\ ~HasContext(found, k, j) THEN 1 ELSE 0
  BY <1>5, <1>6 DEF CountedTo
<1> QED  BY <1>1, <1>4, <1>5, <1>7

\* The program is over.
LEMMA ProgramSeen ==
  ASSUME NEW found, AreLists(found), NEW k \in 1..Len(found)
  PROVE  LET e == Len(found[k]) + 1
         IN  /\ \A t : Holds(t, found, k, e) => Holds(t, found, k + 1, 1)
             /\ CountedTo(found, k + 1, 1) = CountedTo(found, k, e)
             /\ ~HasContext(found, k + 1, 1)
<1> DEFINE e == Len(found[k]) + 1
           S == {i \in ContextsOf(found) : i < k}
           T == {i \in ContextsOf(found) : i < k + 1}
<1>1. /\ DOMAIN found[k] = 1..Len(found[k]) /\ Len(found[k]) \in Nat /\ e - 1 = Len(found[k])
      /\ k \in Nat /\ k + 1 - 1 = k /\ 1..k = 1..(k - 1) \cup {k} /\ 1..(1 - 1) = {}
      /\ k \in DOMAIN found
  BY DEF AreLists
<1>2. SeenBefore(found, k + 1, 1) = SeenBefore(found, k, e)
  <2>1. {found[k][i] : i \in 1..(e - 1)} = ToSet(found[k])
    BY <1>1 DEF ToSet
  <2>2. UNION {ToSet(found[i]) : i \in 1..k} = (UNION {ToSet(found[i]) : i \in 1..(k - 1)}) \cup ToSet(found[k])
    BY <1>1
  <2>3. SeenBefore(found, k + 1, 1) = UNION {ToSet(found[i]) : i \in 1..k}
    BY <1>1 DEF SeenBefore
  <2> QED  BY <2>1, <2>2, <2>3 DEF SeenBefore
<1>3. ~HasContext(found, k + 1, 1)
  BY <1>1 DEF HasContext
<1>4. HasContext(found, k, e) <=> k \in ContextsOf(found)
  BY <1>1, ContextsAre DEF HasContext
<1>5. T = IF k \in ContextsOf(found) THEN S \cup {k} ELSE S
  <2>1. \A i \in ContextsOf(found) : i \in Int
    BY ContextsAre DEF AreLists
  <2> QED  BY <1>1, <2>1
<1>6. k \notin S /\ IsFiniteSet(S) /\ Cardinality(S) \in Nat
  BY <1>1, ContextsFinite
<1> HIDE DEF S, T, e
<1>7. Cardinality(T) = Cardinality(S) + IF k \in ContextsOf(found) THEN 1 ELSE 0
  <2>1. CASE k \in ContextsOf(found)
    <3>1. Cardinality(S \cup {k}) = Cardinality(S) + 1
      BY <1>6, FS_AddElement
    <3> QED  BY <1>5, <2>1, <3>1
  <2>2. CASE k \notin ContextsOf(found)
    BY <1>5, <1>6, <2>2
  <2> QED  BY <2>1, <2>2
<1>8. CountedTo(found, k + 1, 1) = Cardinality(T) + 0
  BY <1>3 DEF CountedTo, T
<1>9. CountedTo(found, k, e) = Cardinality(S) + IF k \in ContextsOf(found) THEN 1 ELSE 0
  BY <1>4 DEF CountedTo, S
<1>10. Cardinality(T) + 0 = Cardinality(S) + IF k \in ContextsOf(found) THEN 1 ELSE 0
  BY <1>6, <1>7
<1> QED  BY <1>2, <1>3, <1>8, <1>9, <1>10 DEF Holds, e

\* At the end all contexts are counted.
LEMMA AllCounted ==
  ASSUME NEW found, AreLists(found)
  PROVE  CountedTo(found, Len(found) + 1, 1) = Cardinality(ContextsOf(found))
<1>1. \A i \in ContextsOf(found) : i < Len(found) + 1
  BY ContextsAre DEF AreLists
<1>2. {i \in ContextsOf(found) : i < Len(found) + 1} = ContextsOf(found)
  BY <1>1
<1>3. ~HasContext(found, Len(found) + 1, 1)
  <2>1. 1..(1 - 1) = {}
    OBVIOUS
  <2> QED  BY <2>1 DEF HasContext
<1>4. Cardinality(ContextsOf(found)) \in Nat
  <2>1. Len(found) + 1 \in Int
    BY DEF AreLists
  <2> QED  BY <1>2, <2>1, ContextsFinite
<1>5. CountedTo(found, Len(found) + 1, 1) = Cardinality(ContextsOf(found)) + 0
  BY <1>2, <1>3 DEF CountedTo
<1> QED  BY <1>4, <1>5

\* Programs read later change nothing of what was counted.
LEMMA MoreFound ==
  ASSUME NEW found, AreLists(found), NEW more, AreLists(more), Len(found) <= Len(more),
         \A k \in 1..Len(found) : more[k] = found[k]
  PROVE  LET k == Len(found) + 1
         IN  /\ \A t : Holds(t, found, k, 1) => Holds(t, more, k, 1)
             /\ CountedTo(more, k, 1) = CountedTo(found, k, 1)
<1> DEFINE n == Len(found)
           k == n + 1
<1>1. /\ n \in Nat /\ k - 1 = n /\ 1..(1 - 1) = {} /\ DOMAIN found = 1..n
      /\ DOMAIN more = 1..Len(more) /\ 1..n \subseteq 1..Len(more)
  BY DEF AreLists
<1>2. \A i \in 1..n : more[i] = found[i]
  OBVIOUS
<1> HIDE DEF n
<1>3. \A i \in 1..n : \A j : SeenBefore(more, i, j) = SeenBefore(found, i, j)
  <2> TAKE i \in 1..n
  <2> TAKE j
  <2>1. \A l \in 1..(i - 1) : more[l] = found[l]
    BY <1>1, <1>2
  <2> QED  BY <1>2, <2>1 DEF SeenBefore
<1>4. \A i \in 1..n : \A j : NewAt(more, i, j) <=> NewAt(found, i, j)
  BY <1>2, <1>3 DEF NewAt
<1>5. {i \in ContextsOf(more) : i < k} = {i \in ContextsOf(found) : i < k}
  <2>1. \A i \in DOMAIN more : i < k <=> i \in 1..n
    BY <1>1
  <2>2. \A i \in DOMAIN found : i < k /\ i \in 1..n
    BY <1>1
  <2>3. \A i \in 1..n : i \in ContextsOf(more) <=> i \in ContextsOf(found)
    BY <1>1, <1>2, <1>4, ContextsAre
  <2>4. ContextsOf(more) \subseteq DOMAIN more /\ ContextsOf(found) \subseteq DOMAIN found
    BY ContextsAre
  <2> QED  BY <1>1, <2>1, <2>2, <2>3, <2>4
<1>6. ~HasContext(more, k, 1) /\ ~HasContext(found, k, 1)
  BY <1>1 DEF HasContext
<1>7. SeenBefore(more, k, 1) = SeenBefore(found, k, 1)
  BY <1>1, <1>2 DEF SeenBefore
<1> QED  BY <1>5, <1>6, <1>7 DEF Holds, CountedTo, n
------------------------------------------------------------------------------
\* x and y are the same mod m.
Congruent(m, x, y) == \E q \in Int : x - y = q * m

LEMMA RemainderIs ==
  ASSUME NEW m \in Nat \ {0}, NEW x \in Int
  PROVE  x % m \in 0..(m - 1) /\ Congruent(m, x % m, x)
<1>1. x % m \in 0..(m - 1)
  OBVIOUS
<1>2. x = m * (x \div m) + (x % m)
  OBVIOUS
<1> DEFINE q == x \div m
           r == x % m
<1>3. q \in Int /\ r \in Int /\ x = m * q + r
  BY <1>1, <1>2
<1> HIDE DEF q, r
<1>4. r - x = (-q) * m /\ -q \in Int
  BY <1>3
<1>5. Congruent(m, r, x)
  BY <1>4 DEF Congruent
<1> QED  BY <1>1, <1>5 DEF r

LEMMA RemainderOfSmall ==
  ASSUME NEW m \in Nat \ {0}, NEW x \in 0..(m - 1)
  PROVE  x % m = x
OBVIOUS

LEMMA CongruentSame ==
  ASSUME NEW m \in Nat, NEW x \in Int
  PROVE  Congruent(m, x, x)
<1>1. x - x = 0 * m /\ 0 \in Int
  OBVIOUS
<1> QED  BY <1>1 DEF Congruent

LEMMA CongruentEqual ==
  ASSUME NEW m \in Nat \ {0}, NEW x \in 0..(m - 1), NEW y \in 0..(m - 1), Congruent(m, x, y)
  PROVE  x = y
<1>1. PICK q \in Int : x - y = q * m
  BY DEF Congruent
<1>2. q >= 1 => q * m >= m
  OBVIOUS
<1>3. q <= -1 => q * m <= -m
  OBVIOUS
<1>4. q = 0 => q * m = 0
  OBVIOUS
<1> QED  BY <1>1, <1>2, <1>3, <1>4

LEMMA CongruentBack ==
  ASSUME NEW m \in Nat, NEW x \in Int, NEW y \in Int, Congruent(m, x, y)
  PROVE  Congruent(m, y, x)
<1>1. PICK q \in Int : x - y = q * m
  BY DEF Congruent
<1>2. y - x = (-q) * m /\ -q \in Int
  BY <1>1
<1> QED  BY <1>2 DEF Congruent

LEMMA CongruentThrough ==
  ASSUME NEW m \in Nat, NEW x \in Int, NEW y \in Int, NEW z \in Int,
         Congruent(m, x, y), Congruent(m, y, z)
  PROVE  Congruent(m, x, z)
<1>1. PICK q \in Int : x - y = q * m
  BY DEF Congruent
<1>2. PICK p \in Int : y - z = p * m
  BY DEF Congruent
<1>3. x - z = (q + p) * m /\ q + p \in Int
  BY <1>1, <1>2
<1> QED  BY <1>3 DEF Congruent

LEMMA CongruentSum ==
  ASSUME NEW m \in Nat, NEW x \in Int, NEW y \in Int, NEW u \in Int, NEW v \in Int,
         Congruent(m, x, y), Congruent(m, u, v)
  PROVE  Congruent(m, x + u, y + v)
<1>1. PICK q \in Int : x - y = q * m
  BY DEF Congruent
<1>2. PICK p \in Int : u - v = p * m
  BY DEF Congruent
<1>3. (x + u) - (y + v) = (q + p) * m /\ q + p \in Int
  BY <1>1, <1>2
<1> QED  BY <1>3 DEF Congruent

LEMMA CongruentTimes ==
  ASSUME NEW m \in Nat, NEW x \in Int, NEW y \in Int, NEW c \in Int, Congruent(m, x, y)
  PROVE  Congruent(m, x * c, y * c)
<1>1. PICK q \in Int : x - y = q * m
  BY DEF Congruent
<1>2. q * c \in Int /\ x * c - y * c = (x - y) * c
  OBVIOUS
<1>3. (q * m) * c = (q * c) * m
  OBVIOUS
<1>4. x * c - y * c = (q * c) * m
  BY <1>1, <1>2, <1>3
<1> QED  BY <1>2, <1>4 DEF Congruent

LEMMA ProductOfSmall ==
  ASSUME NEW m \in Nat \ {0}, NEW x \in 0..(m - 1), NEW y \in 0..(m - 1)
  PROVE  x * y \in 0..((m - 1) * (m - 1)) /\ (m - 1) * (m - 1) + (m - 1) < m * m
<1>1. x * y <= (m - 1) * y
  <2>1. (m - 1) * y - x * y = ((m - 1) - x) * y
    OBVIOUS
  <2>2. (m - 1) - x \in Nat /\ y \in Nat
    OBVIOUS
  <2>3. ((m - 1) - x) * y \in Nat
    BY <2>2
  <2> QED  BY <2>1, <2>3
<1>2. (m - 1) * y <= (m - 1) * (m - 1)
  <2>1. (m - 1) * (m - 1) - (m - 1) * y = (m - 1) * ((m - 1) - y)
    OBVIOUS
  <2>2. (m - 1) - y \in Nat /\ m - 1 \in Nat
    OBVIOUS
  <2>3. (m - 1) * ((m - 1) - y) \in Nat
    BY <2>2
  <2> QED  BY <2>1, <2>3
<1>3. x * y \in Nat
  OBVIOUS
<1>4. (m - 1) * (m - 1) + (m - 1) = m * m - m
  OBVIOUS
<1> QED  BY <1>1, <1>2, <1>3, <1>4

LEMMA NextRemainder ==
  ASSUME NEW m \in Nat \ {0}, NEW k \in Nat
  PROVE  (k + 1) % m = IF k % m = m - 1 THEN 0 ELSE (k % m) + 1
<1> DEFINE r == k % m
           s == (k + 1) % m
           u == IF r = m - 1 THEN 0 ELSE r + 1
<1>1. r \in 0..(m - 1) /\ s \in 0..(m - 1) /\ Congruent(m, r, k) /\ Congruent(m, s, k + 1)
  <2> DEFINE j == k + 1
  <2>1. k \in Int /\ j \in Int
    OBVIOUS
  <2>2. r \in 0..(m - 1) /\ Congruent(m, r, k)
    BY <2>1, RemainderIs
  <2> HIDE DEF j
  <2>3. (j % m) \in 0..(m - 1) /\ Congruent(m, j % m, j)
    BY <2>1, RemainderIs
  <2> QED  BY <2>2, <2>3 DEF j
<1> HIDE DEF r, s
<1>2. u \in 0..(m - 1) /\ u \in Int /\ r \in Int /\ s \in Int /\ k + 1 \in Int /\ r + 1 \in Int /\ m \in Nat
  BY <1>1
<1>3. Congruent(m, r + 1, k + 1)
  <2>1. Congruent(m, 1, 1)
    BY CongruentSame
  <2> QED  BY <1>1, <1>2, <2>1, CongruentSum
<1>4. Congruent(m, u, r + 1)
  <2>1. CASE r = m - 1
    <3>1. u - (r + 1) = (-1) * m /\ -1 \in Int
      BY <1>2, <2>1
    <3> QED  BY <3>1 DEF Congruent
  <2>2. CASE r # m - 1
    BY <1>2, <2>2, CongruentSame
  <2> QED  BY <2>1, <2>2
<1> HIDE DEF u
<1>5. Congruent(m, k + 1, s)
  BY <1>1, <1>2, CongruentBack
<1>6. Congruent(m, u, s)
  <2>1. Congruent(m, u, k + 1)
    BY <1>2, <1>3, <1>4, CongruentThrough
  <2> QED  BY <1>2, <1>5, <2>1, CongruentThrough
<1>7. u = s
  BY <1>1, <1>2, <1>6, CongruentEqual
<1> QED  BY <1>7 DEF r, s, u
=============================================================================

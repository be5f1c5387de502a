---------------------------- MODULE AlgorithmsProofs ----------------------------
(***************************************************************************)
(* Proofs about Splitting and Matching: what splitCost bills adds up, to   *)
(* the right people, and nobody pays more than rounding explains; and what *)
(* findBestMatch ranks is every candidate, once, best first.               *)
(*                                                                         *)
(* Both modules fold over lists.  What a fold computes follows by          *)
(* induction, which is stated here about sets of numbers (SetInduction):   *)
(* a least natural outside the set would exist by the well-foundedness of  *)
(* <.  A fold is the CHOOSE of a recursive function, so that function's    *)
(* existence is proved first (SumExists, EntriesExist).                    *)
(***************************************************************************)
EXTENDS Splitting, Matching, FiniteSetTheorems, TLAPS

-----------------------------------------------------------------------------
(* Induction, and sums of lists *)

(* Every set of naturals has a least member. *)
LEMMA LeastNatural ==
  ASSUME NEW T, T \subseteq Nat, T # {}
  PROVE  \E n \in T : \A m \in T : n <= m
<1>1. IsWellFoundedOn(OpToRel(<, Nat), Nat)
  BY NatLessThanWellFounded, Zenon
<1>2. PICK x \in T : \A y \in T : ~(<<y, x>> \in OpToRel(<, Nat))
  BY <1>1, WFMin, Zenon
<1>3. \A y \in T : ~(y < x)
  BY <1>2 DEF OpToRel
<1> QED BY <1>3

(* Induction, about a set: what has a proof may be any formula. *)
LEMMA SetInduction ==
  ASSUME NEW T, 0 \in T, \A k \in Nat : k \in T => k + 1 \in T
  PROVE  Nat \subseteq T
<1> DEFINE Left == Nat \ T
<1>1. SUFFICES ASSUME Left # {} PROVE FALSE
  OBVIOUS
<1>2. PICK n \in Left : \A m \in Left : n <= m
  BY <1>1, LeastNatural
<1>3. n # 0 /\ n - 1 \in Nat
  OBVIOUS
<1>4. n - 1 \in T
  BY <1>2, <1>3
<1>5. (n - 1) + 1 \in T
  BY <1>3, <1>4
<1> QED BY <1>5

(* What Max chooses is there. *)
LEMMA MaxBelow ==
  ASSUME NEW n \in Nat, NEW s, s \subseteq 1 .. n, s # {}
  PROVE  /\ Max(s) \in s
         /\ \A y \in s : y <= Max(s)
<1> DEFINE T == {m \in Nat : n - m \in s}
<1>1. T # {}
  <2>1. PICK x \in s : TRUE
    OBVIOUS
  <2>2. x \in Nat /\ n - x \in Nat /\ n - (n - x) = x
    BY <2>1
  <2>3. n - x \in T
    BY <2>1, <2>2
  <2> QED BY <2>3
<1>2. PICK m \in T : \A k \in T : m <= k
  BY <1>1, LeastNatural
<1>3. \A y \in s : n - m >= y
  <2> SUFFICES ASSUME NEW y \in s PROVE n - m >= y
    OBVIOUS
  <2>1. n - y \in Nat /\ n - (n - y) = y
    OBVIOUS
  <2>2. n - y \in T
    BY <2>1
  <2> QED BY <1>2, <2>1, <2>2
<1>4. \E x \in s : \A y \in s : x >= y
  BY <1>2, <1>3
<1>5. Max(s) \in s /\ \A y \in s : Max(s) >= y
  BY <1>4 DEF Max
<1> QED BY <1>5

(* The prefix 1 .. k of a list's positions ends in k. *)
LEMMA MaxOfInterval ==
  ASSUME NEW n \in Nat, NEW k \in 1 .. n
  PROVE  /\ 1 .. k \in SUBSET (1 .. n) /\ 1 .. k # {}
         /\ Max(1 .. k) = k
         /\ (1 .. k) \ {k} = 1 .. k - 1
<1>1. 1 .. k \in SUBSET (1 .. n) /\ k \in 1 .. k /\ 1 .. k # {} /\ k \in Nat
  OBVIOUS
<1>2. Max(1 .. k) \in 1 .. k /\ k <= Max(1 .. k)
  BY <1>1, MaxBelow
<1> QED BY <1>1, <1>2

(* The function of FoldLeft for a sum, on the subsets of 1 .. n. *)
SumFrom(list, n, f) ==
  f = [s \in SUBSET (1 .. n) |->
         IF s = {} THEN 0 ELSE f[s \ {Max(s)}] + list[Max(s)]]

(* There is such a function: what CHOOSE picks in a fold satisfies it. *)
LEMMA SumExists ==
  ASSUME NEW list
  PROVE  \A n \in Nat : \E f : SumFrom(list, n, f)
<1> DEFINE T == {n \in Nat : \E f : SumFrom(list, n, f)}
<1>1. 0 \in T
  <2> DEFINE f == [s \in SUBSET (1 .. 0) |-> 0]
  <2>1. \A s \in SUBSET (1 .. 0) : s = {}
    OBVIOUS
  <2>2. SumFrom(list, 0, f)
    BY <2>1 DEF SumFrom
  <2> QED BY <2>2
<1>2. ASSUME NEW n \in Nat, n \in T
      PROVE  n + 1 \in T
  <2>1. PICK f : SumFrom(list, n, f)
    BY <1>2
  <2> DEFINE g == [s \in SUBSET (1 .. n + 1) |->
                     IF n + 1 \in s THEN f[s \ {n + 1}] + list[n + 1] ELSE f[s]]
  <2>2. ASSUME NEW s \in SUBSET (1 .. n + 1)
        PROVE  g[s] = IF s = {} THEN 0 ELSE g[s \ {Max(s)}] + list[Max(s)]
    <3>1. CASE n + 1 \in s
      <4>1. Max(s) = n + 1
        <5> n + 1 \in Nat /\ s \subseteq 1 .. n + 1 /\ s # {}
          BY <3>1
        <5>1. Max(s) \in s /\ \A y \in s : y <= Max(s)
          BY MaxBelow
        <5>2. Max(s) \in 1 .. n + 1 /\ n + 1 <= Max(s)
          BY <3>1, <5>1
        <5> QED BY <5>2
      <4>2. s \ {n + 1} \in SUBSET (1 .. n + 1) /\ n + 1 \notin s \ {n + 1}
        OBVIOUS
      <4>3. g[s \ {n + 1}] = f[s \ {n + 1}]
        BY <4>2
      <4> QED BY <3>1, <4>1, <4>3
    <3>2. CASE n + 1 \notin s /\ s # {}
      <4>1. s \in SUBSET (1 .. n)
        BY <3>2
      <4>2. f[s] = f[s \ {Max(s)}] + list[Max(s)]
        BY <2>1, <3>2, <4>1 DEF SumFrom
      <4>3. g[s] = f[s] /\ g[s \ {Max(s)}] = f[s \ {Max(s)}]
        BY <3>2
      <4> QED BY <3>2, <4>2, <4>3
    <3>3. CASE s = {}
      <4>1. f[s] = 0
        BY <2>1, <3>3 DEF SumFrom
      <4> QED BY <3>3, <4>1
    <3> QED BY <3>1, <3>2, <3>3
  <2>3. g = [s \in SUBSET (1 .. n + 1) |->
               IF s = {} THEN 0 ELSE g[s \ {Max(s)}] + list[Max(s)]]
    <3> HIDE DEF g
    <3>1. g = [s \in SUBSET (1 .. n + 1) |-> g[s]]
      BY DEF g
    <3> QED BY <3>1, <2>2, Zenon
  <2>4. SumFrom(list, n + 1, g)
    BY <2>3, Zenon DEF SumFrom
  <2> QED BY <2>4
<1>3. Nat \subseteq T
  <2> HIDE DEF T
  <2> QED BY <1>1, <1>2, SetInduction
<1> QED BY <1>3

(* SumOf is the value of that function on the whole list. *)
LEMMA SumIsFold ==
  ASSUME NEW list, NEW n \in Nat, DOMAIN list = 1 .. n
  PROVE  \E f : SumFrom(list, n, f) /\ SumOf(list) = f[1 .. n]
<1> DEFINE f == CHOOSE f : SumFrom(list, n, f)
<1>1. SumFrom(list, n, f)
  BY SumExists, Zenon
<1>2. SumOf(list) = f[1 .. n]
  BY DEF SumOf, FoldLeft, MapThenFoldSet, SumFrom
<1> QED BY <1>1, <1>2

(* A list's sums over its prefixes. *)
RunningSums(list, n, p) ==
  /\ p \in [0 .. n -> Int]
  /\ p[0] = 0
  /\ \A k \in 1 .. n : p[k] = p[k - 1] + list[k]

(* A sum is built up from the left. *)
LEMMA HasRunningSums ==
  ASSUME NEW n \in Nat, NEW list \in [1 .. n -> Int]
  PROVE  \E p : RunningSums(list, n, p) /\ SumOf(list) = p[n]
<1>1. PICK f : SumFrom(list, n, f) /\ SumOf(list) = f[1 .. n]
  BY SumIsFold
<1>2. f[1 .. 0] = 0
  <2>1. 1 .. 0 = {} /\ 1 .. 0 \in SUBSET (1 .. n)
    OBVIOUS
  <2> QED BY <1>1, <2>1 DEF SumFrom
<1>3. ASSUME NEW k \in 1 .. n
      PROVE  f[1 .. k] = f[1 .. k - 1] + list[k]
  <2>1. f[1 .. k] = f[(1 .. k) \ {Max(1 .. k)}] + list[Max(1 .. k)]
    BY <1>1, MaxOfInterval DEF SumFrom
  <2> QED BY <2>1, MaxOfInterval
<1> DEFINE p == [k \in 0 .. n |-> f[1 .. k]]
           T == {k \in Nat : k <= n => f[1 .. k] \in Int}
<1>4. Nat \subseteq T
  <2>1. 0 \in T
    BY <1>2
  <2>2. ASSUME NEW k \in Nat, k \in T PROVE k + 1 \in T
    <3>1. CASE k + 1 <= n
      <4>1. k + 1 \in 1 .. n /\ (k + 1) - 1 = k /\ k <= n
        BY <3>1
      <4>2. f[1 .. k + 1] = f[1 .. k] + list[k + 1]
        BY <1>3, <4>1
      <4> QED BY <2>2, <4>1, <4>2
    <3> QED BY <3>1
  <2> HIDE DEF T
  <2> QED BY <2>1, <2>2, SetInduction
<1>5. p \in [0 .. n -> Int]
  BY <1>4
<1>6. RunningSums(list, n, p)
  <2>1. p[0] = 0
    BY <1>2
  <2>2. \A k \in 1 .. n : p[k] = p[k - 1] + list[k]
    BY <1>3
  <2> QED BY <1>5, <2>1, <2>2 DEF RunningSums
<1>7. p[n] = SumOf(list)
  BY <1>1
<1> QED BY <1>6, <1>7

(* Induction over the prefixes of a list. *)
LEMMA PrefixInduction ==
  ASSUME NEW n \in Nat, NEW T, 0 \in T,
         \A k \in 1 .. n : k - 1 \in T => k \in T
  PROVE  n \in T
<1> DEFINE U == {k \in Nat : k <= n => k \in T}
<1>1. 0 \in U
  OBVIOUS
<1>2. ASSUME NEW k \in Nat, k \in U PROVE k + 1 \in U
  <2>1. k + 1 <= n => k + 1 \in 1 .. n /\ (k + 1) - 1 = k /\ k <= n
    OBVIOUS
  <2> QED BY <1>2, <2>1
<1>3. Nat \subseteq U
  <2> HIDE DEF U
  <2> QED BY <1>1, <1>2, SetInduction
<1> QED BY <1>3

(* Sums of integers are integers. *)
LEMMA SumIsInt ==
  ASSUME NEW n \in Nat, NEW list \in [1 .. n -> Int]
  PROVE  SumOf(list) \in Int
BY HasRunningSums DEF RunningSums

(* Sums are added term by term. *)
LEMMA SumPlus ==
  ASSUME NEW n \in Nat, NEW a \in [1 .. n -> Int], NEW b \in [1 .. n -> Int],
         NEW c \in [1 .. n -> Int], \A i \in 1 .. n : c[i] = a[i] + b[i]
  PROVE  SumOf(c) = SumOf(a) + SumOf(b)
<1>1. PICK p : RunningSums(a, n, p) /\ SumOf(a) = p[n]
  BY HasRunningSums
<1>2. PICK q : RunningSums(b, n, q) /\ SumOf(b) = q[n]
  BY HasRunningSums
<1>3. PICK r : RunningSums(c, n, r) /\ SumOf(c) = r[n]
  BY HasRunningSums
<1> DEFINE T == {k \in 0 .. n : r[k] = p[k] + q[k]}
<1>4. 0 \in T
  BY <1>1, <1>2, <1>3 DEF RunningSums
<1>5. ASSUME NEW k \in 1 .. n, k - 1 \in T PROVE k \in T
  <2>1. p[k] = p[k - 1] + a[k] /\ q[k] = q[k - 1] + b[k] /\ r[k] = r[k - 1] + c[k]
    BY <1>1, <1>2, <1>3 DEF RunningSums
  <2>2. p[k - 1] \in Int /\ q[k - 1] \in Int
    BY <1>1, <1>2 DEF RunningSums
  <2> QED BY <1>5, <2>1, <2>2
<1>6. n \in T
  <2> HIDE DEF T
  <2> QED BY <1>4, <1>5, PrefixInduction
<1> QED BY <1>1, <1>2, <1>3, <1>6

(* b is a, each of its n numbers c times as large. *)
Multiplied(n, a, b, c) ==
  /\ a \in [1 .. n -> Int] /\ b \in [1 .. n -> Int]
  /\ \A i \in 1 .. n : b[i] = a[i] * c

(* A common factor can be taken out. *)
LEMMA SumTimes ==
  ASSUME NEW n \in Nat, NEW a, NEW b, NEW c \in Int, Multiplied(n, a, b, c)
  PROVE  SumOf(b) = SumOf(a) * c
<1>1. PICK p : RunningSums(a, n, p) /\ SumOf(a) = p[n]
  BY HasRunningSums DEF Multiplied
<1>2. PICK q : RunningSums(b, n, q) /\ SumOf(b) = q[n]
  BY HasRunningSums DEF Multiplied
<1> DEFINE T == {k \in 0 .. n : q[k] = p[k] * c}
<1>3. 0 \in T
  BY <1>1, <1>2 DEF RunningSums
<1>4. ASSUME NEW k \in 1 .. n, k - 1 \in T PROVE k \in T
  <2>1. p[k] = p[k - 1] + a[k] /\ q[k] = q[k - 1] + a[k] * c
    BY <1>1, <1>2 DEF RunningSums, Multiplied
  <2>2. p[k - 1] \in Int /\ a[k] \in Int
    BY <1>1 DEF RunningSums, Multiplied
  <2>3. (p[k - 1] + a[k]) * c = p[k - 1] * c + a[k] * c
    BY <2>2
  <2> QED BY <1>4, <2>1, <2>3
<1>5. n \in T
  <2> HIDE DEF T
  <2> QED BY <1>3, <1>4, PrefixInduction
<1> QED BY <1>1, <1>2, <1>5

(* Larger terms, larger sum. *)
LEMMA SumMonotone ==
  ASSUME NEW n \in Nat, NEW a \in [1 .. n -> Int], NEW b \in [1 .. n -> Int],
         \A i \in 1 .. n : a[i] <= b[i]
  PROVE  SumOf(a) <= SumOf(b)
<1>1. PICK p : RunningSums(a, n, p) /\ SumOf(a) = p[n]
  BY HasRunningSums
<1>2. PICK q : RunningSums(b, n, q) /\ SumOf(b) = q[n]
  BY HasRunningSums
<1> DEFINE T == {k \in 0 .. n : p[k] <= q[k]}
<1>3. 0 \in T
  BY <1>1, <1>2 DEF RunningSums
<1>4. ASSUME NEW k \in 1 .. n, k - 1 \in T PROVE k \in T
  <2>1. p[k] = p[k - 1] + a[k] /\ q[k] = q[k - 1] + b[k]
    BY <1>1, <1>2 DEF RunningSums
  <2>2. p[k - 1] \in Int /\ q[k - 1] \in Int
    BY <1>1, <1>2 DEF RunningSums
  <2> QED BY <1>4, <2>1, <2>2
<1>5. n \in T
  <2> HIDE DEF T
  <2> QED BY <1>3, <1>4, PrefixInduction
<1> QED BY <1>1, <1>2, <1>5

(* The same number everywhere. *)
LEMMA SumConstant ==
  ASSUME NEW n \in Nat, NEW v \in Int
  PROVE  SumOf([i \in 1 .. n |-> v]) = n * v
<1> DEFINE a == [i \in 1 .. n |-> v]
<1>1. PICK p : RunningSums(a, n, p) /\ SumOf(a) = p[n]
  BY HasRunningSums
<1> DEFINE T == {k \in 0 .. n : p[k] = k * v}
<1>2. 0 \in T
  BY <1>1 DEF RunningSums
<1>3. ASSUME NEW k \in 1 .. n, k - 1 \in T PROVE k \in T
  <2>1. p[k] = p[k - 1] + v
    BY <1>1 DEF RunningSums
  <2>2. (k - 1) * v + v = k * v
    OBVIOUS
  <2> QED BY <1>3, <2>1, <2>2
<1>4. n \in T
  <2> HIDE DEF T
  <2> QED BY <1>2, <1>3, PrefixInduction
<1> QED BY <1>1, <1>4

(* A single number among zeros. *)
LEMMA SumSingle ==
  ASSUME NEW n \in Nat, NEW a \in [1 .. n -> Int], NEW j \in 1 .. n,
         \A i \in 1 .. n : i # j => a[i] = 0
  PROVE  SumOf(a) = a[j]
<1>1. PICK p : RunningSums(a, n, p) /\ SumOf(a) = p[n]
  BY HasRunningSums
<1> DEFINE T == {k \in 0 .. n : p[k] = IF k < j THEN 0 ELSE a[j]}
<1>2. 0 \in T
  BY <1>1 DEF RunningSums
<1>3. ASSUME NEW k \in 1 .. n, k - 1 \in T PROVE k \in T
  <2>1. p[k] = p[k - 1] + a[k] /\ a[k] \in Int
    BY <1>1 DEF RunningSums
  <2>2. CASE k = j
    BY <1>3, <2>1, <2>2
  <2>3. CASE k # j
    BY <1>3, <2>1, <2>3
  <2> QED BY <2>2, <2>3
<1>4. n \in T
  <2> HIDE DEF T
  <2> QED BY <1>2, <1>3, PrefixInduction
<1> QED BY <1>1, <1>4

(* Nothing but zeros. *)
LEMMA SumNone ==
  ASSUME NEW n \in Nat, NEW a \in [1 .. n -> Int], \A i \in 1 .. n : a[i] = 0
  PROVE  SumOf(a) = 0
<1>1. PICK p : RunningSums(a, n, p) /\ SumOf(a) = p[n]
  BY HasRunningSums
<1> DEFINE T == {k \in 0 .. n : p[k] = 0}
<1>2. 0 \in T
  BY <1>1 DEF RunningSums
<1>3. ASSUME NEW k \in 1 .. n, k - 1 \in T PROVE k \in T
  BY <1>1, <1>3 DEF RunningSums
<1>4. n \in T
  <2> HIDE DEF T
  <2> QED BY <1>2, <1>3, PrefixInduction
<1> QED BY <1>1, <1>4

(* A table's rows add up to what its columns add up to. *)
LEMMA SumSwap ==
  ASSUME NEW n \in Nat, NEW m \in Nat, NEW t \in [1 .. n -> [1 .. m -> Int]]
  PROVE  SumOf([j \in 1 .. m |-> SumOf([i \in 1 .. n |-> t[i][j]])])
           = SumOf([i \in 1 .. n |-> SumOf(t[i])])
<1> DEFINE cell(k, i, j) == IF i <= k THEN t[i][j] ELSE 0
           column(k, j) == [i \in 1 .. n |-> cell(k, i, j)]
           columns(k) == [j \in 1 .. m |-> SumOf(column(k, j))]
           rows == [i \in 1 .. n |-> SumOf(t[i])]
<1>0. \A k \in 0 .. n, j \in 1 .. m : column(k, j) \in [1 .. n -> Int]
  OBVIOUS
<1>1. \A k \in 0 .. n : columns(k) \in [1 .. m -> Int]
  <2> HIDE DEF column
  <2> QED BY <1>0, SumIsInt
<1>2. rows \in [1 .. n -> Int]
  BY SumIsInt
<1>3. PICK p : RunningSums(rows, n, p) /\ SumOf(rows) = p[n]
  BY <1>2, HasRunningSums
<1> DEFINE T == {k \in 0 .. n : SumOf(columns(k)) = p[k]}
<1>4. 0 \in T
  <2>1. ASSUME NEW j \in 1 .. m PROVE SumOf(column(0, j)) = 0
    BY <1>0, SumNone
  <2>2. columns(0) \in [1 .. m -> Int] /\ \A j \in 1 .. m : columns(0)[j] = 0
    <3> HIDE DEF column
    <3> QED BY <1>1, <2>1
  <2>3. SumOf(columns(0)) = 0
    <3> HIDE DEF columns
    <3> QED BY <2>2, SumNone
  <2> QED BY <1>3, <2>3 DEF RunningSums
<1>5. ASSUME NEW k \in 1 .. n, k - 1 \in T PROVE k \in T
  <2>1. ASSUME NEW j \in 1 .. m
        PROVE  SumOf(column(k, j)) = SumOf(column(k - 1, j)) + t[k][j]
    <3> DEFINE d == [i \in 1 .. n |-> IF i = k THEN t[k][j] ELSE 0]
    <3>1. d \in [1 .. n -> Int] /\ d[k] = t[k][j]
          /\ \A i \in 1 .. n : i # k => d[i] = 0
      OBVIOUS
    <3>2. SumOf(d) = t[k][j]
      <4> HIDE DEF d
      <4> QED BY <3>1, SumSingle
    <3>3. \A i \in 1 .. n : column(k, j)[i] = column(k - 1, j)[i] + d[i]
      OBVIOUS
    <3>4. SumOf(column(k, j)) = SumOf(column(k - 1, j)) + SumOf(d)
      <4>1. column(k, j) \in [1 .. n -> Int] /\ column(k - 1, j) \in [1 .. n -> Int]
        <5> k - 1 \in 0 .. n /\ k \in 0 .. n
          OBVIOUS
        <5> QED BY <1>0
      <4> HIDE DEF d, column
      <4> QED BY <4>1, <3>1, <3>3, SumPlus
    <3> QED BY <3>2, <3>4
  <2>2. \A j \in 1 .. m : columns(k)[j] = columns(k - 1)[j] + t[k][j]
    <3> HIDE DEF column
    <3> QED BY <2>1
  <2>3. SumOf(columns(k)) = SumOf(columns(k - 1)) + SumOf(t[k])
    <3> k - 1 \in 0 .. n /\ k \in 0 .. n
      OBVIOUS
    <3> HIDE DEF columns
    <3> QED BY <1>1, <2>2, SumPlus
  <2>4. p[k] = p[k - 1] + rows[k]
    BY <1>3 DEF RunningSums
  <2>5. rows[k] = SumOf(t[k])
    OBVIOUS
  <2> HIDE DEF columns, rows
  <2> QED BY <1>5, <2>3, <2>4, <2>5
<1>6. n \in T
  <2> HIDE DEF T
  <2> QED BY <1>4, <1>5, PrefixInduction
<1>7. columns(n) = [j \in 1 .. m |-> SumOf([i \in 1 .. n |-> t[i][j]])]
  <2>1. ASSUME NEW j \in 1 .. m
        PROVE  column(n, j) = [i \in 1 .. n |-> t[i][j]]
    OBVIOUS
  <2> HIDE DEF column
  <2> QED BY <2>1
<1> HIDE DEF columns, rows
<1>8. SumOf(columns(n)) = SumOf(rows)
  BY <1>3, <1>6
<1> QED BY <1>7, <1>8 DEF rows

-----------------------------------------------------------------------------
(* The entries of subtotalByUser *)

(* What an item adds to the entries. *)
Insert(seen, u) == IF Contains(seen, u) THEN seen ELSE Append(seen, u)

(* The function of FoldLeft for the entries. *)
EntriesFrom(lines, n, f) ==
  f = [s \in SUBSET (1 .. n) |->
         IF s = {} THEN <<>> ELSE Insert(f[s \ {Max(s)}], lines[Max(s)].userId)]

(* There is such a function, as for sums. *)
LEMMA EntriesExist ==
  ASSUME NEW lines
  PROVE  \A n \in Nat : \E f : EntriesFrom(lines, n, f)
<1> DEFINE T == {n \in Nat : \E f : EntriesFrom(lines, n, f)}
<1>1. 0 \in T
  <2> DEFINE f == [s \in SUBSET (1 .. 0) |-> <<>>]
  <2>1. \A s \in SUBSET (1 .. 0) : s = {}
    OBVIOUS
  <2>2. EntriesFrom(lines, 0, f)
    BY <2>1 DEF EntriesFrom
  <2> QED BY <2>2
<1>2. ASSUME NEW n \in Nat, n \in T
      PROVE  n + 1 \in T
  <2>1. PICK f : EntriesFrom(lines, n, f)
    BY <1>2
  <2> DEFINE g == [s \in SUBSET (1 .. n + 1) |->
                     IF n + 1 \in s
                     THEN Insert(f[s \ {n + 1}], lines[n + 1].userId) ELSE f[s]]
  <2>2. ASSUME NEW s \in SUBSET (1 .. n + 1)
        PROVE  g[s] = IF s = {} THEN <<>>
                      ELSE Insert(g[s \ {Max(s)}], lines[Max(s)].userId)
    <3>1. CASE n + 1 \in s
      <4>1. Max(s) = n + 1
        <5> n + 1 \in Nat /\ s \subseteq 1 .. n + 1 /\ s # {}
          BY <3>1
        <5>1. Max(s) \in s /\ \A y \in s : y <= Max(s)
          BY MaxBelow
        <5>2. Max(s) \in 1 .. n + 1 /\ n + 1 <= Max(s)
          BY <3>1, <5>1
        <5> QED BY <5>2
      <4>2. s \ {n + 1} \in SUBSET (1 .. n + 1) /\ n + 1 \notin s \ {n + 1}
        OBVIOUS
      <4>3. g[s \ {n + 1}] = f[s \ {n + 1}]
        BY <4>2
      <4> QED BY <3>1, <4>1, <4>3
    <3>2. CASE n + 1 \notin s /\ s # {}
      <4>1. s \in SUBSET (1 .. n)
        BY <3>2
      <4>2. f[s] = Insert(f[s \ {Max(s)}], lines[Max(s)].userId)
        BY <2>1, <3>2, <4>1 DEF EntriesFrom
      <4>3. g[s] = f[s] /\ g[s \ {Max(s)}] = f[s \ {Max(s)}]
        BY <3>2
      <4> QED BY <3>2, <4>2, <4>3
    <3>3. CASE s = {}
      <4>1. f[s] = <<>>
        BY <2>1, <3>3 DEF EntriesFrom
      <4> QED BY <3>3, <4>1
    <3> QED BY <3>1, <3>2, <3>3
  <2>3. g = [s \in SUBSET (1 .. n + 1) |->
               IF s = {} THEN <<>>
               ELSE Insert(g[s \ {Max(s)}], lines[Max(s)].userId)]
    <3> HIDE DEF g
    <3>1. g = [s \in SUBSET (1 .. n + 1) |-> g[s]]
      BY DEF g
    <3> QED BY <3>1, <2>2, Zenon
  <2>4. EntriesFrom(lines, n + 1, g)
    BY <2>3, Zenon DEF EntriesFrom
  <2> QED BY <2>4
<1>3. Nat \subseteq T
  <2> HIDE DEF T
  <2> QED BY <1>1, <1>2, SetInduction
<1> QED BY <1>3

(* e names everyone who bought one of the first k lines, and once. *)
NamesBuyers(e, lines, k) ==
  /\ e \in Seq(Students)
  /\ \A i, j \in 1 .. Len(e) : e[i] = e[j] => i = j
  /\ \A i \in 1 .. Len(e) : \E l \in 1 .. k : e[i] = lines[l].userId
  /\ \A l \in 1 .. k : \E i \in 1 .. Len(e) : e[i] = lines[l].userId

(* subtotalByUser has one entry for each buyer. *)
LEMMA EntriesAreBuyers ==
  ASSUME NEW n \in Nat, NEW lines \in [1 .. n -> Item]
  PROVE  NamesBuyers(Entries(lines), lines, n)
<1> DEFINE f == CHOOSE f : EntriesFrom(lines, n, f)
<1>1. EntriesFrom(lines, n, f)
  BY EntriesExist, Zenon
<1>2. Entries(lines) = f[1 .. n]
  <2>1. DOMAIN lines = 1 .. n
    OBVIOUS
  <2> QED BY <2>1 DEF Entries, FoldLeft, MapThenFoldSet, EntriesFrom, Insert
<1> HIDE DEF f
<1> DEFINE T == {k \in 0 .. n : NamesBuyers(f[1 .. k], lines, k)}
<1>3. 0 \in T
  <2>1. 1 .. 0 = {} /\ 1 .. 0 \in SUBSET (1 .. n)
    OBVIOUS
  <2>2. f[1 .. 0] = <<>>
    BY <1>1, <2>1 DEF EntriesFrom
  <2>3. NamesBuyers(<<>>, lines, 0)
    BY DEF NamesBuyers
  <2> QED BY <2>2, <2>3
<1>4. ASSUME NEW k \in 1 .. n, k - 1 \in T PROVE k \in T
  <2>0. NamesBuyers(f[1 .. k - 1], lines, k - 1)
    BY <1>4
  <2> SUFFICES NamesBuyers(f[1 .. k], lines, k)
    OBVIOUS
  <2> HIDE DEF T
  <2> DEFINE e == f[1 .. k - 1]
             u == lines[k].userId
  <2>5. f[1 .. k] = Insert(e, u)
    <3>1. f[1 .. k] = Insert(f[(1 .. k) \ {Max(1 .. k)}], lines[Max(1 .. k)].userId)
      BY <1>1, MaxOfInterval DEF EntriesFrom
    <3> QED BY <3>1, MaxOfInterval DEF e, u
  <2>6. NamesBuyers(e, lines, k - 1)
    BY <2>0
  <2>7. u \in Students
    BY DEF Item
  <2> HIDE DEF e, u
  <2>8. \A l \in 1 .. k : l \in 1 .. k - 1 \/ l = k
    OBVIOUS
  <2>9. CASE Contains(e, u)
    <3>1. f[1 .. k] = e
      BY <2>5, <2>9 DEF Insert
    <3>2. \E i \in 1 .. Len(e) : e[i] = lines[k].userId
      BY <2>9 DEF Contains, u
    <3>3. NamesBuyers(e, lines, k)
      <4>1. \A i \in 1 .. Len(e) : \E l \in 1 .. k : e[i] = lines[l].userId
        <5>1. \A l \in 1 .. k - 1 : l \in 1 .. k
          OBVIOUS
        <5> QED BY <2>6, <5>1 DEF NamesBuyers
      <4>2. \A l \in 1 .. k : \E i \in 1 .. Len(e) : e[i] = lines[l].userId
        BY <2>6, <2>8, <3>2 DEF NamesBuyers
      <4> QED BY <2>6, <4>1, <4>2 DEF NamesBuyers
    <3> QED BY <3>1, <3>3
  <2>10. CASE ~Contains(e, u)
    <3> DEFINE g == Append(e, u)
    <3>1. f[1 .. k] = g
      BY <2>5, <2>10 DEF Insert
    <3>2. /\ g \in Seq(Students) /\ Len(g) = Len(e) + 1
          /\ \A i \in 1 .. Len(e) : g[i] = e[i]
          /\ g[Len(e) + 1] = u /\ Len(e) \in Nat
      BY <2>6, <2>7 DEF NamesBuyers
    <3> HIDE DEF g
    <3>3. \A i \in 1 .. Len(g) : i \in 1 .. Len(e) \/ i = Len(e) + 1
      BY <3>2
    <3>4. \A i \in 1 .. Len(e) : e[i] # u
      BY <2>10 DEF Contains
    <3>5. \A i, j \in 1 .. Len(g) : g[i] = g[j] => i = j
      BY <2>6, <3>2, <3>3, <3>4 DEF NamesBuyers
    <3>6. \A i \in 1 .. Len(g) : \E l \in 1 .. k : g[i] = lines[l].userId
      BY <2>6, <3>2, <3>3 DEF u, NamesBuyers
    <3>7. \A l \in 1 .. k : \E i \in 1 .. Len(g) : g[i] = lines[l].userId
      BY <2>6, <2>8, <3>2 DEF u, NamesBuyers
    <3>8. NamesBuyers(g, lines, k)
      BY <3>2, <3>5, <3>6, <3>7 DEF NamesBuyers
    <3> QED BY <3>1, <3>8
  <2> QED BY <2>9, <2>10
<1>5. n \in T
  <2> HIDE DEF T
  <2> QED BY <1>3, <1>4, PrefixInduction
<1>6. NamesBuyers(Entries(lines), lines, n)
  BY <1>2, <1>5
<1> QED BY <1>6

-----------------------------------------------------------------------------
(* Subtotals and shares *)

(* A line of a cart costs something. *)
LEMMA LinesArePositive ==
  ASSUME NEW item \in Item
  PROVE  Line(item) \in Nat /\ Line(item) > 0
<1>1. item.pricePaise \in Nat \ {0} /\ item.quantity \in Nat \ {0}
  BY SplitAssumption DEF Item
<1>2. ASSUME NEW p \in Nat \ {0}, NEW q \in Nat \ {0}
      PROVE  p * q \in Nat /\ p * q > 0
  OBVIOUS
<1> QED BY <1>1, <1>2 DEF Line

(* A buyer's subtotal is positive and part of the total. *)
LEMMA SubtotalsArePositive ==
  ASSUME NEW n \in Nat, NEW lines \in [1 .. n -> Item], NEW u
  PROVE  /\ Subtotal(lines, u) \in Nat
         /\ Subtotal(lines, u) <= groupTotalPaise(lines, 0)
         /\ groupTotalPaise(lines, 0) \in Nat
         /\ \A k \in 1 .. n : lines[k].userId = u => Subtotal(lines, u) > 0
<1> DEFINE all == [k \in 1 .. n |-> Line(lines[k])]
           own == [k \in 1 .. n |-> IF lines[k].userId = u THEN Line(lines[k]) ELSE 0]
           none == [k \in 1 .. n |-> 0]
<1>0. \A k \in 1 .. n : Line(lines[k]) \in Nat /\ Line(lines[k]) > 0
  BY LinesArePositive
<1>1. /\ all \in [1 .. n -> Int] /\ own \in [1 .. n -> Int] /\ none \in [1 .. n -> Int]
      /\ \A k \in 1 .. n : none[k] <= own[k] /\ own[k] <= all[k] /\ none[k] = 0
  BY <1>0
<1>2. /\ Subtotal(lines, u) = SumOf(own)
      /\ groupTotalPaise(lines, 0) = SumOf(all) + 0
  <2>1. DOMAIN lines = 1 .. n
    OBVIOUS
  <2> QED BY <2>1 DEF Subtotal, groupTotalPaise
<1>3. ASSUME NEW k \in 1 .. n, lines[k].userId = u PROVE SumOf(own) > 0
  <2> DEFINE one == [j \in 1 .. n |-> IF j = k THEN Line(lines[k]) ELSE 0]
  <2>1. /\ one \in [1 .. n -> Int]
        /\ \A j \in 1 .. n : one[j] <= own[j] /\ (j # k => one[j] = 0)
        /\ one[k] = Line(lines[k])
    BY <1>0, <1>3
  <2> HIDE DEF one, own
  <2>2. SumOf(one) = Line(lines[k])
    BY <2>1, SumSingle
  <2>3. SumOf(one) <= SumOf(own) /\ SumOf(own) \in Int
    BY <1>1, <2>1, SumMonotone, SumIsInt
  <2> QED BY <1>0, <2>2, <2>3
<1> HIDE DEF all, own, none
<1>4. SumOf(own) \in Int /\ SumOf(all) \in Int /\ SumOf(none) = 0
  BY <1>1, SumIsInt, SumNone
<1>5. SumOf(none) <= SumOf(own) /\ SumOf(own) <= SumOf(all)
  BY <1>1, SumMonotone
<1> QED BY <1>2, <1>3, <1>4, <1>5

(* Every line is in one buyer's subtotal, so the subtotals come to the    *)
(* group's total.                                                          *)
LEMMA SubtotalsAddUp ==
  ASSUME NEW n \in Nat, NEW lines \in [1 .. n -> Item]
  PROVE  groupSubtotal(lines) = groupTotalPaise(lines, 0)
<1> DEFINE e == Entries(lines)
           m == Len(e)
<1>1. NamesBuyers(e, lines, n)
  BY EntriesAreBuyers
<1> HIDE DEF e
<1>2. m \in Nat /\ DOMAIN e = 1 .. m
  BY <1>1 DEF NamesBuyers
<1> HIDE DEF m
<1> DEFINE t == [k \in 1 .. n |-> [i \in 1 .. m |->
                   IF lines[k].userId = e[i] THEN Line(lines[k]) ELSE 0]]
<1>0. \A k \in 1 .. n : Line(lines[k]) \in Int
  BY LinesArePositive
<1>3. t \in [1 .. n -> [1 .. m -> Int]]
  BY <1>0
<1>4. ASSUME NEW k \in 1 .. n PROVE SumOf(t[k]) = Line(lines[k])
  <2>1. PICK i \in 1 .. m : e[i] = lines[k].userId
    BY <1>1 DEF NamesBuyers, m
  <2>2. \A j \in 1 .. m : j # i => e[j] # lines[k].userId
    BY <1>1, <2>1 DEF NamesBuyers, m
  <2>3. /\ t[k] \in [1 .. m -> Int] /\ t[k][i] = Line(lines[k])
        /\ \A j \in 1 .. m : j # i => t[k][j] = 0
    BY <1>0, <2>1, <2>2
  <2> HIDE DEF t
  <2> QED BY <1>2, <2>3, SumSingle
<1>5. ASSUME NEW i \in 1 .. m
      PROVE  Subtotal(lines, e[i]) = SumOf([k \in 1 .. n |-> t[k][i]])
  <2>1. DOMAIN lines = 1 .. n
    OBVIOUS
  <2>2. [k \in 1 .. n |-> t[k][i]]
          = [k \in 1 .. n |-> IF lines[k].userId = e[i] THEN Line(lines[k]) ELSE 0]
    BY <1>5
  <2> HIDE DEF t
  <2> QED BY <2>1, <2>2 DEF Subtotal
<1> HIDE DEF t
<1>6. SumOf([i \in 1 .. m |-> SumOf([k \in 1 .. n |-> t[k][i]])])
        = SumOf([k \in 1 .. n |-> SumOf(t[k])])
  BY <1>2, <1>3, SumSwap
<1>7. groupSubtotal(lines) = SumOf([i \in 1 .. m |-> SumOf([k \in 1 .. n |-> t[k][i]])])
  <2>1. groupSubtotal(lines) = SumOf([i \in 1 .. m |-> Subtotal(lines, e[i])])
    BY <1>2 DEF groupSubtotal, e
  <2>2. [i \in 1 .. m |-> Subtotal(lines, e[i])]
          = [i \in 1 .. m |-> SumOf([k \in 1 .. n |-> t[k][i]])]
    BY <1>5
  <2> QED BY <2>1, <2>2
<1>8. groupTotalPaise(lines, 0) = SumOf([k \in 1 .. n |-> SumOf(t[k])])
  <2>1. DOMAIN lines = 1 .. n
    OBVIOUS
  <2>2. [k \in 1 .. n |-> SumOf(t[k])] = [k \in 1 .. n |-> Line(lines[k])]
    BY <1>4
  <2>3. SumOf([k \in 1 .. n |-> Line(lines[k])]) \in Int
    <3>1. [k \in 1 .. n |-> Line(lines[k])] \in [1 .. n -> Int]
      BY <1>0
    <3> QED BY <3>1, SumIsInt
  <2> QED BY <2>1, <2>2, <2>3 DEF groupTotalPaise
<1> QED BY <1>6, <1>7, <1>8

(* The first of those who bought most is there. *)
LEMMA LargestBoughtMost ==
  ASSUME NEW n \in Nat, NEW lines \in [1 .. n -> Item], Len(Entries(lines)) # 0
  PROVE  \E l \in 1 .. Len(Entries(lines)) :
           /\ LargestUser(lines) = Entries(lines)[l]
           /\ \A j \in 1 .. Len(Entries(lines)) :
                Subtotal(lines, Entries(lines)[j]) <= Subtotal(lines, Entries(lines)[l])
<1> DEFINE e == Entries(lines)
           m == Len(e)
           sub(i) == Subtotal(lines, e[i])
           total == groupTotalPaise(lines, 0)
           subs == {sub(i) : i \in 1 .. m}
<1>1. NamesBuyers(e, lines, n)
  BY EntriesAreBuyers
<1> HIDE DEF e
<1>2. m \in Nat /\ DOMAIN e = 1 .. m /\ 1 \in 1 .. m
  BY <1>1 DEF NamesBuyers, e
<1>3. ASSUME NEW i \in 1 .. m PROVE sub(i) \in 1 .. total /\ total \in Nat
  <2>1. PICK k \in 1 .. n : lines[k].userId = e[i]
    BY <1>1 DEF NamesBuyers
  <2> QED BY <2>1, SubtotalsArePositive
<1>4. total \in Nat /\ subs \subseteq 1 .. total /\ subs # {}
  BY <1>2, <1>3
<1>5. Max(subs) \in subs /\ \A y \in subs : y <= Max(subs)
  <2> HIDE DEF subs, total
  <2> QED BY <1>4, MaxBelow
<1>6. PICK h \in 1 .. m : \A j \in 1 .. m : sub(j) <= sub(h)
  <2> HIDE DEF sub
  <2> QED BY <1>5
<1> DEFINE I == {i \in 1 .. m : \A v \in ToSet(e) : Subtotal(lines, v) <= sub(i)}
<1>7. h \in I
  BY <1>2, <1>6 DEF ToSet
<1>8. PICK l \in I : \A i \in I : l <= i
  <2>1. I \subseteq Nat /\ I # {}
    BY <1>2, <1>7
  <2> HIDE DEF I
  <2> QED BY <2>1, LeastNatural
<1>9. Min(I) \in I
  <2> HIDE DEF I
  <2> QED BY <1>8 DEF Min
<1>10. LargestUser(lines) = e[Min(I)]
  <2>1. LargestUser(lines)
          = e[SelectInSeq(e, LAMBDA u :
                \A v \in ToSet(e) : Subtotal(lines, v) <= Subtotal(lines, u))]
    BY DEF LargestUser, e
  <2>2. SelectInSeq(e, LAMBDA u :
          \A v \in ToSet(e) : Subtotal(lines, v) <= Subtotal(lines, u)) = Min(I)
    BY <1>7 DEF SelectInSeq
  <2> QED BY <2>1, <2>2
<1>11. Min(I) \in 1 .. m /\ \A j \in 1 .. m : sub(j) <= sub(Min(I))
  BY <1>2, <1>9 DEF ToSet
<1> QED BY <1>10, <1>11 DEF e

(* A rounded share is at most the exact one and less by at most a paisa. *)
LEMMA RoundingLosesAPaisa ==
  ASSUME NEW sub \in Nat, sub > 0, NEW total \in Nat, total > 0,
         NEW deliveryFee \in Nat,
         NEW share \in FloorShares(sub, total, deliveryFee)
  PROVE  /\ share \in Nat
         /\ share * total <= sub * deliveryFee
         /\ sub * deliveryFee <= share * total + total
<1> DEFINE x == sub * deliveryFee
           q == x \div total
           r == x % total
<1>1. x \in Nat /\ (deliveryFee > 0 => x > 0)
  OBVIOUS
<1> HIDE DEF x
<1>2. q \in Int /\ r \in 0 .. total - 1 /\ x = total * q + r
  BY <1>1
<1>3. share = q \/ (share = q - 1 /\ r = 0 /\ deliveryFee > 0)
  BY DEF FloorShares, x
<1> HIDE DEF q, r
<1>4. q >= 0
  <2>1. CASE q <= -1
    <3>1. total * q <= -total
      BY <1>2, <2>1
    <3> QED BY <1>1, <1>2, <3>1
  <2> QED BY <1>2, <2>1
<1>5. total * q = q * total /\ (q - 1) * total = q * total - total
  BY <1>2
<1>6. CASE share = q
  BY <1>1, <1>2, <1>4, <1>5, <1>6 DEF x
<1>7. CASE share = q - 1 /\ r = 0 /\ deliveryFee > 0
  <2>1. q # 0
    BY <1>1, <1>2, <1>7
  <2> QED BY <1>1, <1>2, <1>4, <1>5, <1>7, <2>1 DEF x
<1> QED BY <1>3, <1>6, <1>7

(* What rounding leaves over of the fee. *)
Rest(lines, deliveryFee, share) ==
  deliveryFee - SumOf([i \in DOMAIN Entries(lines) |-> share[Entries(lines)[i]]])

(* What rounding took from the share of the i-th entry, times the total. *)
Lost(lines, deliveryFee, share, i) ==
  Subtotal(lines, Entries(lines)[i]) * deliveryFee
    - share[Entries(lines)[i]] * groupSubtotal(lines)

(* What rounding takes from the shares is what there is left over. *)
LEMMA RestIsWhatIsLost ==
  ASSUME NEW n \in Nat, NEW lines \in [1 .. n -> Item], NEW deliveryFee \in Nat,
         NEW share \in RoundedShares(lines, deliveryFee), groupSubtotal(lines) # 0
  PROVE  LET m == Len(Entries(lines)) IN
         /\ m \in Nat \ {0} /\ DOMAIN Entries(lines) = 1 .. m
         /\ groupSubtotal(lines) \in Nat \ {0}
         /\ Rest(lines, deliveryFee, share) \in Nat
         /\ \A i \in 1 .. m :
              /\ Subtotal(lines, Entries(lines)[i]) \in Nat
              /\ share[Entries(lines)[i]] \in Nat
              /\ Lost(lines, deliveryFee, share, i) \in 0 .. groupSubtotal(lines)
         /\ SumOf([i \in 1 .. m |-> Lost(lines, deliveryFee, share, i)])
              = Rest(lines, deliveryFee, share) * groupSubtotal(lines)
<1> DEFINE e == Entries(lines)
           m == Len(e)
           total == groupSubtotal(lines)
           sub(i) == Subtotal(lines, e[i])
           lost(i) == Lost(lines, deliveryFee, share, i)
           rest == Rest(lines, deliveryFee, share)
           subs == [i \in 1 .. m |-> sub(i)]
           shares == [i \in 1 .. m |-> share[e[i]]]
           due == [i \in 1 .. m |-> sub(i) * deliveryFee]
           paid == [i \in 1 .. m |-> share[e[i]] * total]
           losses == [i \in 1 .. m |-> lost(i)]
<1>1. NamesBuyers(e, lines, n)
  BY EntriesAreBuyers
<1>2. m \in Nat /\ DOMAIN e = 1 .. m
  BY <1>1 DEF NamesBuyers
<1>3. total = SumOf(subs)
  BY <1>2 DEF groupSubtotal
<1>4. total \in Nat /\ total > 0
  <2>1. total = groupTotalPaise(lines, 0)
    BY SubtotalsAddUp
  <2>2. total \in Nat
    BY <2>1, SubtotalsArePositive
  <2> QED BY <2>2
<1>5. m # 0
  <2>1. CASE m = 0
    <3>1. subs \in [1 .. 0 -> Int] /\ \A i \in 1 .. 0 : subs[i] = 0
      BY <2>1
    <3> HIDE DEF subs, total
    <3>2. SumOf(subs) = 0
      BY <3>1, SumNone
    <3> QED BY <1>3, <1>4, <3>2
  <2> QED BY <2>1
<1>6. ASSUME NEW i \in 1 .. m
      PROVE  /\ sub(i) \in Nat /\ share[e[i]] \in Nat
             /\ sub(i) * deliveryFee \in Int /\ share[e[i]] * total \in Int
             /\ lost(i) = sub(i) * deliveryFee - share[e[i]] * total
             /\ lost(i) \in 0 .. total
  <2>1. PICK k \in 1 .. n : lines[k].userId = e[i]
    BY <1>1 DEF NamesBuyers
  <2>2. sub(i) \in Nat /\ sub(i) > 0
    BY <2>1, SubtotalsArePositive
  <2>3. e[i] \in ToSet(e)
    BY <1>2 DEF ToSet
  <2>4. share[e[i]] \in FloorShares(sub(i), total, deliveryFee)
    BY <2>3 DEF RoundedShares
  <2> HIDE DEF total, sub
  <2>5. /\ share[e[i]] \in Nat
        /\ share[e[i]] * total <= sub(i) * deliveryFee
        /\ sub(i) * deliveryFee <= share[e[i]] * total + total
    BY <1>4, <2>2, <2>4, RoundingLosesAPaisa
  <2>6. sub(i) * deliveryFee \in Int /\ share[e[i]] * total \in Int
    BY <1>4, <2>2, <2>5
  <2>7. lost(i) = sub(i) * deliveryFee - share[e[i]] * total
    BY DEF Lost, sub, total
  <2>8. lost(i) \in 0 .. total
    <3> DEFINE exact == sub(i) * deliveryFee
               given == share[e[i]] * total
    <3>1. /\ exact \in Int /\ given \in Int /\ given <= exact /\ exact <= given + total
          /\ lost(i) = exact - given
      BY <2>5, <2>6, <2>7
    <3> HIDE DEF exact, given, lost
    <3> QED BY <1>4, <3>1
  <2> HIDE DEF lost
  <2> QED BY <2>2, <2>5, <2>6, <2>7, <2>8
<1>7. /\ subs \in [1 .. m -> Int] /\ shares \in [1 .. m -> Int]
      /\ due \in [1 .. m -> Int] /\ paid \in [1 .. m -> Int]
      /\ losses \in [1 .. m -> Int]
      /\ Multiplied(m, subs, due, deliveryFee) /\ Multiplied(m, shares, paid, total)
      /\ \A i \in 1 .. m : due[i] = losses[i] + paid[i]
      /\ \A i \in 1 .. m : 0 <= losses[i]
  <2> HIDE DEF lost, sub, total, m, e
  <2>1. \A i \in 1 .. m : sub(i) \in Int /\ share[e[i]] \in Int /\ lost(i) \in Int
    BY <1>4, <1>6
  <2>2. \A i \in 1 .. m : due[i] = losses[i] + paid[i]
    BY <1>6, <2>1
  <2>3. \A i \in 1 .. m : 0 <= losses[i]
    BY <1>6
  <2>4. due \in [1 .. m -> Int] /\ paid \in [1 .. m -> Int]
    BY <1>6
  <2>5. Multiplied(m, subs, due, deliveryFee) /\ Multiplied(m, shares, paid, total)
    BY <2>1, <2>4 DEF Multiplied
  <2> HIDE DEF due, paid
  <2> QED BY <2>1, <2>2, <2>3, <2>4, <2>5
<1>8. rest = deliveryFee - SumOf(shares)
  BY <1>2 DEF Rest
<1> HIDE DEF lost, sub, total, subs, shares, due, paid, losses, m, e
<1>9. /\ SumOf(subs) \in Int /\ SumOf(shares) \in Int /\ SumOf(due) \in Int
      /\ SumOf(paid) \in Int /\ SumOf(losses) \in Int
  BY <1>2, <1>7, SumIsInt
<1>10. SumOf(due) = total * deliveryFee
  <2> deliveryFee \in Int
    OBVIOUS
  <2> HIDE DEF rest
  <2>1. SumOf(due) = SumOf(subs) * deliveryFee
    BY <1>2, <1>7, SumTimes
  <2> QED BY <1>3, <2>1
<1>11. SumOf(paid) = SumOf(shares) * total
  <2> total \in Int
    BY <1>4
  <2> HIDE DEF rest
  <2> QED BY <1>2, <1>7, SumTimes
<1>12. SumOf(due) = SumOf(losses) + SumOf(paid)
  <2> HIDE DEF rest
  <2> QED BY <1>2, <1>7, SumPlus
<1>13. SumOf(losses) = rest * total
  <2>1. total * deliveryFee - SumOf(shares) * total = (deliveryFee - SumOf(shares)) * total
    BY <1>4, <1>9
  <2> QED BY <1>8, <1>9, <1>10, <1>11, <1>12, <2>1
<1>14. SumOf(losses) >= 0
  <2> DEFINE none == [i \in 1 .. m |-> 0]
  <2>1. none \in [1 .. m -> Int] /\ \A i \in 1 .. m : none[i] = 0 /\ none[i] <= losses[i]
    BY <1>7
  <2> HIDE DEF none
  <2> QED BY <1>2, <1>7, <2>1, SumNone, SumMonotone
<1>15. rest \in Nat
  <2>1. rest \in Int
    BY <1>8, <1>9
  <2>2. CASE rest <= -1
    <3>1. rest * total <= -total
      BY <1>4, <2>1, <2>2
    <3>2. rest * total \in Int
      BY <1>4, <2>1
    <3> QED BY <1>4, <1>13, <1>14, <3>1, <3>2
  <2> QED BY <2>1, <2>2
<1> QED BY <1>2, <1>4, <1>5, <1>6, <1>13, <1>15 DEF losses, lost, total, sub, m, e

(* The delivery share of the i-th entry, the remainder included. *)
Delivery(lines, deliveryFee, share, i) ==
  WithRemainder(share, lines, deliveryFee, Entries(lines)[i])

(* One of those who bought most gets all of it. *)
LEMMA RemainderToLargest ==
  ASSUME NEW n \in Nat, NEW lines \in [1 .. n -> Item], NEW deliveryFee \in Nat,
         NEW share \in RoundedShares(lines, deliveryFee), groupSubtotal(lines) # 0
  PROVE  \E l \in 1 .. Len(Entries(lines)) :
           /\ \A j \in 1 .. Len(Entries(lines)) :
                Subtotal(lines, Entries(lines)[j]) <= Subtotal(lines, Entries(lines)[l])
           /\ \A i \in 1 .. Len(Entries(lines)) :
                Delivery(lines, deliveryFee, share, i)
                  = share[Entries(lines)[i]]
                      + IF i = l THEN Rest(lines, deliveryFee, share) ELSE 0
<1> DEFINE e == Entries(lines)
           m == Len(e)
           rest == Rest(lines, deliveryFee, share)
<1>1. /\ m \in Nat \ {0} /\ rest \in Nat
      /\ \A i \in 1 .. m : share[e[i]] \in Nat
  BY RestIsWhatIsLost
<1>2. PICK l \in 1 .. m :
        /\ LargestUser(lines) = e[l]
        /\ \A j \in 1 .. m : Subtotal(lines, e[j]) <= Subtotal(lines, e[l])
  BY <1>1, LargestBoughtMost
<1>3. NamesBuyers(e, lines, n)
  BY EntriesAreBuyers
<1>4. ASSUME NEW i \in 1 .. m
      PROVE  Delivery(lines, deliveryFee, share, i)
               = share[e[i]] + IF i = l THEN rest ELSE 0
  <2>1. CASE i = l
    <3>1. Delivery(lines, deliveryFee, share, i)
            = share[e[i]] + deliveryFee - SumOf([k \in DOMAIN e |-> share[e[k]]])
      BY <1>2, <2>1 DEF Delivery, WithRemainder
    <3>2. SumOf([k \in DOMAIN e |-> share[e[k]]]) = deliveryFee - rest
      <4> DEFINE sum == SumOf([k \in DOMAIN e |-> share[e[k]]])
      <4>1. sum \in Int
        <5>1. DOMAIN e = 1 .. m
          BY <1>3 DEF NamesBuyers
        <5>2. [k \in 1 .. m |-> share[e[k]]] \in [1 .. m -> Int]
          BY <1>1
        <5> QED BY <1>1, <5>1, <5>2, SumIsInt
      <4>2. rest = deliveryFee - sum
        BY DEF Rest
      <4>3. sum = deliveryFee - rest
        <5> HIDE DEF sum, rest
        <5> QED BY <4>1, <4>2
      <4> QED BY <4>3
    <3> HIDE DEF rest, e
    <3> QED BY <1>1, <2>1, <3>1, <3>2
  <2>2. CASE i # l
    <3>1. e[i] # LargestUser(lines)
      BY <1>2, <1>3, <2>2 DEF NamesBuyers
    <3>2. Delivery(lines, deliveryFee, share, i) = share[e[i]]
      BY <3>1 DEF Delivery, WithRemainder
    <3> HIDE DEF rest, e
    <3> QED BY <1>1, <2>2, <3>2
  <2> QED BY <2>1, <2>2
<1> QED BY <1>2, <1>4

-----------------------------------------------------------------------------
(* A state holds a cart, a fee and perhaps one of its splits. *)
SplitInv ==
  /\ \E n \in Nat : items \in [1 .. n -> Item]
  /\ fee \in Nat
  /\ split = NoSplit \/ split \in splitCost(items, fee)

(* Split answers once, from the cart that is there. *)
LEMMA SplitInvariance == Spec => []SplitInv
<1>1. Init => SplitInv
  <2> SUFFICES ASSUME Init PROVE SplitInv
    OBVIOUS
  <2>1. \E n \in Nat : items \in [1 .. n -> Item]
    BY SplitAssumption DEF Init, BoundedSeq, SeqOf
  <2>2. fee \in Nat
    BY SplitAssumption DEF Init
  <2> QED BY <2>1, <2>2 DEF Init, SplitInv
<1>2. SplitInv /\ [Split]_vars => SplitInv'
  <2> SUFFICES ASSUME SplitInv, [Split]_vars PROVE SplitInv'
    OBVIOUS
  <2>1. CASE Split
    BY <2>1 DEF SplitInv, Split
  <2>2. CASE UNCHANGED vars
    BY <2>2 DEF SplitInv, vars
  <2> QED BY <2>1, <2>2
<1> QED BY <1>1, <1>2, PTL DEF Spec

(* Any split that is returned comes from rounded shares. *)
LEMMA SplitIsRounded ==
  ASSUME SplitInv, Done
  PROVE  /\ groupSubtotal(items) # 0
         /\ \E share \in RoundedShares(items, fee) :
              split = [i \in DOMAIN Entries(items) |->
                 [userId |-> Entries(items)[i],
                  subtotalPaise |-> Subtotal(items, Entries(items)[i]),
                  deliverySharePaise |-> Delivery(items, fee, share, i),
                  totalPaise |-> Subtotal(items, Entries(items)[i])
                                   + Delivery(items, fee, share, i)]]
<1>1. split \in splitCost(items, fee) /\ split # NoSplit
  BY DEF SplitInv, Done
<1>2. groupSubtotal(items) # 0
  BY <1>1 DEF splitCost
<1> QED BY <1>1, <1>2 DEF splitCost, Delivery

(* The shares of a split add up to the cart and the fee. *)
LEMMA SplitsSumUp == SplitInv => SumsToTotal
<1> SUFFICES ASSUME SplitInv, Done
             PROVE  SumOf([i \in Payers |-> split[i].totalPaise])
                      = groupTotalPaise(items, fee)
  BY DEF SumsToTotal
<1>1. PICK n \in Nat : items \in [1 .. n -> Item]
  BY DEF SplitInv
<1>2. fee \in Nat
  BY DEF SplitInv
<1>3. PICK share \in RoundedShares(items, fee) :
        split = [i \in DOMAIN Entries(items) |->
                 [userId |-> Entries(items)[i],
                  subtotalPaise |-> Subtotal(items, Entries(items)[i]),
                  deliverySharePaise |-> Delivery(items, fee, share, i),
                  totalPaise |-> Subtotal(items, Entries(items)[i])
                                   + Delivery(items, fee, share, i)]]
  BY SplitIsRounded
<1>4. groupSubtotal(items) # 0
  BY SplitIsRounded
<1> DEFINE e == Entries(items)
           m == Len(e)
           rest == Rest(items, fee, share)
           subs == [i \in 1 .. m |-> Subtotal(items, e[i])]
           shares == [i \in 1 .. m |-> share[e[i]]]
           deliveries == [i \in 1 .. m |-> Delivery(items, fee, share, i)]
           totals == [i \in 1 .. m |-> subs[i] + deliveries[i]]
<1>5. /\ m \in Nat /\ DOMAIN e = 1 .. m /\ rest \in Nat
      /\ \A i \in 1 .. m : Subtotal(items, e[i]) \in Nat /\ share[e[i]] \in Nat
  BY <1>1, <1>2, <1>4, RestIsWhatIsLost
<1>6. PICK l \in 1 .. m : \A i \in 1 .. m :
        Delivery(items, fee, share, i) = share[e[i]] + IF i = l THEN rest ELSE 0
  BY <1>1, <1>2, <1>4, RemainderToLargest
<1> DEFINE extra == [i \in 1 .. m |-> IF i = l THEN rest ELSE 0]
<1>7. rest = fee - SumOf(shares)
  BY <1>5 DEF Rest
<1>8. SumOf(subs) = groupSubtotal(items)
  BY <1>5 DEF groupSubtotal
<1>9. SumOf([i \in Payers |-> split[i].totalPaise]) = SumOf(totals)
  <2>1. Payers = 1 .. m
    BY <1>3, <1>5 DEF Payers
  <2>2. \A i \in 1 .. m : split[i].totalPaise = totals[i]
    BY <1>3, <1>5
  <2>3. [i \in Payers |-> split[i].totalPaise] = totals
    BY <2>1, <2>2
  <2> QED BY <2>3
<1> HIDE DEF rest, m, e
<1>10. /\ subs \in [1 .. m -> Int] /\ shares \in [1 .. m -> Int]
       /\ extra \in [1 .. m -> Int] /\ deliveries \in [1 .. m -> Int]
       /\ totals \in [1 .. m -> Int]
       /\ extra[l] = rest /\ (\A i \in 1 .. m : i # l => extra[i] = 0)
       /\ \A i \in 1 .. m : deliveries[i] = shares[i] + extra[i]
       /\ \A i \in 1 .. m : totals[i] = subs[i] + deliveries[i]
  BY <1>5, <1>6
<1> HIDE DEF subs, shares, extra, deliveries, totals
<1>11. SumOf(extra) = rest
  <2>1. m \in Nat /\ extra \in [1 .. m -> Int]
    BY <1>5, <1>10
  <2>2. \A i \in 1 .. m : i # l => extra[i] = 0
    BY <1>10
  <2>3. SumOf(extra) = extra[l]
    BY <2>1, <2>2, SumSingle
  <2> QED BY <1>10, <2>3
<1>12. SumOf(deliveries) = SumOf(shares) + SumOf(extra)
  BY <1>5, <1>10, SumPlus
<1>13. SumOf(totals) = SumOf(subs) + SumOf(deliveries)
  BY <1>5, <1>10, SumPlus
<1>14. SumOf(shares) \in Int /\ SumOf(subs) \in Int
  BY <1>5, <1>10, SumIsInt
<1>15. SumOf(totals) = groupSubtotal(items) + fee
  BY <1>2, <1>5, <1>7, <1>8, <1>11, <1>12, <1>13, <1>14
<1>16. groupTotalPaise(items, fee) = groupTotalPaise(items, 0) + fee
  <2>1. groupTotalPaise(items, 0) = SumOf([k \in DOMAIN items |-> Line(items[k])]) + 0
    BY DEF groupTotalPaise
  <2>2. SumOf([k \in DOMAIN items |-> Line(items[k])]) \in Int
    <3>1. [k \in DOMAIN items |-> Line(items[k])] \in [1 .. n -> Int]
      BY <1>1, LinesArePositive
    <3> QED BY <3>1, SumIsInt
  <2> QED BY <1>2, <2>1, <2>2 DEF groupTotalPaise
<1>17. groupSubtotal(items) = groupTotalPaise(items, 0)
  BY <1>1, SubtotalsAddUp
<1> QED BY <1>9, <1>15, <1>16, <1>17

(* All but one of m bounded numbers. *)
LEMMA SumOfOthers ==
  ASSUME NEW m \in Nat, NEW a \in [1 .. m -> Int], NEW bound \in Int,
         NEW l \in 1 .. m, \A k \in 1 .. m : a[k] <= bound
  PROVE  SumOf(a) - a[l] <= (m - 1) * bound
<1> DEFINE most == [k \in 1 .. m |-> bound]
           less == [k \in 1 .. m |-> IF k = l THEN a[l] - bound ELSE 0]
           both == [k \in 1 .. m |-> IF k = l THEN a[l] ELSE bound]
<1>1. /\ most \in [1 .. m -> Int] /\ less \in [1 .. m -> Int]
      /\ both \in [1 .. m -> Int]
  OBVIOUS
<1>2. \A k \in 1 .. m : both[k] = most[k] + less[k]
  OBVIOUS
<1>3. \A k \in 1 .. m : a[k] <= both[k]
  OBVIOUS
<1>4. less[l] = a[l] - bound
  OBVIOUS
<1>5. \A k \in 1 .. m : k # l => less[k] = 0
  OBVIOUS
<1>6. SumOf(most) = m * bound
  BY SumConstant
<1> HIDE DEF most, less, both
<1>7. SumOf(less) = a[l] - bound
  <2>1. SumOf(less) = less[l]
    BY <1>1, <1>5, SumSingle
  <2> QED BY <1>4, <2>1
<1>8. SumOf(both) = SumOf(most) + SumOf(less)
  BY <1>1, <1>2, SumPlus
<1>9. SumOf(a) <= SumOf(both)
  BY <1>1, <1>3, SumMonotone
<1>10. (m - 1) * bound = m * bound - bound /\ m * bound \in Int /\ a[l] \in Int
  OBVIOUS
<1>11. SumOf(a) \in Int
  BY SumIsInt
<1> QED BY <1>6, <1>7, <1>8, <1>9, <1>10, <1>11

(* A split as the lemmas above describe it: the l-th entry gets the rest. *)
LEMMA SplitInFull ==
  ASSUME SplitInv, Done
  PROVE  \E n \in Nat, share \in RoundedShares(items, fee), l \in Payers :
           LET m == Len(Entries(items))
               rest == Rest(items, fee, share)
           IN /\ items \in [1 .. n -> Item] /\ fee \in Nat
              /\ groupSubtotal(items) \in Nat \ {0}
              /\ m \in Nat \ {0} /\ rest \in Nat
              /\ Payers = 1 .. m /\ Len(split) = m
              /\ NamesBuyers(Entries(items), items, n)
              /\ \A i \in Payers :
                   /\ Buyer(i) = Entries(items)[i]
                   /\ Subtotal(items, Buyer(i)) \in Nat
                   /\ share[Buyer(i)] \in Nat
                   /\ split[i].subtotalPaise = Subtotal(items, Buyer(i))
                   /\ split[i].deliverySharePaise
                        = share[Buyer(i)] + IF i = l THEN rest ELSE 0
                   /\ split[i].totalPaise
                        = Subtotal(items, Buyer(i)) + split[i].deliverySharePaise
              /\ \A j \in Payers : split[j].subtotalPaise <= split[l].subtotalPaise
<1>1. PICK n \in Nat : items \in [1 .. n -> Item]
  BY DEF SplitInv
<1>2. fee \in Nat
  BY DEF SplitInv
<1>3. PICK share \in RoundedShares(items, fee) :
        split = [i \in DOMAIN Entries(items) |->
                 [userId |-> Entries(items)[i],
                  subtotalPaise |-> Subtotal(items, Entries(items)[i]),
                  deliverySharePaise |-> Delivery(items, fee, share, i),
                  totalPaise |-> Subtotal(items, Entries(items)[i])
                                   + Delivery(items, fee, share, i)]]
  BY SplitIsRounded
<1>4. groupSubtotal(items) # 0
  BY SplitIsRounded
<1> DEFINE e == Entries(items)
           m == Len(e)
           rest == Rest(items, fee, share)
<1>5. /\ m \in Nat \ {0} /\ DOMAIN e = 1 .. m /\ rest \in Nat
      /\ groupSubtotal(items) \in Nat \ {0}
      /\ \A i \in 1 .. m : Subtotal(items, e[i]) \in Nat /\ share[e[i]] \in Nat
  BY <1>1, <1>2, <1>4, RestIsWhatIsLost
<1>6. PICK l \in 1 .. m :
        /\ \A j \in 1 .. m : Subtotal(items, e[j]) <= Subtotal(items, e[l])
        /\ \A i \in 1 .. m :
             Delivery(items, fee, share, i) = share[e[i]] + IF i = l THEN rest ELSE 0
  BY <1>1, <1>2, <1>4, RemainderToLargest
<1>7. NamesBuyers(e, items, n)
  BY <1>1, EntriesAreBuyers
<1> HIDE DEF rest, m
<1>8. Payers = 1 .. m /\ Len(split) = m
  BY <1>3, <1>5 DEF Payers
<1>9. \A i \in 1 .. m :
        /\ Buyer(i) = e[i]
        /\ split[i].subtotalPaise = Subtotal(items, e[i])
        /\ split[i].deliverySharePaise = Delivery(items, fee, share, i)
        /\ split[i].totalPaise = Subtotal(items, e[i]) + Delivery(items, fee, share, i)
  BY <1>3, <1>5 DEF Buyer
<1> HIDE DEF e
<1>10. /\ \A i \in Payers :
            /\ Buyer(i) = e[i]
            /\ Subtotal(items, Buyer(i)) \in Nat
            /\ share[Buyer(i)] \in Nat
            /\ split[i].subtotalPaise = Subtotal(items, Buyer(i))
            /\ split[i].deliverySharePaise
                 = share[Buyer(i)] + IF i = l THEN rest ELSE 0
            /\ split[i].totalPaise
                 = Subtotal(items, Buyer(i)) + split[i].deliverySharePaise
       /\ \A j \in Payers : split[j].subtotalPaise <= split[l].subtotalPaise
       /\ l \in Payers
  BY <1>5, <1>6, <1>8, <1>9
<1> QED BY <1>1, <1>2, <1>5, <1>7, <1>8, <1>10 DEF rest, m, e

(* The entries are the buyers, each once; what is added is not negative. *)
LEMMA SplitsBillOnce == SplitInv => EveryBuyerOnce
<1> SUFFICES ASSUME SplitInv, Done
             PROVE  /\ {Buyer(i) : i \in Payers}
                         = {items[k].userId : k \in DOMAIN items}
                    /\ \A i, j \in Payers : Buyer(i) = Buyer(j) => i = j
                    /\ \A i \in Payers :
                         split[i].totalPaise >= Subtotal(items, Buyer(i))
  BY DEF EveryBuyerOnce
<1>1. PICK n \in Nat, share \in RoundedShares(items, fee), l \in Payers :
        LET m == Len(Entries(items))
            rest == Rest(items, fee, share)
        IN /\ items \in [1 .. n -> Item] /\ rest \in Nat /\ Payers = 1 .. m
           /\ NamesBuyers(Entries(items), items, n)
           /\ \A i \in Payers :
                /\ Buyer(i) = Entries(items)[i]
                /\ Subtotal(items, Buyer(i)) \in Nat
                /\ share[Buyer(i)] \in Nat
                /\ split[i].deliverySharePaise
                     = share[Buyer(i)] + IF i = l THEN rest ELSE 0
                /\ split[i].totalPaise
                     = Subtotal(items, Buyer(i)) + split[i].deliverySharePaise
  BY SplitInFull
<1> DEFINE e == Entries(items)
           rest == Rest(items, fee, share)
<1>2. DOMAIN items = 1 .. n
  BY <1>1
<1> HIDE DEF rest
<1>3. /\ \A i, j \in Payers : e[i] = e[j] => i = j
      /\ \A i \in Payers : \E k \in 1 .. n : e[i] = items[k].userId
      /\ \A k \in 1 .. n : \E i \in Payers : e[i] = items[k].userId
  <2>1. Payers = 1 .. Len(e) /\ NamesBuyers(e, items, n)
    BY <1>1
  <2> HIDE DEF e
  <2> QED BY <2>1 DEF NamesBuyers
<1>4. \A i \in Payers : Buyer(i) = e[i]
  BY <1>1
<1> HIDE DEF e
<1>5. {Buyer(i) : i \in Payers} = {items[k].userId : k \in DOMAIN items}
  <2>1. ASSUME NEW i \in Payers PROVE \E k \in DOMAIN items : Buyer(i) = items[k].userId
    BY <1>2, <1>3, <1>4
  <2>2. ASSUME NEW k \in DOMAIN items PROVE \E i \in Payers : Buyer(i) = items[k].userId
    BY <1>2, <1>3, <1>4
  <2> QED BY <2>1, <2>2
<1>6. \A i, j \in Payers : Buyer(i) = Buyer(j) => i = j
  BY <1>3, <1>4
<1>7. \A i \in Payers : split[i].totalPaise >= Subtotal(items, Buyer(i))
  <2> TAKE i \in Payers
  <2>1. /\ Subtotal(items, Buyer(i)) \in Nat /\ share[Buyer(i)] \in Nat /\ rest \in Nat
        /\ split[i].deliverySharePaise = share[Buyer(i)] + IF i = l THEN rest ELSE 0
        /\ split[i].totalPaise = Subtotal(items, Buyer(i)) + split[i].deliverySharePaise
    BY <1>1 DEF rest
  <2> QED BY <2>1
<1> QED BY <1>5, <1>6, <1>7

(* Who pays more than the exact share got the rest, all others' losses. *)
LEMMA SplitsAreFair == SplitInv => OnlyLargestPaysMore
<1> SUFFICES ASSUME SplitInv, Done, NEW i \in Payers,
                    split[i].deliverySharePaise * groupTotalPaise(items, 0)
                      - split[i].subtotalPaise * fee > 0
             PROVE  /\ \A j \in Payers :
                         split[j].subtotalPaise <= split[i].subtotalPaise
                    /\ split[i].deliverySharePaise * groupTotalPaise(items, 0)
                         - split[i].subtotalPaise * fee
                         <= (Len(split) - 1) * groupTotalPaise(items, 0)
  BY DEF OnlyLargestPaysMore
<1>1. PICK n \in Nat, share \in RoundedShares(items, fee), l \in Payers :
        LET m == Len(Entries(items))
            rest == Rest(items, fee, share)
        IN /\ items \in [1 .. n -> Item] /\ fee \in Nat
           /\ groupSubtotal(items) \in Nat \ {0}
           /\ m \in Nat \ {0} /\ rest \in Nat
           /\ Payers = 1 .. m /\ Len(split) = m
           /\ \A k \in Payers :
                /\ Buyer(k) = Entries(items)[k]
                /\ Subtotal(items, Buyer(k)) \in Nat
                /\ share[Buyer(k)] \in Nat
                /\ split[k].subtotalPaise = Subtotal(items, Buyer(k))
                /\ split[k].deliverySharePaise
                     = share[Buyer(k)] + IF k = l THEN rest ELSE 0
           /\ \A j \in Payers : split[j].subtotalPaise <= split[l].subtotalPaise
  BY SplitInFull
<1> DEFINE e == Entries(items)
           m == Len(e)
           rest == Rest(items, fee, share)
           total == groupSubtotal(items)
           lost(k) == Lost(items, fee, share, k)
           losses == [k \in 1 .. m |-> lost(k)]
<1>2. total = groupTotalPaise(items, 0)
  BY <1>1, SubtotalsAddUp
<1>3. /\ total \in Nat \ {0} /\ m \in Nat \ {0} /\ rest \in Nat /\ fee \in Nat
      /\ Payers = 1 .. m /\ Len(split) = m
  BY <1>1
<1>4. (\A k \in 1 .. m : lost(k) \in 0 .. total) /\ SumOf(losses) = rest * total
  BY <1>1, <1>3, RestIsWhatIsLost
<1>5. ASSUME NEW k \in Payers
      PROVE  split[k].deliverySharePaise * total - split[k].subtotalPaise * fee
               = (IF k = l THEN rest * total ELSE 0) - lost(k)
  <2> DEFINE s == share[Buyer(k)]
             b == Subtotal(items, Buyer(k))
             d == split[k].deliverySharePaise
  <2>1. /\ s \in Nat /\ b \in Nat /\ split[k].subtotalPaise = b
        /\ d = s + IF k = l THEN rest ELSE 0
    BY <1>1
  <2>2. lost(k) = b * fee - s * total
    BY <1>1 DEF Lost
  <2> HIDE DEF s, b, d, lost, rest, total
  <2>3. CASE k = l
    <3>1. d = s + rest
      BY <2>1, <2>3
    <3>2. (s + rest) * total = s * total + rest * total
      BY <1>3, <2>1
    <3>3. s * total \in Int /\ rest * total \in Int /\ b * fee \in Int
      BY <1>3, <2>1
    <3>4. d * total = s * total + rest * total
      BY <3>1, <3>2
    <3> HIDE DEF e, m, losses
    <3>5. d * total - b * fee = rest * total - lost(k)
      BY <2>2, <3>3, <3>4
    <3> QED BY <2>1, <2>3, <3>5 DEF d
  <2>4. CASE k # l
    <3>1. d = s
      BY <2>1, <2>4
    <3>2. s * total \in Int /\ b * fee \in Int
      BY <1>3, <2>1
    <3>3. d * total - b * fee = 0 - lost(k)
      BY <2>2, <3>1, <3>2
    <3> QED BY <2>1, <2>4, <3>3 DEF d
  <2> QED BY <2>3, <2>4
<1>6. i = l
  <2>1. lost(i) >= 0 /\ lost(i) \in Int
    BY <1>3, <1>4
  <2> HIDE DEF lost, rest, total
  <2> QED BY <1>2, <1>5, <2>1
<1>7. rest * total - lost(l) <= (m - 1) * total
  <2>1. l \in 1 .. m /\ losses \in [1 .. m -> Int] /\ losses[l] = lost(l)
    <3> HIDE DEF lost, total, m
    <3> QED BY <1>3, <1>4
  <2>2. \A k \in 1 .. m : losses[k] <= total
    <3> HIDE DEF lost, total, m
    <3> QED BY <1>3, <1>4
  <2> m \in Nat /\ total \in Int
    BY <1>3
  <2> HIDE DEF losses, total, m, rest, lost
  <2>3. SumOf(losses) - losses[l] <= (m - 1) * total
    BY <2>1, <2>2, SumOfOthers
  <2> QED BY <1>4, <2>1, <2>3
<1>8. split[i].deliverySharePaise * total - split[i].subtotalPaise * fee
        <= (m - 1) * total
  <2> HIDE DEF lost, rest, total, m
  <2> QED BY <1>5, <1>6, <1>7
<1> QED BY <1>1, <1>2, <1>3, <1>6, <1>8

(* The totals the coordinator is shown and the members are billed add up   *)
(* to the cart and the fee, to the paisa, whatever is in the cart           *)
(* (splitCost, the remainder line).                                        *)
THEOREM SharesSumToTotal == Spec => []SumsToTotal
BY SplitInvariance, SplitsSumUp, PTL

(* splitCost returns one record for everyone who ordered, nobody else, and *)
(* no delivery share is negative: neither a floor nor the remainder.       *)
THEOREM BuyersBilledOnce == Spec => []EveryBuyerOnce
BY SplitInvariance, SplitsBillOnce, PTL

(* The remainder goes to one who bought most, and is at most one paisa for *)
(* each of the others: no cart makes rounding cost anybody more.           *)
THEOREM LargestPaysMore == Spec => []OnlyLargestPaysMore
BY SplitInvariance, SplitsAreFair, PTL

(* An exact share rounded down lies between nothing and the whole fee. *)
LEMMA FloorIsAShare ==
  ASSUME NEW sub \in Nat, NEW total \in Nat, total > 0, sub <= total,
         NEW deliveryFee \in Nat
  PROVE  /\ (sub * deliveryFee) \div total \in 0 .. deliveryFee
         /\ (sub * deliveryFee) \div total \in FloorShares(sub, total, deliveryFee)
<1> DEFINE x == sub * deliveryFee
           q == x \div total
           r == x % total
<1>1. x \in Nat /\ x <= total * deliveryFee
  OBVIOUS
<1>2. q \in FloorShares(sub, total, deliveryFee)
  BY DEF FloorShares
<1> HIDE DEF x
<1>3. q \in Int /\ r \in 0 .. total - 1 /\ x = total * q + r
  BY <1>1
<1> HIDE DEF q, r
<1>4. q >= 0
  <2>1. q <= -1 => total * q <= -total
    BY <1>3
  <2> QED BY <1>1, <1>3, <2>1
<1>5. q <= deliveryFee
  <2>1. q >= deliveryFee + 1 => total * q >= total * deliveryFee + total
    BY <1>3
  <2>2. total * q \in Int /\ total * deliveryFee \in Int
    BY <1>3
  <2> QED BY <1>1, <1>3, <2>1, <2>2
<1> QED BY <1>2, <1>3, <1>4, <1>5 DEF q, x

(* splitCost answers every cart that has items in it, whatever the fee: no *)
(* invariant of a split holds because there is none.                       *)
THEOREM EveryCartSplits ==
  ASSUME NEW n \in Nat \ {0}, NEW lines \in [1 .. n -> Item], NEW deliveryFee \in Nat
  PROVE  splitCost(lines, deliveryFee) # {} /\ NoSplit \notin splitCost(lines, deliveryFee)
<1> DEFINE e == Entries(lines)
           m == Len(e)
           total == groupSubtotal(lines)
           buyers == ToSet(e)
           share == [u \in buyers |-> (Subtotal(lines, u) * deliveryFee) \div total]
<1>1. NamesBuyers(e, lines, n) /\ n \in Nat /\ 1 \in 1 .. n
  BY EntriesAreBuyers
<1> HIDE DEF e
<1>2. m \in Nat /\ DOMAIN e = 1 .. m /\ m # 0
  BY <1>1 DEF NamesBuyers
<1>3. total \in Nat /\ total > 0 /\ total = groupTotalPaise(lines, 0)
  <2>1. total = groupTotalPaise(lines, 0)
    BY <1>1, SubtotalsAddUp
  <2> DEFINE u == lines[1].userId
  <2>2. /\ Subtotal(lines, u) > 0 /\ Subtotal(lines, u) \in Nat
        /\ Subtotal(lines, u) <= groupTotalPaise(lines, 0)
        /\ groupTotalPaise(lines, 0) \in Nat
    BY <1>1, SubtotalsArePositive
  <2> HIDE DEF u, total
  <2> QED BY <2>1, <2>2
<1> HIDE DEF total
<1>4. ASSUME NEW u \in buyers
      PROVE  /\ share[u] \in -1 .. deliveryFee
             /\ share[u] \in FloorShares(Subtotal(lines, u), total, deliveryFee)
  <2>1. Subtotal(lines, u) \in Nat /\ Subtotal(lines, u) <= total
    BY <1>1, <1>3, SubtotalsArePositive
  <2>2. share[u] = (Subtotal(lines, u) * deliveryFee) \div total
    BY <1>4
  <2> HIDE DEF share
  <2>3. /\ share[u] \in 0 .. deliveryFee
        /\ share[u] \in FloorShares(Subtotal(lines, u), total, deliveryFee)
    <3> DEFINE sub == Subtotal(lines, u)
               floor == (sub * deliveryFee) \div total
    <3>1. sub \in Nat /\ sub <= total /\ total \in Nat /\ total > 0
      BY <1>3, <2>1
    <3> HIDE DEF sub
    <3>2. floor \in 0 .. deliveryFee /\ floor \in FloorShares(sub, total, deliveryFee)
      BY <3>1, FloorIsAShare
    <3>3. share[u] = floor
      BY <2>2 DEF sub
    <3> HIDE DEF floor
    <3> QED BY <3>2, <3>3 DEF sub
  <2> QED BY <2>3
<1>5. share \in RoundedShares(lines, deliveryFee)
  <2>1. share \in [buyers -> -1 .. deliveryFee]
    BY <1>4
  <2>2. \A u, v \in buyers :
          Subtotal(lines, u) = Subtotal(lines, v) => share[u] = share[v]
    OBVIOUS
  <2> HIDE DEF share
  <2> QED BY <1>4, <2>1, <2>2 DEF RoundedShares, e, total
<1>6. splitCost(lines, deliveryFee) # {}
  <2> HIDE DEF share
  <2> QED BY <1>3, <1>5 DEF splitCost, total
<1>7. ASSUME NEW s \in splitCost(lines, deliveryFee) PROVE s # NoSplit
  <2>1. DOMAIN s = DOMAIN e
    BY <1>3 DEF splitCost, e, total
  <2> QED BY <1>2, <2>1 DEF NoSplit
<1> QED BY <1>6, <1>7

-----------------------------------------------------------------------------
(* Scores *)

(* Division without a remainder. *)
LEMMA ExactDivision ==
  ASSUME NEW a \in Nat, NEW d \in Nat \ {0}, a % d = 0
  PROVE  a \div d \in Nat /\ a = d * (a \div d)
<1> DEFINE q == a \div d
<1>1. q \in Int /\ a = d * q + (a % d)
  OBVIOUS
<1>2. a = d * q
  <2>1. d * q \in Int
    BY <1>1
  <2> HIDE DEF q
  <2> QED BY <1>1, <2>1
<1> HIDE DEF q
<1>3. q >= 0
  <2>1. q <= -1 => d * q <= -d
    BY <1>1
  <2> QED BY <1>1, <1>2, <2>1
<1> QED BY <1>1, <1>2, <1>3 DEF q

(* n numbers up to a bound come to at most n times the bound. *)
LEMMA SumBounded ==
  ASSUME NEW n \in Nat, NEW a \in [1 .. n -> Int], NEW bound \in Int,
         \A i \in 1 .. n : 0 <= a[i] /\ a[i] <= bound
  PROVE  0 <= SumOf(a) /\ SumOf(a) <= n * bound
<1> DEFINE none == [i \in 1 .. n |-> 0]
           full == [i \in 1 .. n |-> bound]
<1>1. none \in [1 .. n -> Int] /\ full \in [1 .. n -> Int]
  OBVIOUS
<1>2. \A i \in 1 .. n : none[i] = 0
  OBVIOUS
<1>3. \A i \in 1 .. n : none[i] <= a[i]
  OBVIOUS
<1>4. \A i \in 1 .. n : a[i] <= full[i]
  OBVIOUS
<1>5. SumOf(full) = n * bound
  BY SumConstant
<1> HIDE DEF none, full
<1>6. SumOf(none) = 0 /\ SumOf(none) <= SumOf(a) /\ SumOf(a) <= SumOf(full)
  BY <1>1, <1>2, <1>3, <1>4, SumNone, SumMonotone
<1> QED BY <1>5, <1>6

(* The members' scores come to at most 100 each. *)
LEMMA ScoresSum ==
  ASSUME NEW s \in Seq(0 .. 100), s # <<>>
  PROVE  /\ Len(s) \in Nat \ {0}
         /\ SumOf(s) \in Nat /\ SumOf(s) <= 100 * Len(s)
<1> DEFINE Score == 0 .. 100
<1>0. \A x \in Score : x \in Int /\ 0 <= x /\ x <= 100
  OBVIOUS
<1>1. s \in Seq(Score)
  OBVIOUS
<1> HIDE DEF Score
<1>2. Len(s) \in Nat /\ Len(s) # 0 /\ DOMAIN s = 1 .. Len(s) /\ s = [i \in 1 .. Len(s) |-> s[i]]
  BY <1>1
<1>3. \A i \in 1 .. Len(s) : s[i] \in Int /\ 0 <= s[i] /\ s[i] <= 100
  BY <1>0, <1>1
<1>4. SumOf(s) \in Int /\ 0 <= SumOf(s) /\ SumOf(s) <= Len(s) * 100
  <2>1. s \in [1 .. Len(s) -> Int]
    BY <1>2, <1>3
  <2>2. \A i \in 1 .. Len(s) : 0 <= s[i] /\ s[i] <= 100
    BY <1>3
  <2> DEFINE n == Len(s)
  <2>3. n \in Nat
    BY <1>2
  <2> HIDE DEF n
  <2>4. SumOf(s) \in Int
    BY <2>1, <2>3, SumIsInt DEF n
  <2>5. 0 <= SumOf(s) /\ SumOf(s) <= n * 100
    <3>1. s \in [1 .. n -> Int] /\ \A i \in 1 .. n : 0 <= s[i] /\ s[i] <= 100
      BY <2>1, <2>2 DEF n
    <3>2. 100 \in Int
      OBVIOUS
    <3> QED BY <2>3, <3>1, <3>2, SumBounded
  <2> QED BY <2>4, <2>5 DEF n
<1> QED BY <1>2, <1>4

(* The mean score is between 0 and 100, so the term is on the scale. *)
LEMMA ReliabilityOnScale ==
  ASSUME NEW row \in Rows
  PROVE  groupReliability(row) \in 0 .. Scale
<1> DEFINE list == row.scores
           len == Len(list)
           unit == Scale \div (100 * len)
<1>1. list \in ScoreLists /\ Scale \in Nat \ {0}
  BY ScaleAssumption DEF Rows
<1>2. list \in Seq(0 .. 100)
  BY <1>1, MatchingAssumption
<1>3. CASE list = <<>>
  BY <1>1, <1>3 DEF groupReliability
<1>4. CASE list # <<>>
  <2>1. len \in Nat \ {0} /\ SumOf(list) \in Nat /\ SumOf(list) <= 100 * len
    <3> HIDE DEF list
    <3> QED BY <1>2, <1>4, ScoresSum
  <2>2. Scale % (100 * len) = 0
    BY <1>1, <1>4, ScaleAssumption
  <2> HIDE DEF list, len
  <2>3. unit \in Nat /\ Scale = (100 * len) * unit
    <3>1. 100 * len \in Nat \ {0}
      BY <2>1
    <3> QED BY <1>1, <2>2, <3>1, ExactDivision
  <2>5. SumOf(list) * unit \in 0 .. Scale
    <3> DEFINE sum == SumOf(list)
               d == 100 * len
    <3>1. sum \in Nat /\ d \in Nat /\ sum <= d
      BY <2>1
    <3>2. Scale = d * unit /\ unit \in Nat
      BY <2>3
    <3> HIDE DEF sum, d, unit
    <3>3. sum * unit \in Nat /\ sum * unit <= d * unit
      BY <3>1, <3>2
    <3> QED BY <3>2, <3>3 DEF sum
  <2>6. groupReliability(row) = SumOf(list) * unit
    BY <1>4 DEF groupReliability, list, len
  <2> QED BY <2>5, <2>6
<1> QED BY <1>3, <1>4

(* One paisa and one minute are worth something. *)
LEMMA UnitsArePositive ==
  /\ Scale \in Nat \ {0} /\ Threshold \in Nat \ {0}
  /\ Scale \div 30 \in Nat \ {0} /\ Scale = 30 * (Scale \div 30)
  /\ Scale \div Threshold \in Nat \ {0} /\ Scale = Threshold * (Scale \div Threshold)
<1>1. /\ Scale \in Nat \ {0} /\ Threshold \in Nat \ {0}
      /\ Scale % 30 = 0 /\ Scale % Threshold = 0
  BY ScaleAssumption, MatchingAssumption DEF FRESHNESS_WINDOW_MINUTES
<1>2. Scale \div 30 \in Nat /\ Scale = 30 * (Scale \div 30)
  BY <1>1, ExactDivision
<1>3. Scale \div Threshold \in Nat /\ Scale = Threshold * (Scale \div Threshold)
  BY <1>1, ExactDivision
<1>4. Scale \div Threshold # 0
  <2>1. CASE Scale \div Threshold = 0
    <3>1. Threshold * 0 = 0
      BY <1>1
    <3> QED BY <1>1, <1>3, <2>1, <3>1
  <2> QED BY <2>1
<1> QED BY <1>1, <1>2, <1>3, <1>4

(* The cart's term is capped, and reaches the cap only with the minimum. *)
LEMMA CartOnScale ==
  ASSUME NEW row \in Rows
  PROVE  /\ existingCartValue(row) \in 0 .. Scale
         /\ row.cart < Threshold => existingCartValue(row) < Scale
<1> DEFINE unit == Scale \div Threshold
<1>1. row.cart \in Nat
  BY MatchingAssumption DEF Rows
<1>2. /\ Scale \in Nat \ {0} /\ Threshold \in Nat \ {0} /\ unit \in Nat \ {0}
      /\ Scale = Threshold * unit
  BY UnitsArePositive
<1>3. existingCartValue(row) = IF row.cart >= Threshold THEN Scale ELSE row.cart * unit
  BY DEF existingCartValue
<1> HIDE DEF unit
<1>4. row.cart < Threshold => row.cart * unit \in Nat /\ row.cart * unit < Threshold * unit
  BY <1>1, <1>2
<1> QED BY <1>1, <1>2, <1>3, <1>4

(* Each of the five terms is between 0 and Scale. *)
LEMMA ScoreOnScale ==
  ASSUME NEW row \in Rows, NEW req
  PROVE  totalScore(row, req) \in 0 .. 5 * Scale
<1>1. Scale \in Nat \ {0} /\ Scale \div 30 \in Nat \ {0} /\ Scale = 30 * (Scale \div 30)
  BY UnitsArePositive
<1>2. row.age \in Nat
  BY MatchingAssumption DEF Rows
<1>3. deliveryTimeSimilarity(row) \in 0 .. Scale
  <2> DEFINE unit == Scale \div 30
  <2>1. deliveryTimeSimilarity(row) = IF row.age >= 30 THEN 0 ELSE (30 - row.age) * unit
    BY DEF deliveryTimeSimilarity, FRESHNESS_WINDOW_MINUTES
  <2>2. unit \in Nat /\ Scale = 30 * unit
    BY <1>1
  <2> HIDE DEF unit
  <2>3. row.age < 30 => (30 - row.age) * unit \in 0 .. Scale
    <3>1. ASSUME NEW x \in 0 .. 30 PROVE x * unit \in Nat /\ x * unit <= 30 * unit
      BY <2>2
    <3> QED BY <1>2, <2>2, <3>1
  <2> QED BY <1>1, <1>2, <2>1, <2>3
<1>4. locationProximity(row, req) \in 0 .. Scale /\ storeCompatibility(row, req) \in 0 .. Scale
  BY <1>1 DEF locationProximity, storeCompatibility
<1>5. existingCartValue(row) \in 0 .. Scale /\ groupReliability(row) \in 0 .. Scale
  BY CartOnScale, ReliabilityOnScale
<1> QED BY <1>1, <1>3, <1>4, <1>5 DEF totalScore

(* What is nowhere worse and somewhere better scores higher. *)
LEMMA BetterScoresHigher ==
  ASSUME NEW row \in Rows, NEW other \in Rows, Better(row, other)
  PROVE  totalScore(row, request) > totalScore(other, request)
<1> DEFINE minute == Scale \div 30
           paisa == Scale \div Threshold
<1>1. /\ Scale \in Nat \ {0} /\ Threshold \in Nat \ {0}
      /\ minute \in Nat \ {0} /\ paisa \in Nat \ {0} /\ Scale = Threshold * paisa
  BY UnitsArePositive
<1>2. /\ row.age \in Nat /\ other.age \in Nat /\ row.cart \in Nat /\ other.cart \in Nat
  BY MatchingAssumption DEF Rows
<1>3. /\ locationProximity(row, request) \in Int /\ locationProximity(other, request) \in Int
      /\ locationProximity(row, request) >= locationProximity(other, request)
      /\ row.hostel = request.hostel /\ other.hostel # request.hostel
           => locationProximity(row, request) > locationProximity(other, request)
  BY <1>1 DEF locationProximity, Better
<1>4. /\ storeCompatibility(row, request) \in Int /\ storeCompatibility(other, request) \in Int
      /\ storeCompatibility(row, request) >= storeCompatibility(other, request)
      /\ row.store = request.store /\ other.store # request.store
           => storeCompatibility(row, request) > storeCompatibility(other, request)
  BY <1>1 DEF storeCompatibility, Better
<1>5. /\ deliveryTimeSimilarity(row) \in Int /\ deliveryTimeSimilarity(other) \in Int
      /\ deliveryTimeSimilarity(row) >= deliveryTimeSimilarity(other)
      /\ row.age < other.age /\ row.age < 30
           => deliveryTimeSimilarity(row) > deliveryTimeSimilarity(other)
  <2>1. \A r \in {row, other} :
          deliveryTimeSimilarity(r) = IF r.age >= 30 THEN 0 ELSE (30 - r.age) * minute
    BY DEF deliveryTimeSimilarity, FRESHNESS_WINDOW_MINUTES
  <2>2. row.age <= other.age
    BY DEF Better
  <2> HIDE DEF minute
  <2>3. ASSUME NEW x \in 1 .. 30
        PROVE  x * minute \in Nat /\ x * minute > 0
    BY <1>1
  <2>4. ASSUME NEW x \in 1 .. 30, NEW y \in 1 .. 30, x < y
        PROVE  x * minute < y * minute
    BY <1>1, <2>4
  <2>5. CASE other.age < 30
    <3>1. 30 - row.age \in 1 .. 30 /\ 30 - other.age \in 1 .. 30
      BY <1>2, <2>2, <2>5
    <3>2. row.age # other.age => (30 - other.age) * minute < (30 - row.age) * minute
      BY <1>2, <2>2, <2>4, <3>1
    <3>3. (30 - row.age) * minute \in Nat /\ (30 - other.age) * minute \in Nat
      BY <2>3, <3>1
    <3>4. /\ deliveryTimeSimilarity(row) = (30 - row.age) * minute
          /\ deliveryTimeSimilarity(other) = (30 - other.age) * minute
      BY <1>2, <2>1, <2>2, <2>5
    <3> QED BY <1>2, <2>2, <3>2, <3>3, <3>4
  <2>6. CASE other.age >= 30
    <3>1. deliveryTimeSimilarity(other) = 0
      BY <2>1, <2>6
    <3>2. row.age < 30 => 30 - row.age \in 1 .. 30
      BY <1>2
    <3>3. row.age < 30 => (30 - row.age) * minute \in Nat /\ (30 - row.age) * minute > 0
      BY <2>3, <3>2
    <3>4. deliveryTimeSimilarity(row) = IF row.age >= 30 THEN 0 ELSE (30 - row.age) * minute
      BY <2>1
    <3> QED BY <1>2, <3>1, <3>3, <3>4
  <2> QED BY <1>2, <2>5, <2>6
<1>6. /\ existingCartValue(row) \in Int /\ existingCartValue(other) \in Int
      /\ existingCartValue(row) >= existingCartValue(other)
      /\ row.cart > other.cart /\ other.cart < Threshold
           => existingCartValue(row) > existingCartValue(other)
  <2>1. \A r \in {row, other} :
          existingCartValue(r) = IF r.cart >= Threshold THEN Scale ELSE r.cart * paisa
    BY DEF existingCartValue
  <2>2. row.cart >= other.cart
    BY DEF Better
  <2>3. /\ existingCartValue(row) \in 0 .. Scale /\ existingCartValue(other) \in 0 .. Scale
        /\ other.cart < Threshold => existingCartValue(other) < Scale
    BY CartOnScale
  <2> HIDE DEF paisa
  <2>4. CASE row.cart >= Threshold
    BY <1>1, <2>1, <2>3, <2>4
  <2>5. CASE row.cart < Threshold
    <3>1. /\ existingCartValue(row) = row.cart * paisa
          /\ existingCartValue(other) = other.cart * paisa
      BY <1>1, <1>2, <2>1, <2>2, <2>5
    <3>2. other.cart < row.cart => other.cart * paisa < row.cart * paisa
      BY <1>1, <1>2
    <3> QED BY <1>1, <1>2, <2>2, <2>3, <3>1, <3>2
  <2> QED BY <1>1, <1>2, <2>4, <2>5
<1>7. /\ groupReliability(row) \in Int /\ groupReliability(other) \in Int
      /\ groupReliability(row) >= groupReliability(other)
  BY <1>1, ReliabilityOnScale DEF Better
<1>8. \/ locationProximity(row, request) > locationProximity(other, request)
      \/ storeCompatibility(row, request) > storeCompatibility(other, request)
      \/ deliveryTimeSimilarity(row) > deliveryTimeSimilarity(other)
      \/ existingCartValue(row) > existingCartValue(other)
      \/ groupReliability(row) > groupReliability(other)
  BY <1>3, <1>4, <1>5, <1>6 DEF Better, FRESHNESS_WINDOW_MINUTES
<1> QED BY <1>3, <1>4, <1>5, <1>6, <1>7, <1>8 DEF totalScore

-----------------------------------------------------------------------------
(* Rankings *)

(* Rows and candidates among them, which the lemmas about ranking share. *)
Ranking(rows, among) ==
  \E n \in Nat : rows \in [1 .. n -> Rows] /\ among \subseteq 1 .. n

(* Sets of candidates are finite, and a part of one is smaller. *)
LEMMA RankingIsFinite ==
  ASSUME NEW rows, NEW among, Ranking(rows, among), NEW S, S \subseteq among
  PROVE  /\ IsFiniteSet(S) /\ Cardinality(S) \in Nat
         /\ \A T \in SUBSET S : /\ Cardinality(T) <= Cardinality(S)
                                /\ Cardinality(T) = Cardinality(S) => T = S
<1>1. PICK n \in Nat : among \subseteq 1 .. n
  BY DEF Ranking
<1>2. IsFiniteSet(1 .. n)
  BY FS_Interval
<1>3. S \in SUBSET (1 .. n)
  BY <1>1
<1>4. IsFiniteSet(S)
  BY <1>2, <1>3, FS_Subset
<1>5. Cardinality(S) \in Nat
  BY <1>4, FS_CardinalityType
<1>6. \A T \in SUBSET S : /\ Cardinality(T) <= Cardinality(S)
                          /\ Cardinality(T) = Cardinality(S) => T = S
  BY <1>4, FS_Subset
<1> QED BY <1>4, <1>5, <1>6

(* Before is a strict total order. *)
LEMMA BeforeIsOrder ==
  ASSUME NEW rows, NEW among, Ranking(rows, among), NEW req
  PROVE  /\ \A i \in among : ~Before(rows, req, i, i)
         /\ \A i, j \in among : i # j => Before(rows, req, i, j) \/ Before(rows, req, j, i)
         /\ \A i, j, k \in among :
              Before(rows, req, i, j) /\ Before(rows, req, j, k) => Before(rows, req, i, k)
<1> DEFINE score(i) == totalScore(rows[i], req)
<1>1. \A i \in among : i \in Nat /\ rows[i] \in Rows
  BY DEF Ranking
<1>2. Scale \in Nat
  BY UnitsArePositive
<1>3. \A i \in among : score(i) \in Int
  BY <1>1, <1>2, ScoreOnScale
<1>4. \A i, j : Before(rows, req, i, j)
                  <=> score(i) > score(j) \/ (score(i) = score(j) /\ i < j)
  BY DEF Before
<1> HIDE DEF score
<1>5. \A i \in among : ~Before(rows, req, i, i)
  BY <1>1, <1>3, <1>4
<1>6. \A i, j \in among : i # j => Before(rows, req, i, j) \/ Before(rows, req, j, i)
  BY <1>1, <1>3, <1>4
<1>7. ASSUME NEW i \in among, NEW j \in among, NEW k \in among,
             Before(rows, req, i, j), Before(rows, req, j, k)
      PROVE  Before(rows, req, i, k)
  BY <1>1, <1>3, <1>4, <1>7
<1> QED BY <1>5, <1>6, <1>7

(* Who stands before another has the lower place. *)
LEMMA PlacesFollowOrder ==
  ASSUME NEW rows, NEW among, Ranking(rows, among), NEW req,
         NEW i \in among, NEW j \in among, Before(rows, req, i, j)
  PROVE  Place(rows, among, req, i) < Place(rows, among, req, j)
<1> DEFINE A == {x \in among : Before(rows, req, x, i)}
           B == {x \in among : Before(rows, req, x, j)}
<1>1. A \subseteq B
  BY BeforeIsOrder
<1>2. i \in B /\ i \notin A
  BY BeforeIsOrder
<1>3. Cardinality(A) \in Nat /\ Cardinality(B) \in Nat
  <2>1. A \subseteq among /\ B \subseteq among
    OBVIOUS
  <2> HIDE DEF A, B
  <2> QED BY <2>1, RankingIsFinite
<1>4. Cardinality(A) <= Cardinality(B) /\ Cardinality(A) # Cardinality(B)
  <2>1. B \subseteq among /\ A \in SUBSET B
    BY <1>1
  <2> HIDE DEF A, B
  <2> QED BY <1>2, <2>1, RankingIsFinite
<1>5. Place(rows, among, req, i) = 1 + Cardinality(A)
      /\ Place(rows, among, req, j) = 1 + Cardinality(B)
  BY DEF Place
<1> HIDE DEF A, B
<1> QED BY <1>3, <1>4, <1>5

(* The places are 1, 2, ... and each is taken once. *)
LEMMA PlacesAreTakenOnce ==
  ASSUME NEW rows, NEW among, Ranking(rows, among), NEW req
  PROVE  /\ Cardinality(among) \in Nat
         /\ \A i \in among : Place(rows, among, req, i) \in 1 .. Cardinality(among)
         /\ \A i, j \in among :
              Place(rows, among, req, i) = Place(rows, among, req, j) => i = j
         /\ \A k \in 1 .. Cardinality(among) :
              \E i \in among : Place(rows, among, req, i) = k
<1> DEFINE m == Cardinality(among)
           place(i) == Place(rows, among, req, i)
           p == [i \in among |-> place(i)]
<1>1. IsFiniteSet(among) /\ m \in Nat
  BY RankingIsFinite
<1>2. ASSUME NEW i \in among PROVE place(i) \in 1 .. m
  <2> DEFINE A == {x \in among : Before(rows, req, x, i)}
  <2>1. A \in SUBSET among /\ i \notin A
    BY BeforeIsOrder
  <2>2. place(i) = 1 + Cardinality(A)
    BY DEF Place
  <2> HIDE DEF A
  <2>3. Cardinality(A) \in Nat /\ Cardinality(A) <= m /\ Cardinality(A) # m
    <3>1. Cardinality(A) \in Nat
      BY <2>1, RankingIsFinite
    <3>2. Cardinality(A) <= m /\ (Cardinality(A) = m => A = among)
      BY <2>1, RankingIsFinite
    <3> QED BY <2>1, <3>1, <3>2
  <2> HIDE DEF m, place
  <2> QED BY <1>1, <2>2, <2>3
<1>3. \A i, j \in among : place(i) = place(j) => i = j
  <2> SUFFICES ASSUME NEW i \in among, NEW j \in among, place(i) = place(j), i # j
               PROVE  FALSE
    OBVIOUS
  <2>1. place(i) \in Nat /\ place(j) \in Nat
    BY <1>1, <1>2
  <2>2. Before(rows, req, i, j) \/ Before(rows, req, j, i)
    BY BeforeIsOrder
  <2>3. place(i) < place(j) \/ place(j) < place(i)
    BY <2>2, PlacesFollowOrder
  <2> HIDE DEF place
  <2> QED BY <2>1, <2>3
<1>4. p \in Injection(among, 1 .. m)
  <2>1. p \in [among -> 1 .. m]
    BY <1>2
  <2>2. \A i, j \in among : p[i] = p[j] => i = j
    BY <1>3
  <2> HIDE DEF p
  <2> QED BY <2>1, <2>2 DEF Injection, IsInjective
<1>5. IsFiniteSet(1 .. m) /\ Cardinality(1 .. m) = m
  BY <1>1, FS_Interval
<1>6. p \in Surjection(among, 1 .. m)
  <2> HIDE DEF p
  <2> QED BY <1>4, <1>5, FS_Injection
<1>7. \A k \in 1 .. m : \E i \in among : place(i) = k
  <2>1. \A k \in 1 .. m : \E i \in among : p[i] = k
    <3> HIDE DEF p
    <3> QED BY <1>6 DEF Surjection
  <2> QED BY <2>1
<1> QED BY <1>1, <1>2, <1>3, <1>7

(* The k-th of a ranking is the row whose place is k. *)
LEMMA RankedByPlace ==
  ASSUME NEW rows, NEW among, Ranking(rows, among), NEW req,
         NEW k \in 1 .. Cardinality(among)
  PROVE  \E i \in among : /\ Place(rows, among, req, i) = k
                          /\ findBestMatch(rows, among, req)[k] = rows[i]
<1> DEFINE i == CHOOSE x \in among : Place(rows, among, req, x) = k
<1>1. \E x \in among : Place(rows, among, req, x) = k
  BY PlacesAreTakenOnce
<1>2. i \in among /\ Place(rows, among, req, i) = k
  BY <1>1
<1>3. findBestMatch(rows, among, req)[k] = rows[i]
  BY DEF findBestMatch
<1> QED BY <1>2, <1>3

(* A row stands where its place says. *)
LEMMA PlaceIsRank ==
  ASSUME NEW rows, NEW among, Ranking(rows, among), NEW req, NEW i \in among
  PROVE  findBestMatch(rows, among, req)[Place(rows, among, req, i)] = rows[i]
<1> DEFINE k == Place(rows, among, req, i)
<1>1. k \in 1 .. Cardinality(among)
  BY PlacesAreTakenOnce
<1>2. PICK j \in among : /\ Place(rows, among, req, j) = k
                         /\ findBestMatch(rows, among, req)[k] = rows[j]
  <2> HIDE DEF k
  <2> QED BY <1>1, RankedByPlace
<1>3. j = i
  BY <1>2, PlacesAreTakenOnce
<1> QED BY <1>2, <1>3

(* The rows' carts and fees are whole numbers of paise. *)
LEMMA RowsArePaise ==
  ASSUME NEW rows, NEW n \in Nat, rows \in [1 .. n -> Rows], NEW i \in 1 .. n
  PROVE  rows[i].cart \in Int /\ rows[i].fee \in Int
<1>1. rows[i] \in Rows
  OBVIOUS
<1>2. rows[i].cart \in Carts /\ rows[i].fee \in {0} \cup GroupFees
  BY <1>1 DEF Rows
<1>3. Carts \subseteq Nat /\ GroupFees \subseteq Nat
  BY MatchingAssumption
<1>4. rows[i].cart \in Nat
  BY <1>2, <1>3, Zenon
<1>5. rows[i].fee = 0 \/ rows[i].fee \in Nat
  BY <1>2, <1>3, Zenon
<1> QED BY <1>4, <1>5

(* What the map adds up, over the rows and over the ranking. *)
PendingAmong(rows, among) ==
  [i \in DOMAIN rows |-> IF i \in among THEN Pending(rows[i]) ELSE 0]
PendingRanked(rows, among, req) ==
  [k \in 1 .. Cardinality(among) |-> Pending(findBestMatch(rows, among, req)[k])]

(* What is pending in the candidates, in either order. *)
LEMMA RankingKeepsSum ==
  ASSUME NEW rows, NEW among, Ranking(rows, among), NEW req
  PROVE  SumOf(PendingAmong(rows, among)) = SumOf(PendingRanked(rows, among, req))
<1>1. PICK n \in Nat : rows \in [1 .. n -> Rows] /\ among \subseteq 1 .. n
  BY DEF Ranking
<1> DEFINE m == Cardinality(among)
           place(i) == Place(rows, among, req, i)
           best == findBestMatch(rows, among, req)
           t == [i \in 1 .. n |-> [k \in 1 .. m |->
                   IF i \in among /\ place(i) = k THEN Pending(rows[i]) ELSE 0]]
<1>2. /\ m \in Nat
      /\ \A i \in among : place(i) \in 1 .. m
      /\ \A i, j \in among : place(i) = place(j) => i = j
  BY PlacesAreTakenOnce
<1>3. \A i \in 1 .. n : Pending(rows[i]) \in Int
  BY <1>1, RowsArePaise DEF Pending
<1>4. ASSUME NEW k \in 1 .. m
      PROVE  \E i \in among : place(i) = k /\ best[k] = rows[i]
  <2> HIDE DEF t
  <2> QED BY RankedByPlace
<1> HIDE DEF m, place, best
<1>5. t \in [1 .. n -> [1 .. m -> Int]]
  BY <1>3
<1>6. ASSUME NEW i \in 1 .. n
      PROVE  SumOf(t[i]) = IF i \in among THEN Pending(rows[i]) ELSE 0
  <2>1. t[i] \in [1 .. m -> Int]
    BY <1>5
  <2>2. CASE i \in among
    <3>1. t[i][place(i)] = Pending(rows[i]) /\ place(i) \in 1 .. m
      BY <1>2, <2>2
    <3>2. \A k \in 1 .. m : k # place(i) => t[i][k] = 0
      OBVIOUS
    <3> DEFINE a == t[i]
               l == place(i)
    <3>3. SumOf(a) = a[l]
      <4>1. a \in [1 .. m -> Int] /\ l \in 1 .. m /\ \A k \in 1 .. m : k # l => a[k] = 0
        BY <2>1, <3>1, <3>2
      <4> HIDE DEF a, l
      <4> QED BY <1>2, <4>1, SumSingle
    <3> QED BY <2>2, <3>1, <3>3
  <2>3. CASE i \notin among
    <3>1. \A k \in 1 .. m : t[i][k] = 0
      BY <2>3
    <3> DEFINE a == t[i]
    <3>2. SumOf(a) = 0
      <4>1. a \in [1 .. m -> Int] /\ \A k \in 1 .. m : a[k] = 0
        BY <2>1, <3>1
      <4> HIDE DEF a
      <4> QED BY <1>2, <4>1, SumNone
    <3> QED BY <2>3, <3>2
  <2> QED BY <2>2, <2>3
<1>7. ASSUME NEW k \in 1 .. m
      PROVE  SumOf([i \in 1 .. n |-> t[i][k]]) = Pending(best[k])
  <2> DEFINE a == [i \in 1 .. n |-> t[i][k]]
  <2>1. PICK l \in among : place(l) = k /\ best[k] = rows[l]
    BY <1>4
  <2>2. l \in 1 .. n /\ a[l] = Pending(rows[l])
    BY <1>1, <2>1
  <2>3. \A i \in 1 .. n : i # l => a[i] = 0
    BY <1>2, <2>1
  <2>4. a \in [1 .. n -> Int]
    BY <1>5
  <2>5. SumOf(a) = a[l]
    <3> HIDE DEF a
    <3> QED BY <2>2, <2>3, <2>4, SumSingle
  <2> QED BY <2>1, <2>2, <2>5
<1> HIDE DEF t
<1>8. SumOf([k \in 1 .. m |-> SumOf([i \in 1 .. n |-> t[i][k]])])
        = SumOf([i \in 1 .. n |-> SumOf(t[i])])
  BY <1>1, <1>2, <1>5, SumSwap
<1>9. [k \in 1 .. m |-> SumOf([i \in 1 .. n |-> t[i][k]])] = [k \in 1 .. m |-> Pending(best[k])]
  BY <1>7
<1>10. [i \in 1 .. n |-> SumOf(t[i])]
         = [i \in 1 .. n |-> IF i \in among THEN Pending(rows[i]) ELSE 0]
  BY <1>6
<1>11. DOMAIN rows = 1 .. n
  BY <1>1
<1> QED BY <1>8, <1>9, <1>10, <1>11 DEF m, best, PendingAmong, PendingRanked

-----------------------------------------------------------------------------
MatchInv ==
  /\ \E n \in Nat : groups \in [1 .. n -> Rows]
  /\ request.hostel \in Hostels
  /\ \/ heat = NoAnswer
     \/ /\ ranked = [all |-> findBestMatch(groups, DOMAIN groups, request),
                     own |-> findBestMatch(groups, Candidates(groups, request), request)]
        /\ heat = heatmap(groups)

(* Answer answers once, from the rows that are there. *)
LEMMA MatchInvariance == MatchSpec => []MatchInv
<1>1. MatchInit => MatchInv
  BY MatchingAssumption DEF MatchInit, MatchInv, BoundedSeq, SeqOf
<1>2. MatchInv /\ [Answer]_matchVars => MatchInv'
  <2> SUFFICES ASSUME MatchInv, [Answer]_matchVars PROVE MatchInv'
    OBVIOUS
  <2>1. CASE Answer
    BY <2>1 DEF MatchInv, Answer
  <2>2. CASE UNCHANGED matchVars
    BY <2>2 DEF MatchInv, matchVars
  <2> QED BY <2>1, <2>2
<1> QED BY <1>1, <1>2, PTL DEF MatchSpec

(* What a ranking of all rows looks like. *)
LEMMA RankedAll ==
  ASSUME MatchInv, Answered
  PROVE  \E n \in Nat :
           /\ groups \in [1 .. n -> Rows] /\ DOMAIN groups = 1 .. n
           /\ Ranking(groups, 1 .. n) /\ Cardinality(1 .. n) = n
           /\ ranked.all = findBestMatch(groups, 1 .. n, request)
           /\ DOMAIN ranked.all = 1 .. n
<1>1. PICK n \in Nat : groups \in [1 .. n -> Rows]
  BY DEF MatchInv
<1>2. DOMAIN groups = 1 .. n
  BY <1>1
<1>3. Cardinality(1 .. n) = n
  BY FS_Interval
<1>4. ranked.all = findBestMatch(groups, 1 .. n, request)
  BY <1>2 DEF MatchInv, Answered
<1>5. DOMAIN ranked.all = 1 .. n
  BY <1>3, <1>4 DEF findBestMatch
<1> QED BY <1>1, <1>2, <1>3, <1>4, <1>5 DEF Ranking

(* Better rows score higher, so their places are lower. *)
LEMMA RanksBetterFirst == MatchInv => BetterStandsFirst
<1> SUFFICES ASSUME MatchInv, Answered,
                    NEW k \in DOMAIN ranked.all, NEW l \in DOMAIN ranked.all,
                    Better(ranked.all[k], ranked.all[l])
             PROVE  k < l
  BY DEF BetterStandsFirst
<1>1. PICK n \in Nat : /\ groups \in [1 .. n -> Rows]
                       /\ Ranking(groups, 1 .. n) /\ Cardinality(1 .. n) = n
                       /\ ranked.all = findBestMatch(groups, 1 .. n, request)
                       /\ DOMAIN ranked.all = 1 .. n
  BY RankedAll
<1>2. PICK i \in 1 .. n : /\ Place(groups, 1 .. n, request, i) = k
                          /\ ranked.all[k] = groups[i]
  BY <1>1, RankedByPlace
<1>3. PICK j \in 1 .. n : /\ Place(groups, 1 .. n, request, j) = l
                          /\ ranked.all[l] = groups[j]
  BY <1>1, RankedByPlace
<1>4. totalScore(groups[i], request) > totalScore(groups[j], request)
  BY <1>1, <1>2, <1>3, BetterScoresHigher
<1>5. Before(groups, request, i, j)
  BY <1>4 DEF Before
<1> QED BY <1>1, <1>2, <1>3, <1>5, PlacesFollowOrder

(* Rows and ranks match one to one, so equal rows are as many as before. *)
LEMMA RanksEverybody == MatchInv => ScoresOnScale
<1> SUFFICES ASSUME MatchInv, Answered
             PROVE  /\ \A i \in DOMAIN groups :
                         totalScore(groups[i], request) \in 0 .. 5 * Scale
                    /\ \A row \in Rows :
                         Cardinality({i \in DOMAIN groups : groups[i] = row})
                           = Cardinality({k \in DOMAIN ranked.all : ranked.all[k] = row})
  BY DEF ScoresOnScale
<1>1. PICK n \in Nat : /\ groups \in [1 .. n -> Rows] /\ DOMAIN groups = 1 .. n
                       /\ Ranking(groups, 1 .. n) /\ Cardinality(1 .. n) = n
                       /\ ranked.all = findBestMatch(groups, 1 .. n, request)
                       /\ DOMAIN ranked.all = 1 .. n
  BY RankedAll
<1>2. \A i \in DOMAIN groups : totalScore(groups[i], request) \in 0 .. 5 * Scale
  BY <1>1, ScoreOnScale
<1>3. ASSUME NEW row \in Rows
      PROVE  Cardinality({i \in DOMAIN groups : groups[i] = row})
               = Cardinality({k \in DOMAIN ranked.all : ranked.all[k] = row})
  <2> DEFINE I == {i \in 1 .. n : groups[i] = row}
             K == {k \in 1 .. n : ranked.all[k] = row}
             place(i) == Place(groups, 1 .. n, request, i)
             f == [i \in I |-> place(i)]
  <2>1. \A i \in 1 .. n : place(i) \in 1 .. n /\ ranked.all[place(i)] = groups[i]
    BY <1>1, PlacesAreTakenOnce, PlaceIsRank
  <2>2. \A i, j \in 1 .. n : place(i) = place(j) => i = j
    BY <1>1, PlacesAreTakenOnce
  <2>3. \A k \in 1 .. n : \E i \in 1 .. n : place(i) = k /\ ranked.all[k] = groups[i]
    BY <1>1, RankedByPlace
  <2> HIDE DEF place
  <2>4. f \in [I -> K]
    BY <2>1
  <2>5. \A i, j \in I : f[i] = f[j] => i = j
    BY <2>2
  <2>6. \A k \in K : \E i \in I : f[i] = k
    BY <2>3
  <2>7. IsFiniteSet(I)
    <3>1. I \subseteq 1 .. n
      OBVIOUS
    <3> HIDE DEF I
    <3> QED BY <1>1, <3>1, RankingIsFinite
  <2> HIDE DEF I, K, f
  <2>8. f \in Bijection(I, K)
    BY <2>4, <2>5, <2>6 DEF Bijection, Injection, Surjection, IsInjective
  <2>9. Cardinality(K) = Cardinality(I)
    BY <2>7, <2>8, FS_Bijection DEF ExistsBijection
  <2> QED BY <1>1, <2>9 DEF I, K
<1> QED BY <1>2, <1>3

(* With one store, the map's groups are the list's candidates. *)
LEMMA MapsMatchLists == MatchInv => MapMatchesList
<1> SUFFICES ASSUME MatchInv, Answered,
                    \A i \in DOMAIN groups : groups[i].store = request.store
             PROVE  LET entry == heat[request.hostel]
                        own == ranked.own
                    IN /\ entry.activeGroups = Len(own)
                       /\ entry.pendingPaise
                            = SumOf([i \in DOMAIN own |-> own[i].cart])
                              + SumOf([i \in DOMAIN own |-> own[i].fee])
                       /\ entry.ready => \E i \in DOMAIN own :
                                           own[i].cart >= Threshold
  BY DEF MapMatchesList
<1> DEFINE among == Candidates(groups, request)
           m == Cardinality(among)
           best == findBestMatch(groups, among, request)
<1>1. PICK n \in Nat : groups \in [1 .. n -> Rows] /\ DOMAIN groups = 1 .. n
  BY RankedAll
<1>2. ActiveOf(groups, request.hostel) = among
  BY DEF ActiveOf, Candidates
<1>3. among \subseteq 1 .. n
  BY <1>1 DEF Candidates
<1>4. Ranking(groups, among) /\ m \in Nat
  <2>1. Ranking(groups, among)
    BY <1>1, <1>3 DEF Ranking
  <2> HIDE DEF among
  <2> QED BY <2>1, PlacesAreTakenOnce
<1>5. ranked.own = best
  BY DEF MatchInv, Answered
<1>6. DOMAIN best = 1 .. m /\ Len(best) = m
  BY <1>4 DEF findBestMatch
<1>7. request.hostel \in Hostels
  BY DEF MatchInv
<1>8. heat[request.hostel]
        = [pendingPaise |-> SumOf([i \in 1 .. n |->
                                     IF i \in among THEN Pending(groups[i]) ELSE 0]),
           ready |-> \E i \in among : groups[i].status = "THRESHOLD_MET",
           activeGroups |-> m]
  <2>1. heat = heatmap(groups)
    BY DEF MatchInv, Answered
  <2>2. heat[request.hostel]
          = [pendingPaise |-> SumOf([i \in DOMAIN groups |->
                                       IF i \in ActiveOf(groups, request.hostel)
                                       THEN Pending(groups[i]) ELSE 0]),
             ready |-> \E i \in ActiveOf(groups, request.hostel) :
                         groups[i].status = "THRESHOLD_MET",
             activeGroups |-> Cardinality(ActiveOf(groups, request.hostel))]
    <3> HIDE DEF best, among, m
    <3> QED BY <1>7, <2>1 DEF heatmap
  <2> HIDE DEF best, among
  <2> QED BY <1>1, <1>2, <2>2
<1> HIDE DEF among
<1>9. SumOf([i \in 1 .. n |-> IF i \in among THEN Pending(groups[i]) ELSE 0])
        = SumOf([k \in 1 .. m |-> best[k].cart]) + SumOf([k \in 1 .. m |-> best[k].fee])
  <2>1. SumOf(PendingAmong(groups, among)) = SumOf(PendingRanked(groups, among, request))
    <3> HIDE DEF best, m
    <3> QED BY <1>4, RankingKeepsSum
  <2>2. ASSUME NEW k \in 1 .. m PROVE best[k].cart \in Int /\ best[k].fee \in Int
    <3>1. Ranking(groups, among) /\ k \in 1 .. Cardinality(among)
      BY <1>4, <2>2
    <3>2. PICK i \in among : best[k] = groups[i]
      BY <3>1, RankedByPlace
    <3>3. i \in 1 .. n
      BY <1>3
    <3>4. groups[i].cart \in Int /\ groups[i].fee \in Int
      BY <1>1, <3>3, RowsArePaise
    <3> HIDE DEF best
    <3> QED BY <3>2, <3>4
  <2> DEFINE carts == [k \in 1 .. m |-> best[k].cart]
             fees == [k \in 1 .. m |-> best[k].fee]
             both == [k \in 1 .. m |-> Pending(best[k])]
  <2>3. SumOf(both) = SumOf(carts) + SumOf(fees)
    <3> HIDE DEF best, m
    <3>1. carts \in [1 .. m -> Int] /\ fees \in [1 .. m -> Int]
      BY <2>2
    <3>2. /\ both \in [1 .. m -> Int]
          /\ \A k \in 1 .. m : both[k] = carts[k] + fees[k]
      BY <2>2 DEF Pending
    <3> HIDE DEF carts, fees, both
    <3> QED BY <1>4, <3>1, <3>2, SumPlus
  <2> QED BY <1>1, <2>1, <2>3 DEF PendingAmong, PendingRanked
<1>10. ASSUME NEW i \in among, groups[i].status = "THRESHOLD_MET"
       PROVE  \E k \in 1 .. m : best[k].cart >= Threshold
  <2>1. groups[i].cart >= Threshold
    BY <1>1, <1>3, <1>10 DEF Rows
  <2>2. Place(groups, among, request, i) \in 1 .. m
    BY <1>4, PlacesAreTakenOnce
  <2>3. best[Place(groups, among, request, i)] = groups[i]
    BY <1>4, PlaceIsRank
  <2> QED BY <2>1, <2>2, <2>3
<1> HIDE DEF best, m
<1>11. heat[request.hostel].activeGroups = Len(ranked.own)
  BY <1>5, <1>6, <1>8
<1>12. heat[request.hostel].pendingPaise
         = SumOf([i \in DOMAIN ranked.own |-> ranked.own[i].cart])
           + SumOf([i \in DOMAIN ranked.own |-> ranked.own[i].fee])
  <2>1. heat[request.hostel].pendingPaise
          = SumOf([k \in 1 .. m |-> best[k].cart]) + SumOf([k \in 1 .. m |-> best[k].fee])
    BY <1>8, <1>9
  <2> QED BY <1>5, <1>6, <2>1
<1>13. heat[request.hostel].ready
         => \E i \in DOMAIN ranked.own : ranked.own[i].cart >= Threshold
  <2>1. heat[request.hostel].ready = \E i \in among : groups[i].status = "THRESHOLD_MET"
    BY <1>8
  <2> QED BY <1>5, <1>6, <1>10, <2>1
<1> QED BY <1>11, <1>12, <1>13

(* findBestMatch puts a group that is nowhere worse and somewhere better    *)
(* than another before it, for any number of groups and any rows.          *)
THEOREM BetterFirst == MatchSpec => []BetterStandsFirst
BY MatchInvariance, RanksBetterFirst, PTL

(* totalScore is between 0 and 5, and findBestMatch returns each candidate *)
(* once.                                                                   *)
THEOREM OnScale == MatchSpec => []ScoresOnScale
BY MatchInvariance, RanksEverybody, PTL

(* For any number of groups of one store, active, claimed and reopened or   *)
(* gone, the heatmap's entry of a hostel is what the match list shows there: *)
(* as many groups, their carts and, which the list leaves out, the fees of   *)
(* those that carry one; and it is ready only if one of them has its minimum. *)
THEOREM MapAgreesWithList == MatchSpec => []MapMatchesList
BY MatchInvariance, MapsMatchLists, PTL
=============================================================================

----------------------------- MODULE DeltaProofs -----------------------------
(***************************************************************************)
(* Theorems about Delta, for files of any length, every block size and     *)
(* every modulus: the rolling checksum is the checksum of the window,      *)
(* Encode finds what a direct search finds, and Apply restores the target. *)
(***************************************************************************)
EXTENDS Delta, SequenceTheorems, WellFoundedInduction, TLAPS

-----------------------------------------------------------------------------
(* Induction and recursion on natural numbers, for sets and functions      *)

LEMMA Least ==
  ASSUME NEW T \in SUBSET Nat, T # {}
  PROVE  \E x \in T : \A y \in T : x <= y
<1>1. PICK x \in T : \A y \in T : ~(<<y, x>> \in OpToRel(<, Nat))
  BY NatLessThanWellFounded, WFMin, Zenon
<1>2. ASSUME NEW y \in T PROVE ~(y < x)
  BY <1>1, Zenon DEF OpToRel
<1> QED
  BY <1>2

LEMMA Induction ==
  ASSUME NEW S, 0 \in S, \A k \in Nat : k \in S => k + 1 \in S
  PROVE  Nat \subseteq S
<1> SUFFICES ASSUME Nat \ S # {} PROVE FALSE
  OBVIOUS
<1>1. PICK x \in Nat \ S : \A y \in Nat \ S : x <= y
  BY Least, Zenon
<1>2. x - 1 \in Nat /\ x - 1 \in S
  BY <1>1
<1> QED
  BY <1>1, <1>2

LEMMA InductionTo ==
  ASSUME NEW n \in Nat, NEW S, 0 \in S, \A k \in 0..n - 1 : k \in S => k + 1 \in S
  PROVE  0..n \subseteq S
<1> DEFINE T == {k \in Nat : k <= n => k \in S}
<1>1. 0 \in T
  OBVIOUS
<1>2. ASSUME NEW k \in Nat, k \in T PROVE k + 1 \in T
  BY <1>2
<1>3. Nat \subseteq T
  <2> HIDE DEF T
  <2> QED
    BY <1>1, <1>2, Induction
<1> QED
  BY <1>3

(* A run of n steps from start, where step k is the function G[k].         *)
Steps(f, n, V, start, G) ==
  /\ f \in [0..n -> V]
  /\ f[0] = start /\ \A k \in 1..n : f[k] = G[k][f[k - 1]]

LEMMA Recursion ==
  ASSUME NEW n \in Nat, NEW V, NEW start \in V, NEW G \in [Nat -> [V -> V]]
  PROVE  \E f : Steps(f, n, V, start, G)
<1> DEFINE Good(m) == \E f \in [0..m -> V] :
                        f[0] = start /\ \A k \in 1..m : f[k] = G[k][f[k - 1]]
           S == {m \in Nat : Good(m)}
<1>1. 0 \in S
  <2> DEFINE g == [k \in 0..0 |-> start]
  <2>1. g \in [0..0 -> V] /\ g[0] = start /\ \A k \in 1..0 : g[k] = G[k][g[k - 1]]
    OBVIOUS
  <2> HIDE DEF g
  <2> QED
    BY <2>1
<1>2. ASSUME NEW m \in Nat, m \in S PROVE m + 1 \in S
  <2>1. PICK f \in [0..m -> V] : f[0] = start /\ \A k \in 1..m : f[k] = G[k][f[k - 1]]
    BY <1>2
  <2> DEFINE g == [k \in 0..m + 1 |-> IF k = m + 1 THEN G[k][f[m]] ELSE f[k]]
  <2>2. g \in [0..m + 1 -> V]
    OBVIOUS
  <2>3. g[0] = start
    BY <2>1
  <2>4. \A k \in 1..m + 1 : g[k] = G[k][g[k - 1]]
    BY <2>1
  <2> HIDE DEF g
  <2>5. Good(m + 1)
    BY <2>2, <2>3, <2>4
  <2> QED
    BY <2>5
<1>3. Nat \subseteq S
  <2> HIDE DEF S
  <2> QED
    BY <1>1, <1>2, Induction
<1>4. Good(n)
  BY <1>3
<1> QED
  BY <1>4, Zenon DEF Steps

(* Recursion towards n: the value at i is made from that at next[i] > i.   *)
BackSteps(f, n, head, next) ==
  f = [i \in 0..n |-> IF i = n THEN <<>> ELSE head[i] \o f[next[i]]]

LEMMA BackRecursion ==
  ASSUME NEW n \in Nat, NEW head, NEW next \in [0..n - 1 -> 1..n],
         \A i \in 0..n - 1 : next[i] > i
  PROVE  \E f : BackSteps(f, n, head, next)
<1> DEFINE Body(f, i) == IF i = n THEN <<>> ELSE head[i] \o f[next[i]]
           Good(m) == \E f : \A i \in n - m..n : f[i] = Body(f, i)
           S == {m \in Nat : m <= n => Good(m)}
<1>1. 0 \in S
  <2> DEFINE g == [i \in n..n |-> <<>>]
  <2>1. \A i \in n - 0..n : g[i] = Body(g, i)
    OBVIOUS
  <2> HIDE DEF g, Body
  <2> QED
    BY <2>1
<1>2. ASSUME NEW m \in Nat, m \in S PROVE m + 1 \in S
  <2> SUFFICES ASSUME m + 1 <= n PROVE Good(m + 1)
    OBVIOUS
  <2>1. PICK f : \A i \in n - m..n : f[i] = Body(f, i)
    BY <1>2
  <2> DEFINE j == n - (m + 1)
             g == [i \in j..n |-> IF i = j THEN Body(f, j) ELSE f[i]]
  <2>2. ASSUME NEW i \in n - (m + 1)..n PROVE g[i] = Body(g, i)
    <3>1. i # n => g[next[i]] = f[next[i]]
      OBVIOUS
    <3>2. Body(g, i) = Body(f, i)
      BY <3>1
    <3>3. g[i] = Body(f, i)
      BY <2>1
    <3> QED
      BY <3>2, <3>3
  <2> HIDE DEF g, Body
  <2> QED
    BY <2>2
<1>3. n \in S
  BY <1>1, <1>2, Induction, Zenon
<1>4. PICK f : \A i \in 0..n : f[i] = Body(f, i)
  BY <1>3
<1> DEFINE g == [i \in 0..n |-> f[i]]
<1>5. ASSUME NEW i \in 0..n PROVE g[i] = Body(g, i)
  <2>1. i # n => g[next[i]] = f[next[i]]
    OBVIOUS
  <2> QED
    BY <1>4, <2>1
<1>6. g = [i \in 0..n |-> g[i]]
  OBVIOUS
<1>7. g = [i \in 0..n |-> Body(g, i)]
  <2> HIDE DEF g, Body
  <2> QED
    BY <1>5, <1>6
<1> HIDE DEF g
<1> QED
  BY <1>7, Zenon DEF BackSteps

-----------------------------------------------------------------------------
(* The recursive functions of Delta satisfy their equations *)

Totals(n, c) ==
  CHOOSE f : f = [k \in 0..n |-> IF k = 0 THEN 0 ELSE f[k - 1] + c[k]]

LEMMA RunningSum ==
  ASSUME NEW n \in Nat, NEW c, \A k \in 1..n : c[k] \in Nat, NEW h, h = Totals(n, c)
  PROVE  /\ h \in [0..n -> Nat] /\ h[0] = 0
         /\ \A k \in 1..n : h[k] = h[k - 1] + c[k]
<1> DEFINE G == [k \in Nat |-> [v \in Nat |-> v + (IF k \in 1..n THEN c[k] ELSE 0)]]
           Def(f) == [k \in 0..n |-> IF k = 0 THEN 0 ELSE f[k - 1] + c[k]]
           S == {k \in Nat : h[k] \in Nat}
<1>1. G \in [Nat -> [Nat -> Nat]] /\ 0 \in Nat
  OBVIOUS
<1>2. \A k \in 1..n, v \in Nat : G[k][v] = v + c[k]
  OBVIOUS
<1>3. PICK f : Steps(f, n, Nat, 0, G)
  <2> HIDE DEF G
  <2> QED
    BY <1>1, Recursion, Zenon
<1>4. f = Def(f)
  <2> HIDE DEF G
  <2>1. f \in [0..n -> Nat] /\ f[0] = 0
    BY <1>3 DEF Steps
  <2>2. ASSUME NEW k \in 1..n PROVE f[k] = f[k - 1] + c[k]
    <3>1. f[k - 1] \in Nat
      BY <2>1
    <3> QED
      BY <1>2, <1>3, <3>1, Zenon DEF Steps
  <2> QED
    BY <2>1, <2>2
<1>5. h = Def(h)
  BY <1>4, Zenon DEF Totals
<1>6. DOMAIN h = 0..n /\ h[0] = 0 /\ \A k \in 1..n : h[k] = h[k - 1] + c[k]
  <2> DEFINE e == Def(h)
  <2>1. DOMAIN e = 0..n /\ e[0] = 0 /\ \A k \in 1..n : e[k] = h[k - 1] + c[k]
    OBVIOUS
  <2>2. h = e
    BY <1>5
  <2> HIDE DEF e
  <2> QED
    BY <2>1, <2>2, Zenon
<1>7. ASSUME NEW k \in 0..n - 1, k \in S PROVE k + 1 \in S
  <2>1. k + 1 \in 1..n /\ (k + 1) - 1 = k
    OBVIOUS
  <2>2. h[k + 1] = h[k] + c[k + 1] /\ c[k + 1] \in Nat
    BY <1>6, <2>1
  <2> QED
    BY <1>7, <2>2
<1>8. 0 \in S
  BY <1>6
<1>9. 0..n \subseteq S
  <2> HIDE DEF S
  <2> QED
    BY <1>7, <1>8, InductionTo
<1>10. h \in [0..n -> Nat]
  BY <1>5, <1>9
<1> QED
  BY <1>6, <1>10

LEMMA SumADef ==
  ASSUME NEW b \in Seq(Nat)
  PROVE  /\ SumA(b) \in [0..Len(b) -> Nat] /\ SumA(b)[0] = 0
         /\ \A k \in 1..Len(b) : SumA(b)[k] = SumA(b)[k - 1] + b[k]
<1>1. Len(b) \in Nat /\ \A k \in 1..Len(b) : b[k] \in Nat
  BY LenProperties
<1>2. SumA(b) = Totals(Len(b), b)
  BY Zenon DEF SumA, Totals
<1> QED
  BY <1>1, <1>2, RunningSum, Zenon

LEMMA SumBDef ==
  ASSUME NEW b \in Seq(Nat)
  PROVE  /\ SumB(b) \in [0..Len(b) -> Nat] /\ SumB(b)[0] = 0
         /\ \A k \in 1..Len(b) : SumB(b)[k] = SumB(b)[k - 1] + SumA(b)[k]
<1> DEFINE a == SumA(b)
<1> HIDE DEF a
<1>1. Len(b) \in Nat /\ \A k \in 1..Len(b) : a[k] \in Nat
  BY LenProperties, SumADef DEF a
<1>2. SumB(b) = Totals(Len(b), a)
  BY Zenon DEF SumB, Totals, a
<1>3. /\ SumB(b) \in [0..Len(b) -> Nat] /\ SumB(b)[0] = 0
      /\ \A k \in 1..Len(b) : SumB(b)[k] = SumB(b)[k - 1] + a[k]
  BY <1>1, <1>2, RunningSum, Zenon
<1> QED
  BY <1>3 DEF a

Iterates(n, start, next) ==
  CHOOSE f : f = [k \in 0..n |-> IF k = 0 THEN start ELSE next[f[k - 1]]]

(* Iteration of a function, as in Turns.                                   *)
LEMMA Iteration ==
  ASSUME NEW n \in Nat, NEW V, NEW start \in V, NEW next,
         \A v \in V : next[v] \in V, NEW h, h = Iterates(n, start, next)
  PROVE  /\ h \in [0..n -> V] /\ h[0] = start
         /\ \A k \in 1..n : h[k] = next[h[k - 1]]
<1> DEFINE G == [k \in Nat |-> [v \in V |-> next[v]]]
           Def(f) == [k \in 0..n |-> IF k = 0 THEN start ELSE next[f[k - 1]]]
           S == {k \in Nat : h[k] \in V}
<1>1. G \in [Nat -> [V -> V]]
  OBVIOUS
<1>2. \A k \in 1..n, v \in V : G[k][v] = next[v]
  OBVIOUS
<1>3. PICK f : Steps(f, n, V, start, G)
  <2> HIDE DEF G
  <2> QED
    BY <1>1, Recursion, Zenon
<1>4. f = Def(f)
  <2> HIDE DEF G
  <2>1. f \in [0..n -> V] /\ f[0] = start
    BY <1>3 DEF Steps
  <2>2. ASSUME NEW k \in 1..n PROVE f[k] = next[f[k - 1]]
    <3>1. f[k - 1] \in V
      BY <2>1
    <3> QED
      BY <1>2, <1>3, <3>1 DEF Steps
  <2> QED
    BY <2>1, <2>2
<1>5. h = Def(h)
  BY <1>4 DEF Iterates
<1>6. DOMAIN h = 0..n /\ h[0] = start /\ \A k \in 1..n : h[k] = next[h[k - 1]]
  <2> DEFINE e == Def(h)
  <2>1. DOMAIN e = 0..n /\ e[0] = start /\ \A k \in 1..n : e[k] = next[h[k - 1]]
    OBVIOUS
  <2>2. h = e
    BY <1>5, Zenon
  <2> HIDE DEF e
  <2> QED
    BY <2>1, <2>2, Zenon
<1>7. ASSUME NEW k \in 0..n - 1, k \in S PROVE k + 1 \in S
  <2>1. k + 1 \in 1..n /\ (k + 1) - 1 = k
    OBVIOUS
  <2>2. h[k + 1] = next[h[k]]
    BY <1>6, <2>1
  <2> QED
    BY <1>7, <2>2
<1>8. 0 \in S
  BY <1>6
<1>9. 0..n \subseteq S
  <2> HIDE DEF S
  <2> QED
    BY <1>7, <1>8, InductionTo
<1>10. h \in [0..n -> V]
  BY <1>5, <1>9
<1> QED
  BY <1>6, <1>10

(* Arithmetic modulo M, for the halves of a weak checksum.                *)
LEMMA DivMod ==
  ASSUME NEW x \in Int, NEW M \in Nat \ {0}
  PROVE  x \div M \in Int /\ x % M \in 0..M - 1 /\ x = M * (x \div M) + (x % M)
<1>1. x \div M \in Int
  OBVIOUS
<1>2. x % M \in 0..M - 1
  OBVIOUS
<1>3. x = M * (x \div M) + (x % M)
  OBVIOUS
<1> QED
  BY <1>1, <1>2, <1>3

LEMMA Small ==
  ASSUME NEW q \in Int, NEW M \in Nat \ {0}, -M < M * q, M * q < M
  PROVE  q = 0
<1>1. CASE q >= 1
  <2>1. M * q = M + M * (q - 1) /\ M * (q - 1) >= 0
    BY <1>1
  <2> QED
    BY <2>1
<1>2. CASE q <= -1
  <2>1. M * q = (M * (q + 1)) - M /\ M * (q + 1) <= 0
    BY <1>2
  <2> QED
    BY <2>1
<1> QED
  BY <1>1, <1>2

(* Numbers a multiple of the modulus apart have the same remainder.        *)
Apart(M, x, y, q) ==
  M \in Nat \ {0} /\ x \in Int /\ y \in Int /\ q \in Int /\ x = y + M * q

LEMMA Congruent ==
  ASSUME NEW x, NEW y, NEW q, NEW M, Apart(M, x, y, q)
  PROVE  x % M = y % M
<1> USE DEF Apart
<1> DEFINE u == x \div M   r == x % M  v == y \div M  s == y % M
<1>1. /\ u \in Int /\ r \in 0..M - 1 /\ x = M * u + r
      /\ v \in Int /\ s \in 0..M - 1 /\ y = M * v + s
  BY DivMod
<1> HIDE DEF u, r, v, s
<1> DEFINE d == u - v - q
<1>2. d \in Int /\ M * d = s - r
  <2>1. M * d = M * u - M * v - M * q
    BY <1>1
  <2>2. M * u \in Int /\ M * v \in Int /\ M * q \in Int
    BY <1>1
  <2> QED
    BY <1>1, <2>1, <2>2
<1>3. d = 0
  <2> HIDE DEF d
  <2>1. -M < M * d /\ M * d < M
    BY <1>1, <1>2
  <2> QED
    BY <1>2, <2>1, Small
<1>4. r = s
  BY <1>1, <1>2, <1>3
<1> QED
  BY <1>4 DEF r, s

(* Slices of a file.                                                       *)
LEMMA SliceProperties ==
  ASSUME NEW d \in Seq(Nat), NEW a \in Nat, NEW b \in a..Len(d)
  PROVE  /\ Slice(d, a, b) \in Seq(Nat) /\ Len(Slice(d, a, b)) = b - a
         /\ \A k \in 1..b - a : Slice(d, a, b)[k] = d[a + k]
<1>1. Len(d) \in Nat
  BY LenProperties
<1>2. Slice(d, a, b) = [k \in 1..b - a |-> d[a + k]]
  BY <1>1 DEF Slice
<1>3. \A k \in 1..b - a : d[a + k] \in Nat
  BY <1>1
<1> QED
  BY <1>1, <1>2, <1>3

LEMMA SliceConcat ==
  ASSUME NEW d \in Seq(Nat), NEW a \in Nat, NEW b \in a..Len(d), NEW c \in b..Len(d)
  PROVE  Slice(d, a, b) \o Slice(d, b, c) = Slice(d, a, c)
<1>1. a + 1 \in 1..Len(d) + 1 /\ b \in (a + 1) - 1..Len(d)
  BY LenProperties
<1> QED
  BY <1>1, ConcatAdjacentSubSeq, Zenon DEF Slice

LEMMA SliceAppend ==
  ASSUME NEW d \in Seq(Nat), NEW a \in Nat, NEW b \in a..Len(d) - 1
  PROVE  Append(Slice(d, a, b), d[b + 1]) = Slice(d, a, b + 1)
<1>1. /\ Len(d) \in Nat /\ a + 1 \in 1..Len(d) /\ b + 1 \in a + 1..Len(d)
      /\ (b + 1) - 1 = b /\ b \in a..Len(d) /\ d[b + 1] \in Nat
  BY LenProperties
<1>2. SubSeq(d, a + 1, b + 1) = SubSeq(d, a + 1, (b + 1) - 1) \o <<d[b + 1]>>
  BY <1>1, SubSeqRecursiveSecond, Zenon
<1>3. SubSeq(d, a + 1, b) \in Seq(Nat)
  BY <1>1, SliceProperties, Zenon DEF Slice
<1>4. Append(SubSeq(d, a + 1, b), d[b + 1]) = SubSeq(d, a + 1, b) \o <<d[b + 1]>>
  BY <1>1, <1>3, AppendIsConcat, Zenon
<1> QED
  BY <1>1, <1>2, <1>4, Zenon DEF Slice

LEMMA SliceWhole ==
  ASSUME NEW d \in Seq(Nat)
  PROVE  /\ Slice(d, 0, Len(d)) = d
         /\ \A a \in 0..Len(d) : Slice(d, a, a) = <<>>
<1>1. Len(d) \in Nat /\ 0 + 1 = 1
  BY LenProperties
<1>2. Slice(d, 0, Len(d)) = d
  BY <1>1, SubSeqFull, Zenon DEF Slice
<1>3. ASSUME NEW a \in 0..Len(d) PROVE Slice(d, a, a) = <<>>
  <2>1. a + 1 \in Int /\ a \in Int /\ a < a + 1
    BY <1>1
  <2> QED
    BY <2>1, SubSeqEmpty, Zenon DEF Slice
<1> QED
  BY <1>2, <1>3

LEMMA WindowProperties ==
  ASSUME NEW d \in Seq(Nat), NEW n \in Nat, NEW i \in Nat, i + n <= Len(d)
  PROVE  /\ Slice(d, i, i + n) \in Seq(Nat) /\ Len(Slice(d, i, i + n)) = n
         /\ \A k \in 1..n : Slice(d, i, i + n)[k] = d[i + k]
<1>1. i + n \in i..Len(d) /\ (i + n) - i = n
  BY LenProperties
<1> QED
  BY <1>1, SliceProperties, Zenon

(* The arithmetic of one step of the sums, and of the last.                *)
LEMMA SumStep ==
  ASSUME NEW k \in Int, NEW out \in Int, NEW a \in Int, NEW b \in Int
  PROVE  (b - (k + 1) * out) + (a - out) = (b + a) - (k + 2) * out
<1>1. (k + 2) * out = (k + 1) * out + out /\ (k + 1) * out \in Int
  OBVIOUS
<1> QED
  BY <1>1

(* Reducing the first summand, and the first and the last of three, before *)
(* adding them leaves the remainder of the sum as it is.                   *)
ReducesFirst(M, a, s) == (a + s) % M = ((a % M) + s) % M

ReducesEnds(M, b, t, c) == (b + t + c) % M = ((b % M) + t + (c % M)) % M

LEMMA RollStep ==
  ASSUME NEW M \in Nat \ {0}, NEW a \in Int, NEW b \in Int, NEW c \in Int,
         NEW s \in Int, NEW t \in Int
  PROVE  ReducesFirst(M, a, s) /\ ReducesEnds(M, b, t, c)
<1> DEFINE p == a \div M   q == b \div M   r == c \div M
           u == a % M      v == b % M      w == c % M
<1>1. /\ p \in Int /\ q \in Int /\ r \in Int
      /\ u \in Int /\ v \in Int /\ w \in Int
      /\ a = M * p + u /\ b = M * q + v /\ c = M * r + w
  BY DivMod
<1> HIDE DEF p, q, r, u, v, w
<1>2. (a + s) % M = (u + s) % M
  <2> DEFINE x == a + s
             y == u + s
  <2>1. Apart(M, x, y, p)
    BY <1>1 DEF Apart
  <2> HIDE DEF x, y
  <2>2. x % M = y % M
    BY <2>1, Congruent
  <2> QED
    BY <2>2 DEF x, y
<1>3. (b + t + c) % M = (v + t + w) % M
  <2> DEFINE x == b + t + c
             y == v + t + w
             z == q + r
  <2>1. z \in Int /\ M * z = M * q + M * r
    BY <1>1
  <2>2. Apart(M, x, y, z)
    BY <1>1, <2>1 DEF Apart
  <2> HIDE DEF x, y, z
  <2>3. x % M = y % M
    BY <2>2, Congruent
  <2> QED
    BY <2>3 DEF x, y
<1> QED
  BY <1>2, <1>3, Zenon DEF u, v, w, ReducesFirst, ReducesEnds

(* What roll computes is what weakChecksum computes of the window moved on *)
(* by one byte: a search that rolls its checksum along the file, with the  *)
(* sums reduced at every step, misses no block.                            *)
THEOREM RollIsChecksum ==
  ASSUME NEW d \in Seq(Nat), NEW n \in Nat \ {0}, NEW i \in Nat, i + n < Len(d)
  PROVE  weakChecksum(Slice(d, i + 1, i + 1 + n))
           = roll(weakChecksum(Slice(d, i, i + n)), d[i + 1], d[i + n + 1], n)
<1> DEFINE v == Slice(d, i, i + n)
           w == Slice(d, i + 1, i + 1 + n)
           out == d[i + 1]
           in == d[i + n + 1]
           A == SumA(v)  B == SumB(v)  C == SumA(w)  D == SumB(w)
           S == {k \in Nat : C[k] = A[k + 1] - out /\ D[k] = B[k + 1] - (k + 1) * out}
<1>1. Len(d) \in Nat /\ out \in Nat /\ in \in Nat
  BY LenProperties
<1>2. /\ v \in Seq(Nat) /\ Len(v) = n /\ \A k \in 1..n : v[k] = d[i + k]
      /\ w \in Seq(Nat) /\ Len(w) = n /\ \A k \in 1..n : w[k] = d[i + 1 + k]
  <2>1. i + n <= Len(d) /\ i + 1 \in Nat /\ i + 1 + n <= Len(d)
    BY <1>1
  <2> QED
    BY <2>1, WindowProperties, Zenon
<1>3. /\ A \in [0..n -> Nat] /\ A[0] = 0 /\ \A k \in 1..n : A[k] = A[k - 1] + v[k]
      /\ C \in [0..n -> Nat] /\ C[0] = 0 /\ \A k \in 1..n : C[k] = C[k - 1] + w[k]
  BY <1>2, SumADef, Zenon
<1>4. /\ B \in [0..n -> Nat] /\ B[0] = 0 /\ \A k \in 1..n : B[k] = B[k - 1] + A[k]
      /\ D \in [0..n -> Nat] /\ D[0] = 0 /\ \A k \in 1..n : D[k] = D[k - 1] + C[k]
  BY <1>2, SumBDef, Zenon
<1>5. /\ weakChecksum(v) = <<A[n] % Modulus, B[n] % Modulus>>
      /\ weakChecksum(w) = <<C[n] % Modulus, D[n] % Modulus>>
  BY <1>2 DEF weakChecksum
<1>6. v[1] = out /\ w[n] = in /\ \A k \in 1..n - 1 : w[k] = v[k + 1]
  <2> HIDE DEF v, w
  <2>1. v[1] = out
    <3>1. 1 \in 1..n
      OBVIOUS
    <3> QED
      BY <1>2, <3>1, Zenon
  <2>2. w[n] = in
    <3>1. w[n] = d[i + 1 + n] /\ i + 1 + n = i + n + 1
      BY <1>2
    <3> QED
      BY <3>1
  <2>3. ASSUME NEW k \in 1..n - 1 PROVE w[k] = v[k + 1]
    <3>1. /\ k \in 1..n /\ k + 1 \in 1..n /\ i + 1 + k = i + (k + 1)
      OBVIOUS
    <3> QED
      BY <1>2, <3>1, Zenon
  <2> QED
    BY <2>1, <2>2, <2>3
<1> HIDE DEF v, w, A, B, C, D, out, in
<1>7. 0 \in S
  <2>1. 1 \in 1..n /\ 1 - 1 = 0
    OBVIOUS
  <2>2. A[1] = A[0] + v[1] /\ B[1] = B[0] + A[1]
    BY <1>3, <1>4, <2>1, Zenon
  <2>3. A[1] = out /\ B[1] = out
    BY <1>1, <1>3, <1>4, <1>6, <2>2
  <2>4. 0 + 1 = 1 /\ 1 * out = out /\ out - out = 0
    BY <1>1
  <2>5. C[0] = A[0 + 1] - out /\ D[0] = B[0 + 1] - (0 + 1) * out
    BY <1>3, <1>4, <2>3, <2>4, Zenon
  <2> QED
    BY <2>5
<1>8. ASSUME NEW k \in 0..(n - 1) - 1, k \in S PROVE k + 1 \in S
  <2>1. /\ k + 1 \in 1..n - 1 /\ k + 2 \in 1..n /\ k + 1 \in 1..n
        /\ (k + 1) - 1 = k /\ (k + 2) - 1 = k + 1 /\ (k + 1) + 1 = k + 2
    OBVIOUS
  <2>2. w[k + 1] = v[k + 2] /\ v[k + 2] \in Nat
    <3>1. v[k + 2] \in Nat
      BY <1>2, <2>1, ElementOfSeq, Zenon
    <3> QED
      BY <1>6, <2>1, <3>1, Zenon
  <2>3. /\ C[k + 1] = C[k] + v[k + 2] /\ A[k + 2] = A[k + 1] + v[k + 2]
        /\ D[k + 1] = D[k] + C[k + 1] /\ B[k + 2] = B[k + 1] + A[k + 2]
    BY <1>3, <1>4, <2>1, <2>2, Zenon
  <2>4. C[k] \in Nat /\ A[k + 1] \in Nat /\ A[k + 2] \in Nat /\ B[k + 1] \in Nat
    <3>1. k \in 0..n /\ k + 1 \in 0..n /\ k + 2 \in 0..n
      OBVIOUS
    <3> QED
      BY <1>3, <1>4, <3>1, Zenon
  <2>5. C[k] = A[k + 1] - out /\ D[k] = B[k + 1] - (k + 1) * out
    BY <1>8
  <2>6. C[k + 1] = A[k + 2] - out
    <3> DEFINE a == A[k + 1]
               e == v[k + 2]
    <3>1. C[k + 1] = (a - out) + e /\ A[k + 2] = a + e
      BY <2>3, <2>5, Zenon
    <3>2. a \in Int /\ e \in Int /\ out \in Int
      BY <1>1, <2>2, <2>4
    <3> HIDE DEF a, e
    <3> QED
      BY <3>1, <3>2
  <2>7. D[k + 1] = B[k + 2] - (k + 2) * out
    <3> DEFINE a == A[k + 2]
               b == B[k + 1]
    <3>1. D[k + 1] = (b - (k + 1) * out) + (a - out) /\ B[k + 2] = b + a
      BY <2>3, <2>5, <2>6, Zenon
    <3>2. a \in Int /\ b \in Int /\ k \in Int /\ out \in Int
      BY <1>1, <2>4
    <3> HIDE DEF a, b
    <3> QED
      BY <3>1, <3>2, SumStep
  <2> QED
    BY <2>1, <2>6, <2>7
<1>9. 0..n - 1 \subseteq S
  <2> HIDE DEF S
  <2>1. n - 1 \in Nat
    OBVIOUS
  <2> QED
    BY <1>7, <1>8, <2>1, InductionTo, Zenon
<1>10. C[n - 1] = A[n] - out /\ D[n - 1] = B[n] - n * out
  <2>1. n - 1 \in S /\ (n - 1) + 1 = n
    BY <1>9
  <2> QED
    BY <2>1
<1>11. n \in 1..n /\ n \in 0..n /\ n - 1 \in 0..n
  OBVIOUS
<1>12. /\ A[n] \in Int /\ B[n] \in Int /\ C[n] \in Int /\ D[n] \in Int
       /\ n * out \in Int /\ out \in Int /\ in \in Int
  <2>1. A[n] \in Nat /\ B[n] \in Nat /\ C[n] \in Nat /\ D[n] \in Nat
    BY <1>3, <1>4, <1>11, Zenon
  <2> QED
    BY <1>1, <2>1
<1>13. C[n] = A[n] - out + in
  BY <1>3, <1>6, <1>10, <1>11, Zenon
<1>14. D[n] = B[n] - n * out + C[n]
  BY <1>4, <1>10, <1>11, Zenon
<1> DEFINE M == Modulus
<1>15. M \in Nat \ {0}
  BY DeltaAssumption
<1> HIDE DEF M
<1>16. /\ C[n] % M = ((A[n] % M) - out + in) % M
       /\ D[n] % M = ((B[n] % M) - n * out + (C[n] % M)) % M
  <2> DEFINE a == A[n]  b == B[n]  c == C[n]  x == D[n]
             p == in - out  t == -(n * out)
  <2>1. a \in Int /\ b \in Int /\ c \in Int /\ p \in Int /\ t \in Int /\ n * out \in Int
    BY <1>12
  <2>2. c = a - out + in /\ x = b - n * out + c
    BY <1>13, <1>14, Zenon
  <2> HIDE DEF a, b, c, x
  <2>3. c = a + p /\ x = b + t + c
    BY <1>12, <2>1, <2>2
  <2> HIDE DEF p, t
  <2>4. /\ (a + p) % M = ((a % M) + p) % M
        /\ (b + t + c) % M = ((b % M) + t + (c % M)) % M
    <3>1. ReducesFirst(M, a, p) /\ ReducesEnds(M, b, t, c)
      BY <1>15, <2>1, RollStep, Zenon
    <3> QED
      BY <3>1, Zenon DEF ReducesFirst, ReducesEnds
  <2>5. a % M \in Int /\ b % M \in Int /\ c % M \in Int
    BY <1>15, <2>1
  <2>6. /\ (a % M) + p = (a % M) - out + in
        /\ (b % M) + t + (c % M) = (b % M) - n * out + (c % M)
    BY <1>12, <2>5 DEF p, t
  <2> QED
    BY <2>3, <2>4, <2>6, Zenon DEF a, b, c, x
<1>17. weakChecksum(w) = roll(weakChecksum(v), out, in, n)
  <2>1. weakChecksum(v)[1] = A[n] % M /\ weakChecksum(v)[2] = B[n] % M
    BY <1>5 DEF M
  <2>2. roll(weakChecksum(v), out, in, n) = <<C[n] % M, ((B[n] % M) - n * out + (C[n] % M)) % M>>
    BY <1>16, <2>1, Zenon DEF roll, M
  <2> QED
    BY <1>5, <1>16, <2>2, Zenon DEF M
<1> QED
  BY <1>17, Zenon DEF v, w, out, in

-----------------------------------------------------------------------------
(* Blocks and their signatures *)

Half == 0..Modulus - 1

LEMMA ChecksumType ==
  ASSUME NEW b \in Seq(Nat)
  PROVE  weakChecksum(b) \in Half \X Half /\ weakChecksum(b) # <<>>
<1>1. Len(b) \in Nat /\ Len(b) \in 0..Len(b)
  BY LenProperties
<1> DEFINE x == SumA(b)[Len(b)]
           y == SumB(b)[Len(b)]
<1>2. x \in Int /\ y \in Int
  <2>1. x \in Nat /\ y \in Nat
    BY <1>1, SumADef, SumBDef, Zenon
  <2> QED
    BY <2>1
<1> HIDE DEF x, y
<1>3. x % Modulus \in Half /\ y % Modulus \in Half
  BY <1>2, DivMod, DeltaAssumption, Zenon DEF Half
<1>4. weakChecksum(b) = <<x % Modulus, y % Modulus>>
  BY Zenon DEF weakChecksum, x, y
<1> QED
  BY <1>3, <1>4

LEMMA RollType ==
  ASSUME NEW sum \in Half \X Half, NEW out \in Nat, NEW in \in Nat, NEW n \in Nat
  PROVE  roll(sum, out, in, n) \in Half \X Half
<1>1. Modulus \in Nat \ {0}
  BY DeltaAssumption
<1>2. sum[1] \in Int /\ sum[2] \in Int /\ n * out \in Int
  BY <1>1 DEF Half
<1> DEFINE x == sum[1] - out + in
           a == x % Modulus
           y == sum[2] - n * out + a
<1>3. x \in Int
  BY <1>2
<1>4. a \in Half
  <2> HIDE DEF x
  <2> QED
    BY <1>1, <1>3, DivMod, Zenon DEF Half
<1>5. y \in Int
  <2> HIDE DEF a
  <2>1. a \in Int
    BY <1>1, <1>4 DEF Half
  <2> QED
    BY <1>2, <2>1
<1>6. y % Modulus \in Half
  <2> HIDE DEF y
  <2> QED
    BY <1>1, <1>5, DivMod, Zenon DEF Half
<1>7. roll(sum, out, in, n) = <<a, y % Modulus>>
  BY Zenon DEF roll
<1> HIDE DEF a, y
<1> QED
  BY <1>4, <1>6, <1>7

LEMMA FirstIsLeast ==
  ASSUME NEW S \in SUBSET Nat, S # {}
  PROVE  First(S) \in S /\ \A j \in S : First(S) <= j
BY Least, Zenon DEF First

LEMMA Blocks ==
  ASSUME NEW basis \in Seq(Nat), NEW bs \in Nat \ {0}
  PROVE  /\ BlockCount(basis, bs) \in Nat
         /\ \A bi \in 1..BlockCount(basis, bs) :
              /\ (bi - 1) * bs \in 0..Len(basis) - 1
              /\ Block(basis, bs, bi) \in Seq(Nat)
<1> DEFINE L == Len(basis)
           q == BlockCount(basis, bs)
<1>1. L \in Nat
  BY LenProperties
<1>2. q \in Int /\ bs * q <= L + bs - 1 /\ q \in Nat
  <2> DEFINE x == L + bs - 1
  <2>1. x \in Nat
    BY <1>1
  <2>2. q = x \div bs
    BY DEF BlockCount
  <2> HIDE DEF x, q
  <2>3. /\ x \in Int /\ x \div bs \in Int
        /\ x % bs \in 0..bs - 1 /\ x = bs * (x \div bs) + (x % bs)
    BY <2>1, DivMod
  <2>4. bs * q <= x
    BY <2>2, <2>3
  <2>5. q >= 0
    <3> SUFFICES ASSUME q <= -1 PROVE FALSE
      BY <2>2, <2>3
    <3>1. bs * q <= -bs
      <4>1. bs * (q + 1) <= 0
        BY <2>2, <2>3
      <4> QED
        BY <2>2, <2>3, <4>1
    <3> QED
      BY <2>1, <2>2, <2>3, <3>1
  <2> QED
    BY <2>2, <2>3, <2>4, <2>5 DEF x
<1> HIDE DEF q, L
<1>3. ASSUME NEW bi \in 1..q
      PROVE  (bi - 1) * bs \in 0..L - 1 /\ Block(basis, bs, bi) \in Seq(Nat)
  <2> DEFINE start == (bi - 1) * bs
             end == IF start + bs < L THEN start + bs ELSE L
  <2>1. bs * (q - bi) >= 0 /\ start >= 0 /\ start \in Int
    BY <1>2
  <2>2. start = bs * q - bs * (q - bi) - bs
    BY <1>2
  <2>3. start <= L - 1
    <3> HIDE DEF start
    <3>1. bs * q \in Int /\ bs * (q - bi) \in Int
      BY <1>2
    <3> QED
      BY <1>1, <1>2, <2>1, <2>2, <3>1
  <2>4. Block(basis, bs, bi) = Slice(basis, start, end)
    BY Zenon DEF Block, L
  <2> HIDE DEF start
  <2>5. start \in Nat /\ end \in start..L
    BY <1>1, <2>1, <2>3
  <2> HIDE DEF end
  <2>6. Block(basis, bs, bi) \in Seq(Nat)
    BY <2>4, <2>5, SliceProperties, Zenon DEF L
  <2>7. start \in 0..L - 1
    BY <1>1, <2>1, <2>3
  <2> QED
    BY <2>6, <2>7 DEF start
<1> QED
  BY <1>2, <1>3, Zenon DEF q, L

(* With the weak checksum of the data, the matches are the blocks whose    *)
(* bytes are the data.                                                     *)
LEMMA MatchesAreEqual ==
  ASSUME NEW basis \in Seq(Nat), NEW bs \in Nat \ {0}, NEW data \in Seq(Nat)
  PROVE  /\ Matches(Sign(basis, bs), weakChecksum(data), data)
              = {bi \in 1..BlockCount(basis, bs) : Block(basis, bs, bi) = data}
         /\ \A weak : Matches(Sign(basis, bs), weak, data) \in SUBSET Nat
<1> DEFINE sig == Sign(basis, bs)
           N == 1..BlockCount(basis, bs)
<1>1. DOMAIN sig = N /\ N \subseteq Nat
  <2>1. DOMAIN sig = N
    BY DEF Sign
  <2>2. N \subseteq Nat
    BY Blocks
  <2> QED
    BY <2>1, <2>2
<1>2. \A bi \in N : /\ sig[bi].weak = weakChecksum(Block(basis, bs, bi))
                    /\ sig[bi].strong = Block(basis, bs, bi)
  BY DEF Sign
<1> HIDE DEF sig, N
<1>3. Matches(sig, weakChecksum(data), data) = {bi \in N : Block(basis, bs, bi) = data}
  BY <1>1, <1>2, Zenon DEF Matches
<1>4. \A weak : Matches(sig, weak, data) \in SUBSET Nat
  BY <1>1, Zenon DEF Matches
<1> QED
  BY <1>3, <1>4, Zenon DEF sig, N

-----------------------------------------------------------------------------
(* One turn of the loops of Encode *)

Window(target, bs, i) == Slice(target, i, i + bs)

(* The rolling checksum is the one of the window at the position.          *)
Rolled(target, bs, s) ==
  s.sum # <<>> => /\ s.i + bs <= Len(target)
                  /\ s.sum = weakChecksum(Window(target, bs, s.i))

(* What a turn does at a position, by what the basis has for it.           *)
Advances(target, basis, bs, s, t) ==
  LET n == Len(target)
      hits == Hits(target, basis, bs, s.i)
  IN \/ s.i = n /\ t = s
     \/ s.i < n /\ hits # {} /\ t = Copied(s, hits, Reach(target, bs, s.i))
     \/ /\ s.i < n /\ hits = {} /\ s.i + bs > n
        /\ t = [s EXCEPT !.i = n, !.sum = <<>>, !.lit = @ \o Slice(target, s.i, n)]
     \/ /\ s.i < n /\ hits = {} /\ s.i + bs <= n
        /\ t = Slide(s, target, IF s.i + 1 + bs <= n
                                THEN weakChecksum(Window(target, bs, s.i + 1)) ELSE <<>>)
     \/ /\ s.i < n /\ hits = {} /\ s.i + bs <= n /\ s.sum # <<>>
        /\ t = [s EXCEPT !.sum = <<>>]

LEMMA TurnAdvances ==
  ASSUME NEW target \in Seq(Nat), NEW basis \in Seq(Nat), NEW bs \in Nat \ {0},
         NEW s \in LoopState(target), Rolled(target, bs, s)
  PROVE  Advances(target, basis, bs, s, Turn(target, Sign(basis, bs), bs, s))
<1> DEFINE n == Len(target)
           sig == Sign(basis, bs)
           hits == Hits(target, basis, bs, s.i)
           w == Window(target, bs, s.i)
           t == Turn(target, sig, bs, s)
           found == Matches(sig, weakChecksum(w), w)
           weak(i) == IF i + bs <= n THEN weakChecksum(Window(target, bs, i)) ELSE <<>>
           rolled == roll(s.sum, target[s.i + 1], target[s.i + bs + 1], bs)
<1>1. n \in Nat /\ s.i \in 0..n
  BY LenProperties DEF LoopState
<1>2. CASE s.i = n
  BY <1>2, Zenon DEF Advances, Turn
<1>3. CASE s.i < n /\ s.i + bs > n
  <2> DEFINE rest == Slice(target, s.i, n)
             whole == Matches(sig, weakChecksum(rest), rest)
  <2>1. t = Remainder(target, sig, s)
    <3>1. s.i # n
      BY <1>1, <1>3
    <3> QED
      BY <1>3, <3>1, Zenon DEF Turn
  <2>2. rest \in Seq(Nat)
    <3>1. s.i \in Nat /\ n \in s.i..n
      BY <1>1
    <3> QED
      BY <3>1, SliceProperties, Zenon
  <2>3. Reach(target, bs, s.i) = n
    BY <1>1, <1>3 DEF Reach
  <2>4. whole = hits
    <3>1. hits = {bi \in 1..BlockCount(basis, bs) : Block(basis, bs, bi) = rest}
      BY <2>3 DEF Hits
    <3> HIDE DEF rest, hits
    <3> QED
      BY <2>2, <3>1, MatchesAreEqual, Zenon
  <2>5. t = IF hits # {} THEN Copied(s, hits, n)
            ELSE [s EXCEPT !.i = n, !.sum = <<>>, !.lit = @ \o rest]
    BY <2>1, <2>4, Zenon DEF Remainder
  <2> HIDE DEF t, hits
  <2>6. CASE hits # {}
    BY <1>3, <2>3, <2>5, <2>6, Zenon DEF Advances, hits, t
  <2>7. CASE hits = {}
    BY <1>3, <2>3, <2>5, <2>7, Zenon DEF Advances, hits, t
  <2> QED
    BY <2>6, <2>7
<1>4. CASE s.i < n /\ s.i + bs <= n
  <2>1. w \in Seq(Nat)
    <3>1. s.i \in Nat /\ bs \in Nat
      BY <1>1
    <3> QED
      BY <1>4, <3>1, WindowProperties, Zenon DEF Window
  <2>2. Reach(target, bs, s.i) = s.i + bs
    BY <1>1, <1>4 DEF Reach
  <2>3. found = hits
    <3>1. hits = {bi \in 1..BlockCount(basis, bs) : Block(basis, bs, bi) = w}
      BY <2>2 DEF Hits, Window
    <3> HIDE DEF w, hits
    <3> QED
      BY <2>1, <3>1, MatchesAreEqual, Zenon
  <2>4. (IF s.sum # <<>> THEN s.sum ELSE weak(s.i)) = weakChecksum(w)
    BY <1>4, Zenon DEF Rolled
  <2>5. t = IF hits # {} THEN Copied(s, hits, s.i + bs)
            ELSE IF ~(s.sum # <<>>) THEN Slide(s, target, weak(s.i + 1))
            ELSE IF s.i + bs = n THEN [s EXCEPT !.sum = <<>>]
            ELSE Slide(s, target, rolled)
    <3>1. s.i # n /\ ~(s.i + bs > n)
      BY <1>1, <1>4
    <3> QED
      BY <2>3, <2>4, <3>1, Zenon DEF Turn, Window
  <2>6. ASSUME s.sum # <<>>, s.i + bs # n PROVE rolled = weak(s.i + 1)
    <3>1. s.i + bs < n /\ s.i + 1 + bs <= n /\ s.i \in Nat
      BY <1>1, <1>4, <2>6
    <3>2. s.sum = weakChecksum(Slice(target, s.i, s.i + bs))
      BY <2>6, Zenon DEF Rolled, Window
    <3> QED
      BY <3>1, <3>2, RollIsChecksum, Zenon DEF Window
  <2> HIDE DEF t, hits
  <2>7. CASE hits # {}
    BY <1>4, <2>2, <2>5, <2>7, Zenon DEF Advances, hits, t
  <2>8. CASE hits = {} /\ s.sum # <<>> /\ s.i + bs = n
    <3>1. t = [s EXCEPT !.sum = <<>>]
      BY <2>5, <2>8, Zenon
    <3> QED
      BY <1>4, <2>8, <3>1, Zenon DEF Advances, hits, t
  <2>9. CASE hits = {} /\ ~(s.sum # <<>> /\ s.i + bs = n)
    <3>1. t = Slide(s, target, weak(s.i + 1))
      BY <2>5, <2>6, <2>9, Zenon
    <3> QED
      BY <1>4, <2>9, <3>1, Zenon DEF Advances, hits, t
  <2> QED
    BY <2>7, <2>8, <2>9
<1> QED
  BY <1>1, <1>2, <1>3, <1>4

-----------------------------------------------------------------------------
(* What the operations so far stand for *)

(* c cuts the target where each of the operations ends.                    *)
Cuts(target, basis, bs, ops, c) ==
  /\ c \in [0..Len(ops) -> 0..Len(target)]
  /\ c[0] = 0
  /\ \A k \in 1..Len(ops) : /\ c[k - 1] <= c[k]
                            /\ Output(basis, bs, ops[k]) = Slice(target, c[k - 1], c[k])
                            /\ ~OutOfRange(basis, bs, ops[k])

(* The operations stand for the first e bytes of the target.               *)
Covers(target, basis, bs, ops, e) ==
  \E c : Cuts(target, basis, bs, ops, c) /\ c[Len(ops)] = e

LEMMA CoversNothing ==
  ASSUME NEW target \in Seq(Nat), NEW basis, NEW bs
  PROVE  Covers(target, basis, bs, <<>>, 0)
<1> DEFINE c == [k \in 0..0 |-> 0]
<1>1. Len(target) \in Nat /\ Len(<<>>) = 0 /\ c[0] = 0 /\ c \in [0..0 -> 0..Len(target)]
  BY LenProperties
<1> HIDE DEF c
<1>2. Cuts(target, basis, bs, <<>>, c)
  BY <1>1 DEF Cuts
<1> QED
  BY <1>1, <1>2 DEF Covers

LEMMA CoversMore ==
  ASSUME NEW target \in Seq(Nat), NEW basis, NEW bs, NEW ops \in Seq(Op), NEW e,
         Covers(target, basis, bs, ops, e), NEW f \in 0..Len(target), e <= f,
         NEW op \in Op, Output(basis, bs, op) = Slice(target, e, f),
         ~OutOfRange(basis, bs, op)
  PROVE  Covers(target, basis, bs, Append(ops, op), f)
<1> DEFINE m == Len(ops)
           more == Append(ops, op)
<1>1. PICK c : Cuts(target, basis, bs, ops, c) /\ c[m] = e
  BY DEF Covers
<1> DEFINE d == [k \in 0..m + 1 |-> IF k <= m THEN c[k] ELSE f]
<1>2. m \in Nat /\ Len(target) \in Nat
  BY LenProperties
<1>3. /\ Len(more) = m + 1 /\ more[m + 1] = op
      /\ \A k \in 1..m : more[k] = ops[k]
  <2>1. /\ Len(more) = Len(ops) + 1 /\ more[Len(ops) + 1] = op
        /\ \A k \in 1..Len(ops) : more[k] = ops[k]
    BY AppendProperties
  <2> QED
    BY <2>1
<1>4. c \in [0..m -> 0..Len(target)] /\ c[0] = 0
  BY <1>1 DEF Cuts
<1>5. /\ d \in [0..m + 1 -> 0..Len(target)] /\ d[m + 1] = f
      /\ \A k \in 0..m : d[k] = c[k]
  BY <1>2, <1>4
<1> HIDE DEF d, more
<1>6. ASSUME NEW k \in 1..m + 1
      PROVE  /\ d[k - 1] <= d[k] /\ Output(basis, bs, more[k]) = Slice(target, d[k - 1], d[k])
             /\ ~OutOfRange(basis, bs, more[k])
  <2>1. CASE k = m + 1
    <3> HIDE DEF m
    <3>1. k - 1 = m /\ m \in 0..m
      BY <1>2, <2>1
    <3>2. d[k - 1] = e /\ d[k] = f /\ more[k] = op
      BY <1>1, <1>3, <1>5, <2>1, <3>1, Zenon
    <3> QED
      BY <3>2
  <2>2. CASE k # m + 1
    <3>1. k \in 1..m /\ k \in 0..m /\ k - 1 \in 0..m
      BY <1>2, <2>2
    <3>2. d[k - 1] = c[k - 1] /\ d[k] = c[k] /\ more[k] = ops[k]
      BY <1>3, <1>5, <3>1
    <3> QED
      BY <1>1, <3>1, <3>2 DEF Cuts
  <2> QED
    BY <2>1, <2>2
<1>7. d[0] = 0
  BY <1>2, <1>4, <1>5
<1>8. Cuts(target, basis, bs, more, d)
  BY <1>3, <1>5, <1>6, <1>7 DEF Cuts
<1> QED
  BY <1>3, <1>5, <1>8 DEF Covers, more

(* Flushing the literal bytes up to i.                                     *)
LEMMA CoversFlush ==
  ASSUME NEW target \in Seq(Nat), NEW basis, NEW bs, NEW ops \in Seq(Op),
         NEW e \in 0..Len(target), Covers(target, basis, bs, ops, e),
         NEW i \in e..Len(target), NEW lit, lit = Slice(target, e, i)
  PROVE  /\ ops \o flushLit(lit) \in Seq(Op)
         /\ Covers(target, basis, bs, ops \o flushLit(lit), i)
<1>1. Len(target) \in Nat /\ e \in Nat /\ i \in 0..Len(target) /\ e <= i
  BY LenProperties
<1>2. lit \in Seq(Nat) /\ Len(lit) = i - e
  BY <1>1, SliceProperties, Zenon
<1>3. CASE lit = <<>>
  <2>1. i = e
    BY <1>1, <1>2, <1>3
  <2>2. ops \o flushLit(lit) = ops
    BY <1>3, ConcatEmptySeq, Zenon DEF flushLit
  <2> QED
    BY <2>1, <2>2, Zenon
<1>4. CASE lit # <<>>
  <2> DEFINE op == Literal(lit)
  <2>1. op \in Op /\ op.kind = "literal" /\ op.data = lit
    BY <1>2 DEF Op, Literal
  <2>2. Output(basis, bs, op) = Slice(target, e, i) /\ ~OutOfRange(basis, bs, op)
    BY <2>1 DEF Output, OutOfRange
  <2>3. flushLit(lit) = <<op>>
    BY <1>4 DEF flushLit
  <2> HIDE DEF op
  <2>4. ops \o flushLit(lit) = Append(ops, op) /\ Append(ops, op) \in Seq(Op)
    BY <2>1, <2>3, AppendIsConcat, AppendProperties, Zenon
  <2>5. Covers(target, basis, bs, Append(ops, op), i)
    BY <1>1, <2>1, <2>2, CoversMore
  <2> QED
    BY <2>4, <2>5, Zenon
<1> QED
  BY <1>3, <1>4

(* Apply over operations that cover the target.                            *)
LEMMA CoversApply ==
  ASSUME NEW target \in Seq(Nat), NEW basis, NEW d, d.ops \in Seq(Op),
         Covers(target, basis, d.bs, d.ops, Len(target)), d.output = Len(target)
  PROVE  Apply(basis, d) = IF Len(target) > MaxOutput THEN Failed ELSE target
<1> DEFINE ops == d.ops
           m == Len(ops)
           c == CHOOSE c : Cuts(target, basis, d.bs, ops, c) /\ c[m] = Len(target)
           g == [k \in 0..m |-> Slice(target, 0, c[k])]
           Def(f) == [k \in 0..m |-> IF k = 0 THEN <<>> ELSE f[k - 1] \o Output(basis, d.bs, ops[k])]
           out == Outputs(basis, d)
           S == {k \in Nat : out[k] = g[k]}
<1>1. Cuts(target, basis, d.bs, ops, c) /\ c[m] = Len(target)
  BY Zenon DEF Covers
<1> HIDE DEF c
<1>2. m \in Nat /\ DOMAIN ops = 1..m /\ Len(target) \in Nat
  BY LenProperties
<1>3. c \in [0..m -> 0..Len(target)] /\ c[0] = 0
  BY <1>1 DEF Cuts
<1>4. g[0] = <<>>
  BY <1>2, <1>3, SliceWhole
<1>5. ASSUME NEW k \in 1..m PROVE g[k] = g[k - 1] \o Output(basis, d.bs, ops[k])
  <2>1. k \in 0..m /\ k - 1 \in 0..m
    BY <1>2
  <2>2. c[k - 1] \in 0..Len(target) /\ c[k] \in c[k - 1]..Len(target) /\ 0 \in Nat
    <3>1. c[k - 1] <= c[k]
      BY <1>1 DEF Cuts
    <3>2. c[k - 1] \in 0..Len(target) /\ c[k] \in 0..Len(target)
      BY <1>3, <2>1, Zenon
    <3> HIDE DEF m
    <3> QED
      BY <1>2, <3>1, <3>2
  <2>3. Slice(target, 0, c[k - 1]) \o Slice(target, c[k - 1], c[k]) = Slice(target, 0, c[k])
    BY <2>2, SliceConcat, Zenon
  <2>4. Output(basis, d.bs, ops[k]) = Slice(target, c[k - 1], c[k])
    BY <1>1 DEF Cuts
  <2> QED
    BY <2>1, <2>3, <2>4
<1>6. g = Def(g)
  <2>1. DOMAIN g = 0..m /\ \A k \in 0..m : g[k] = Def(g)[k]
    <3>1. DOMAIN g = 0..m
      OBVIOUS
    <3> HIDE DEF g
    <3>2. ASSUME NEW k \in 0..m, k # 0 PROVE k \in 1..m
      BY <1>2, <3>2
    <3>3. ASSUME NEW k \in 0..m PROVE g[k] = Def(g)[k]
      <4>1. Def(g)[k] = IF k = 0 THEN <<>> ELSE g[k - 1] \o Output(basis, d.bs, ops[k])
        BY Zenon
      <4> QED
        BY <1>4, <1>5, <3>2, <4>1, Zenon
    <3> QED
      BY <3>1, <3>3, Zenon
  <2> QED
    BY <2>1, Zenon
<1>7. out = Def(out)
  <2> HIDE DEF g
  <2> QED
    BY <1>6, Zenon DEF Outputs
<1>8. out[0] = <<>> /\ \A k \in 1..m : out[k] = out[k - 1] \o Output(basis, d.bs, ops[k])
  <2> DEFINE x == Def(out)
  <2>1. x[0] = <<>> /\ \A k \in 1..m : x[k] = out[k - 1] \o Output(basis, d.bs, ops[k])
    <3> HIDE DEF out, m
    <3>1. 0 \in 0..m /\ \A k \in 1..m : k \in 0..m /\ k # 0
      BY <1>2
    <3> QED
      BY <3>1, Zenon
  <2>2. out = x
    BY <1>7, Zenon
  <2> HIDE DEF x, out
  <2> QED
    BY <2>1, <2>2, Zenon
<1> HIDE DEF g, out
<1>9. 0 \in S
  BY <1>4, <1>8
<1>10. ASSUME NEW k \in 0..m - 1, k \in S PROVE k + 1 \in S
  <2>1. k + 1 \in 1..m /\ (k + 1) - 1 = k /\ k + 1 \in Nat
    BY <1>2
  <2>2. out[k + 1] = out[k] \o Output(basis, d.bs, ops[k + 1])
    BY <1>8, <2>1, Zenon
  <2>3. g[k + 1] = g[k] \o Output(basis, d.bs, ops[k + 1])
    BY <1>5, <2>1, Zenon
  <2> QED
    BY <1>10, <2>1, <2>2, <2>3, Zenon
<1>11. 0..m \subseteq S
  <2> HIDE DEF S
  <2> QED
    BY <1>2, <1>9, <1>10, InductionTo, Zenon
<1>12. out[m] = target
  <2>1. out[m] = g[m] /\ m \in 0..m
    BY <1>2, <1>11
  <2>2. g[m] = Slice(target, 0, Len(target))
    BY <1>1, <2>1 DEF g
  <2> QED
    BY <2>1, <2>2, SliceWhole
<1>13. \A k \in DOMAIN ops : ~OutOfRange(basis, d.bs, ops[k])
  BY <1>1, <1>2 DEF Cuts
<1>14. (d.output > MaxOutput) <=> (Len(target) > MaxOutput)
  OBVIOUS
<1> QED
  BY <1>12, <1>13, <1>14, Zenon DEF Apply, out

-----------------------------------------------------------------------------
(* The reference search *)

LEMMA ReachAhead ==
  ASSUME NEW target \in Seq(Nat), NEW bs \in Nat \ {0}, NEW i \in 0..Len(target) - 1
  PROVE  Reach(target, bs, i) \in i + 1..Len(target)
<1>1. Len(target) \in Nat
  BY LenProperties
<1> QED
  BY <1>1 DEF Reach

LEMMA FirstHit ==
  ASSUME NEW target, NEW basis \in Seq(Nat), NEW bs \in Nat \ {0}, NEW i,
         Hits(target, basis, bs, i) # {}
  PROVE  First(Hits(target, basis, bs, i)) \in Hits(target, basis, bs, i)
<1>1. Hits(target, basis, bs, i) \in SUBSET Nat
  BY Blocks DEF Hits
<1> QED
  BY <1>1, FirstIsLeast, Zenon

(* Positions where a pending literal ends.                                 *)
Stops(target, basis, bs, j) ==
  \/ j = Len(target)
  \/ j + bs <= Len(target) + 1 /\ Hits(target, basis, bs, j) # {}

LEMMA LiteralAhead ==
  ASSUME NEW target \in Seq(Nat), NEW basis, NEW bs, NEW i \in 0..Len(target) - 1
  PROVE  LET e == LiteralEnd(target, basis, bs, i)
         IN /\ e \in i + 1..Len(target)
            /\ Stops(target, basis, bs, e)
            /\ \A j \in i + 1..Len(target) : Stops(target, basis, bs, j) => e <= j
<1> DEFINE T == {j \in i + 1..Len(target) : Stops(target, basis, bs, j)}
           e == LiteralEnd(target, basis, bs, i)
<1>1. Len(target) \in Nat /\ Len(target) \in i + 1..Len(target) /\ T \in SUBSET Nat
  BY LenProperties
<1>2. Len(target) \in T
  BY <1>1 DEF Stops
<1>3. e = First(T)
  BY DEF LiteralEnd, Stops
<1>4. First(T) \in T /\ \A j \in T : First(T) <= j
  <2> HIDE DEF T
  <2> QED
    BY <1>1, <1>2, FirstIsLeast
<1> QED
  BY <1>3, <1>4, Zenon

(* The equations of References, and the type of its values.                *)
LEMMA ReferencesDef ==
  ASSUME NEW target \in Seq(Nat), NEW basis \in Seq(Nat), NEW bs \in Nat \ {0}
  PROVE  LET R == References(target, basis, bs)
             H(i) == Hits(target, basis, bs, i)
             E(i) == LiteralEnd(target, basis, bs, i)
         IN /\ R[Len(target)] = <<>>
            /\ \A i \in 0..Len(target) - 1 :
                 R[i] = IF H(i) # {} THEN <<Copy(First(H(i)))>> \o R[Reach(target, bs, i)]
                        ELSE <<Literal(Slice(target, i, E(i)))>> \o R[E(i)]
            /\ \A i \in 0..Len(target) : R[i] \in Seq(Op)
<1> DEFINE R == References(target, basis, bs)
           n == Len(target)
           H(i) == Hits(target, basis, bs, i)
           E(i) == LiteralEnd(target, basis, bs, i)
           Body(f, i) == IF i = n THEN <<>>
                         ELSE IF H(i) # {} THEN <<Copy(First(H(i)))>> \o f[Reach(target, bs, i)]
                         ELSE <<Literal(Slice(target, i, E(i)))>> \o f[E(i)]
           Def(f) == [i \in 0..n |-> Body(f, i)]
           head == [i \in 0..n - 1 |-> IF H(i) # {} THEN <<Copy(First(H(i)))>>
                                       ELSE <<Literal(Slice(target, i, E(i)))>>]
           next == [i \in 0..n - 1 |-> IF H(i) # {} THEN Reach(target, bs, i) ELSE E(i)]
           S == {m \in Nat : m <= n => \A i \in n - m..n : R[i] \in Seq(Op)}
<1>1. n \in Nat
  BY LenProperties
<1>2. ASSUME NEW i \in 0..n - 1 PROVE next[i] \in i + 1..n
  BY LiteralAhead, ReachAhead
<1>3. next \in [0..n - 1 -> 1..n] /\ \A i \in 0..n - 1 : next[i] > i
  <2>1. DOMAIN next = 0..n - 1 /\ next = [i \in 0..n - 1 |-> next[i]]
    OBVIOUS
  <2> HIDE DEF next, n
  <2>2. ASSUME NEW i \in 0..n - 1 PROVE next[i] \in 1..n /\ next[i] > i
    BY <1>1, <1>2
  <2> QED
    BY <2>1, <2>2
<1>4. ASSUME NEW i \in 0..n - 1, NEW f PROVE Body(f, i) = head[i] \o f[next[i]]
  <2>1. i # n
    BY <1>1
  <2> QED
    BY <2>1, Zenon
<1>5. PICK f : BackSteps(f, n, head, next)
  <2> HIDE DEF head, next, n
  <2> QED
    BY <1>1, <1>3, BackRecursion, Zenon
<1>6. f = Def(f)
  <2> HIDE DEF head, next, Body, n
  <2>1. ASSUME NEW i \in 0..n
        PROVE  (IF i = n THEN <<>> ELSE head[i] \o f[next[i]]) = Body(f, i)
    <3>1. CASE i = n
      BY <3>1, Zenon DEF Body
    <3>2. CASE i # n
      <4>1. i \in 0..n - 1
        BY <1>1, <3>2
      <4> QED
        BY <1>4, <3>2, <4>1, Zenon
    <3> QED
      BY <3>1, <3>2, Zenon
  <2> DEFINE g == [i \in 0..n |-> IF i = n THEN <<>> ELSE head[i] \o f[next[i]]]
  <2>2. g = Def(f)
    BY <2>1, Zenon
  <2>3. f = g
    BY <1>5, Zenon DEF BackSteps
  <2> HIDE DEF g
  <2> QED
    BY <2>2, <2>3
<1>7. R = Def(R)
  <2>1. R = CHOOSE x : x = Def(x)
    BY Zenon DEF References
  <2> HIDE DEF Def, R
  <2> QED
    BY <1>6, <2>1, Zenon
<1>8. \A i \in 0..n : R[i] = Body(R, i)
  <2> DEFINE x == Def(R)
  <2>1. \A i \in 0..n : x[i] = Body(R, i)
    <3> HIDE DEF Body
    <3> QED
      OBVIOUS
  <2>2. R = x
    BY <1>7, Zenon
  <2> HIDE DEF x, R, Body
  <2> QED
    BY <2>1, <2>2, Zenon
<1> HIDE DEF R
<1>9. R[n] = <<>>
  <2>1. n \in 0..n
    BY <1>1
  <2> QED
    BY <1>8, <2>1, Zenon
<1>10. ASSUME NEW i \in 0..n - 1 PROVE Body(R, i) \in Seq(Op) \/ R[next[i]] \notin Seq(Op)
  <2> SUFFICES ASSUME R[next[i]] \in Seq(Op) PROVE head[i] \o R[next[i]] \in Seq(Op)
    <3> HIDE DEF Body, head, next
    <3> QED
      BY <1>4, Zenon
  <2>1. head[i] \in Seq(Op)
    <3>1. CASE H(i) # {}
      <4>1. First(H(i)) \in Nat
        <5>1. First(H(i)) \in H(i) /\ H(i) \in SUBSET Nat
          <6>1. First(H(i)) \in H(i)
            BY <3>1, FirstHit, Zenon
          <6> QED
            BY <6>1, Blocks DEF Hits
        <5> QED
          BY <5>1
      <4> DEFINE op == Copy(First(H(i)))
      <4>2. op \in Op
        BY <4>1 DEF Copy, Op
      <4>3. head[i] = <<op>>
        BY <3>1, Zenon
      <4> HIDE DEF op
      <4> QED
        BY <4>2, <4>3
    <3>2. CASE H(i) = {}
      <4>1. E(i) \in i + 1..n
        BY <1>1, LiteralAhead
      <4>2. i \in Nat /\ E(i) \in i..n
        BY <1>1, <4>1
      <4> DEFINE op == Literal(Slice(target, i, E(i)))
      <4>3. Slice(target, i, E(i)) \in Seq(Nat)
        BY <4>2, SliceProperties, Zenon
      <4>4. op \in Op
        BY <4>3 DEF Literal, Op
      <4>5. head[i] = <<op>>
        BY <3>2, Zenon
      <4> HIDE DEF op
      <4> QED
        BY <4>4, <4>5
    <3> QED
      BY <3>1, <3>2
  <2> HIDE DEF head, next
  <2> QED
    BY <2>1, ConcatProperties, Zenon
<1>11. 0 \in S
  <2> HIDE DEF n
  <2>1. \A i \in n - 0..n : i = n
    BY <1>1
  <2>2. R[n] \in Seq(Op)
    BY <1>9
  <2> QED
    BY <2>1, <2>2
<1>12. ASSUME NEW m \in Nat, m \in S PROVE m + 1 \in S
  <2> SUFFICES ASSUME m + 1 <= n, NEW i \in n - (m + 1)..n PROVE R[i] \in Seq(Op)
    OBVIOUS
  <2> HIDE DEF n, Body, next
  <2>1. \A j \in n - m..n : R[j] \in Seq(Op)
    BY <1>1, <1>12
  <2>2. CASE i = n - (m + 1)
    <3>1. i \in 0..n - 1 /\ i \in 0..n
      BY <1>1, <2>2
    <3>2. next[i] \in n - m..n
      BY <1>1, <1>2, <2>2, <3>1
    <3> QED
      BY <1>8, <1>10, <2>1, <3>1, <3>2, Zenon
  <2>3. CASE i # n - (m + 1)
    BY <1>1, <2>1, <2>3
  <2> QED
    BY <2>2, <2>3
<1>13. \A i \in 0..n : R[i] \in Seq(Op)
  <2>1. n \in S
    <3> HIDE DEF S, n
    <3> QED
      BY <1>1, <1>11, <1>12, Induction, Zenon
  <2> QED
    BY <1>1, <2>1
<1>14. ASSUME NEW i \in 0..n - 1
       PROVE  R[i] = IF H(i) # {} THEN <<Copy(First(H(i)))>> \o R[Reach(target, bs, i)]
                     ELSE <<Literal(Slice(target, i, E(i)))>> \o R[E(i)]
  <2>1. i \in 0..n /\ i # n
    BY <1>1
  <2> QED
    BY <1>8, <2>1, Zenon
<1> QED
  BY <1>9, <1>13, <1>14, Zenon DEF R

-----------------------------------------------------------------------------
(* The loop invariant of Encode.  The operations cover the target up to e, *)
(* the pending literal goes on to the position, and the reference search   *)
(* agrees: it did the same up to e, and takes the pending bytes as part of *)
(* one literal.                                                            *)
Sound(target, basis, bs, s) ==
  LET n == Len(target)
      e == s.i - Len(s.lit)
      R == References(target, basis, bs)
  IN /\ s \in LoopState(target)
     /\ Rolled(target, bs, s)
     /\ e \in 0..s.i
     /\ s.lit = Slice(target, e, s.i)
     /\ Covers(target, basis, bs, s.ops, e)
     /\ s.ops \o R[e] = R[0]
     /\ s.lit # <<>> => /\ Hits(target, basis, bs, e) = {}
                        /\ \A j \in e + 1..s.i - 1 : ~Stops(target, basis, bs, j)
                        /\ s.i < n => s.i + bs <= n + 1

LEMMA SoundStart ==
  ASSUME NEW target \in Seq(Nat), NEW basis \in Seq(Nat), NEW bs \in Nat \ {0}
  PROVE  Sound(target, basis, bs, Start)
<1> DEFINE n == Len(target)
           R == References(target, basis, bs)
<1>1. n \in Nat /\ 0 \in 0..n
  BY LenProperties
<1>2. /\ Start.i = 0 /\ Start.lit = <<>> /\ Start.ops = <<>> /\ Start.sum = <<>>
      /\ Start \in LoopState(target)
  <2>1. <<>> \in Seq(Nat) /\ <<>> \in Seq(Op)
    OBVIOUS
  <2> QED
    BY <1>1, <2>1 DEF Start, LoopState
<1>3. Len(<<>>) = 0 /\ 0 - 0 = 0 /\ 0 \in 0..0
  OBVIOUS
<1>4. Slice(target, 0, 0) = <<>>
  BY <1>1, SliceWhole
<1>5. <<>> \o R[0] = R[0]
  <2>1. R[0] \in Seq(Op)
    BY <1>1, ReferencesDef, Zenon
  <2> HIDE DEF R
  <2> QED
    BY <2>1, ConcatEmptySeq, Zenon
<1>6. Covers(target, basis, bs, <<>>, 0)
  BY CoversNothing
<1> QED
  BY <1>2, <1>3, <1>4, <1>5, <1>6, Zenon DEF Sound, Rolled

LEMMA Reassociate ==
  ASSUME NEW a \in Seq(Op), NEW b \in Seq(Op), NEW c \in Seq(Op)
  PROVE  (a \o b) \o c = a \o (b \o c)
BY ConcatAssociative

(* The pending literal ends at a position where the search stops.          *)
LEMMA Flushed ==
  ASSUME NEW target \in Seq(Nat), NEW basis \in Seq(Nat), NEW bs \in Nat \ {0},
         NEW s, Sound(target, basis, bs, s),
         s.i = Len(target) \/ Hits(target, basis, bs, s.i) # {}
  PROVE  LET ops == s.ops \o flushLit(s.lit)
             R == References(target, basis, bs)
         IN /\ ops \in Seq(Op) /\ Covers(target, basis, bs, ops, s.i)
            /\ ops \o R[s.i] = R[0]
<1> DEFINE n == Len(target)
           i == s.i
           e == i - Len(s.lit)
           R == References(target, basis, bs)
           ops == s.ops \o flushLit(s.lit)
<1>1. n \in Nat
  BY LenProperties
<1>2. i \in 0..n /\ s.lit \in Seq(Nat) /\ s.ops \in Seq(Op)
  BY DEF Sound, LoopState
<1>3. e \in 0..i /\ s.lit = Slice(target, e, i) /\ s.ops \o R[e] = R[0]
  BY Zenon DEF Sound
<1>4. Covers(target, basis, bs, s.ops, e)
  BY Zenon DEF Sound
<1>5. e \in 0..n /\ i \in e..n
  <2> HIDE DEF e, i, n
  <2> QED
    BY <1>1, <1>2, <1>3
<1>6. ops \in Seq(Op) /\ Covers(target, basis, bs, ops, i)
  <2> HIDE DEF e, i, n
  <2> QED
    BY <1>2, <1>3, <1>4, <1>5, CoversFlush, Zenon DEF n
<1>7. CASE s.lit = <<>>
  <2>1. Len(s.lit) = 0
    BY <1>7
  <2>2. e = i
    <3> HIDE DEF i
    <3> QED
      BY <1>1, <1>2, <2>1
  <2>3. ops = s.ops
    BY <1>2, <1>7, ConcatEmptySeq, Zenon DEF flushLit
  <2> HIDE DEF e, i, ops, R
  <2> QED
    BY <1>3, <1>6, <2>2, <2>3, Zenon DEF i, ops, R
<1>8. CASE s.lit # <<>>
  <2>1. Len(s.lit) \in Nat \ {0}
    BY <1>2, <1>8, EmptySeq, Zenon
  <2>2. e < i /\ e \in 0..n - 1 /\ i \in e + 1..n
    <3> HIDE DEF i, n
    <3> QED
      BY <1>1, <1>2, <1>5, <2>1
  <2>3. /\ Hits(target, basis, bs, e) = {}
        /\ \A j \in e + 1..i - 1 : ~Stops(target, basis, bs, j)
        /\ i < n => i + bs <= n + 1
    BY <1>8, Zenon DEF Sound
  <2>4. Stops(target, basis, bs, i)
    <3> HIDE DEF i, n
    <3> QED
      BY <1>1, <1>2, <2>3 DEF Stops, i, n
  <2> DEFINE z == LiteralEnd(target, basis, bs, e)
  <2>5. /\ z \in e + 1..n /\ Stops(target, basis, bs, z)
        /\ \A j \in e + 1..n : Stops(target, basis, bs, j) => z <= j
    <3> HIDE DEF e
    <3> QED
      BY <2>2, LiteralAhead
  <2> HIDE DEF z, e, i, n
  <2>6. z = i
    <3>1. z <= i
      BY <2>2, <2>4, <2>5
    <3>2. z \in Int /\ i \in Int /\ e \in Int
      BY <1>1, <1>2, <1>5, <2>5
    <3>3. ~(z < i)
      <4> SUFFICES ASSUME z < i PROVE FALSE
        OBVIOUS
      <4>1. z \in e + 1..i - 1
        BY <1>1, <2>5, <3>2
      <4> QED
        BY <2>3, <2>5, <4>1
    <3> QED
      BY <3>1, <3>2, <3>3
  <2> DEFINE op == Literal(s.lit)
  <2>7. R[e] = <<op>> \o R[i]
    <3>1. R[e] = <<Literal(Slice(target, e, z))>> \o R[z]
      BY <2>2, <2>3, ReferencesDef, Zenon DEF z, n
    <3> QED
      BY <1>3, <2>6, <3>1, Zenon
  <2>8. op \in Op
    BY <1>2 DEF Op, Literal
  <2>9. ops = s.ops \o <<op>>
    BY <1>8, Zenon DEF flushLit
  <2>10. R[i] \in Seq(Op)
    BY <1>2, ReferencesDef, Zenon DEF n
  <2> HIDE DEF op, R
  <2>11. <<op>> \in Seq(Op)
    BY <2>8
  <2>12. (s.ops \o <<op>>) \o R[i] = s.ops \o (<<op>> \o R[i])
    <3> DEFINE a == s.ops
               b == <<op>>
               c == R[i]
    <3>1. a \in Seq(Op) /\ b \in Seq(Op) /\ c \in Seq(Op)
      BY <1>2, <2>10, <2>11
    <3> HIDE DEF a, b, c
    <3>2. (a \o b) \o c = a \o (b \o c)
      BY <3>1, Reassociate, Zenon
    <3> QED
      BY <3>2, Zenon DEF a, b, c
  <2>13. ops \o R[i] = R[0]
    BY <1>3, <2>7, <2>9, <2>12, Zenon
  <2> QED
    BY <1>6, <2>13, Zenon DEF R, i
<1> QED
  BY <1>7, <1>8, Zenon

LEMMA SoundCopied ==
  ASSUME NEW target \in Seq(Nat), NEW basis \in Seq(Nat), NEW bs \in Nat \ {0},
         NEW s, Sound(target, basis, bs, s), s.i < Len(target),
         Hits(target, basis, bs, s.i) # {}
  PROVE  Sound(target, basis, bs,
               Copied(s, Hits(target, basis, bs, s.i), Reach(target, bs, s.i)))
<1> DEFINE n == Len(target)
           i == s.i
           f == Reach(target, bs, i)
           hits == Hits(target, basis, bs, i)
           t == Copied(s, hits, f)
           op == Copy(First(hits))
           ops == s.ops \o flushLit(s.lit)
           R == References(target, basis, bs)
<1>1. n \in Nat /\ i \in 0..n - 1 /\ f \in i + 1..n
  <2>1. n \in Nat /\ i \in 0..n - 1
    BY LenProperties DEF Sound, LoopState
  <2> QED
    BY <2>1, ReachAhead, Zenon
<1>2. ops \in Seq(Op) /\ Covers(target, basis, bs, ops, i) /\ ops \o R[i] = R[0]
  BY Flushed, Zenon
<1>3. First(hits) \in hits
  BY FirstHit, Zenon
<1>4. /\ First(hits) \in 1..BlockCount(basis, bs)
      /\ Block(basis, bs, First(hits)) = Slice(target, i, f)
  BY <1>3, Zenon DEF Hits
<1>5. /\ op \in Op /\ Output(basis, bs, op) = Slice(target, i, f)
      /\ ~OutOfRange(basis, bs, op)
  <2> DEFINE b == First(hits)
  <2> HIDE DEF b
  <2>1. b \in 1..BlockCount(basis, bs) /\ Block(basis, bs, b) = Slice(target, i, f)
    BY <1>4, Zenon DEF b
  <2>2. b \in Nat /\ (b - 1) * bs <= Len(basis)
    <3>1. BlockCount(basis, bs) \in Nat /\ Len(basis) \in Nat
      BY Blocks, LenProperties
    <3>2. (b - 1) * bs \in 0..Len(basis) - 1
      BY <2>1, Blocks
    <3>3. b \in Nat
      BY <2>1, <3>1
    <3> QED
      BY <3>1, <3>2, <3>3
  <2>3. op = Copy(b) /\ Copy(b).kind = "copy" /\ Copy(b).block = b /\ Copy(b) \in Op
    BY <2>2 DEF Copy, Op, b
  <2>4. ~((b - 1) * bs > Len(basis))
    <3>1. Len(basis) \in Nat /\ (b - 1) * bs \in Int
      BY <2>2, LenProperties
    <3> QED
      BY <2>2, <3>1
  <2> HIDE DEF op
  <2> QED
    BY <2>1, <2>3, <2>4 DEF Output, OutOfRange
<1>6. R[i] = <<op>> \o R[f]
  BY <1>1, ReferencesDef, Zenon
<1>7. R[f] \in Seq(Op)
  <2>1. f \in 0..n
    BY <1>1
  <2> QED
    BY <2>1, ReferencesDef, Zenon
<1>8. t = [i |-> f, sum |-> <<>>, lit |-> <<>>, ops |-> Append(ops, op)]
  BY Zenon DEF Copied
<1> HIDE DEF n, i, f, hits, t, op, ops, R
<1>9. Append(ops, op) = ops \o <<op>> /\ Append(ops, op) \in Seq(Op)
  BY <1>2, <1>5, AppendIsConcat, AppendProperties, ZenonT(30)
<1>10. Append(ops, op) \o R[f] = R[0]
  <2> DEFINE b == <<op>>
             c == R[f]
  <2>1. ops \in Seq(Op) /\ b \in Seq(Op) /\ c \in Seq(Op)
    BY <1>2, <1>5, <1>7
  <2>2. ops \o (b \o c) = R[0]
    BY <1>2, <1>6
  <2> HIDE DEF b, c
  <2>3. (ops \o b) \o c = ops \o (b \o c)
    BY <2>1, Reassociate, Zenon
  <2> QED
    BY <1>9, <2>2, <2>3, Zenon DEF b, c
<1>11. Covers(target, basis, bs, Append(ops, op), f)
  <2>1. f \in 0..n /\ i <= f
    BY <1>1
  <2> QED
    BY <1>2, <1>5, <2>1, CoversMore DEF n
<1>12. /\ t.i = f /\ t.sum = <<>> /\ t.lit = <<>> /\ t.ops = Append(ops, op)
       /\ t \in LoopState(target)
  <2>1. <<>> \in Seq(Nat) /\ f \in 0..n
    BY <1>1
  <2> QED
    BY <1>8, <1>9, <2>1 DEF LoopState, n
<1>13. f - Len(<<>>) = f /\ f \in 0..f /\ Slice(target, f, f) = <<>>
  BY <1>1, SliceWhole DEF n
<1>14. Sound(target, basis, bs, t)
  BY <1>10, <1>11, <1>12, <1>13, Zenon DEF Sound, Rolled, R
<1> QED
  BY <1>14, Zenon DEF t, hits, f, i

(* What is left, without a block of its own, joins the literal.            *)
LEMMA SoundRest ==
  ASSUME NEW target \in Seq(Nat), NEW basis \in Seq(Nat), NEW bs \in Nat \ {0},
         NEW s, Sound(target, basis, bs, s), s.i < Len(target),
         Hits(target, basis, bs, s.i) = {}, s.i + bs > Len(target), NEW t,
         t = [s EXCEPT !.i = Len(target), !.sum = <<>>,
                       !.lit = @ \o Slice(target, s.i, Len(target))]
  PROVE  Sound(target, basis, bs, t)
<1> DEFINE n == Len(target)
           i == s.i
           e == i - Len(s.lit)
           rest == Slice(target, i, n)
           R == References(target, basis, bs)
<1>1. n \in Nat /\ s \in LoopState(target) /\ i \in 0..n - 1
  BY LenProperties DEF Sound, LoopState
<1>2. /\ e \in 0..i /\ s.lit = Slice(target, e, i) /\ s.ops \o R[e] = R[0]
      /\ Covers(target, basis, bs, s.ops, e)
  BY Zenon DEF Sound
<1>3. s.lit # <<>> => /\ Hits(target, basis, bs, e) = {}
                      /\ \A j \in e + 1..i - 1 : ~Stops(target, basis, bs, j)
  BY Zenon DEF Sound
<1>4. s.lit \o rest = Slice(target, e, n)
  <2> HIDE DEF e, i, n
  <2>1. e \in Nat /\ i \in e..n /\ n \in i..n
    BY <1>1, <1>2
  <2>2. Slice(target, e, i) \o Slice(target, i, n) = Slice(target, e, n)
    BY <2>1, SliceConcat, Zenon DEF n
  <2> QED
    BY <1>2, <2>2, Zenon
<1>5. Slice(target, e, n) \in Seq(Nat) /\ Len(Slice(target, e, n)) = n - e
  <2> HIDE DEF e, i, n
  <2>1. e \in Nat /\ n \in e..n
    BY <1>1, <1>2
  <2> QED
    BY <2>1, SliceProperties, Zenon DEF n
<1>6. /\ t.i = n /\ t.sum = <<>> /\ t.lit = Slice(target, e, n) /\ t.ops = s.ops
      /\ t \in LoopState(target)
  <2>1. t.i = n /\ t.sum = <<>> /\ t.lit = s.lit \o rest /\ t.ops = s.ops
    BY <1>1 DEF LoopState
  <2>2. t \in LoopState(target)
    <3>1. s.lit \o rest \in Seq(Nat) /\ n \in 0..n
      BY <1>1, <1>4, <1>5
    <3> HIDE DEF rest
    <3> QED
      BY <1>1, <3>1, Zenon DEF LoopState, rest
  <2> QED
    BY <1>4, <2>1, <2>2
<1>7. s.lit = <<>> => e = i
  <2>1. s.lit = <<>> => Len(s.lit) = 0
    OBVIOUS
  <2> QED
    BY <1>1, <2>1
<1>8. Hits(target, basis, bs, e) = {}
  BY <1>3, <1>7
<1> HIDE DEF e, i, n
<1>9. ASSUME NEW j \in e + 1..n - 1 PROVE ~Stops(target, basis, bs, j)
  <2>1. j \in Int /\ j # n /\ j < n /\ e \in 0..n
    BY <1>1, <1>2
  <2>2. CASE j < i
    <3>1. s.lit # <<>>
      BY <1>7, <2>1, <2>2
    <3>2. j \in e + 1..i - 1
      BY <1>1, <1>2, <2>1, <2>2
    <3> QED
      BY <1>3, <3>1, <3>2
  <2>3. CASE j = i
    BY <2>1, <2>3 DEF Stops, i, n
  <2>4. CASE j > i
    <3>1. ~(j + bs <= n + 1)
      BY <1>1, <2>1, <2>4 DEF i, n
    <3> QED
      BY <2>1, <3>1 DEF Stops, n
  <2> QED
    BY <1>1, <2>1, <2>2, <2>3, <2>4
<1>10. n - Len(t.lit) = e /\ e \in 0..n /\ ~(n < n)
  BY <1>1, <1>2, <1>5, <1>6
<1> QED
  BY <1>2, <1>6, <1>8, <1>9, <1>10, Zenon DEF Sound, Rolled, R, n

(* A byte without a match joins the literal.                               *)
LEMMA SoundSlide ==
  ASSUME NEW target \in Seq(Nat), NEW basis \in Seq(Nat), NEW bs \in Nat \ {0},
         NEW s, Sound(target, basis, bs, s), s.i < Len(target),
         Hits(target, basis, bs, s.i) = {}, s.i + bs <= Len(target), NEW sum,
         sum = IF s.i + 1 + bs <= Len(target)
               THEN weakChecksum(Window(target, bs, s.i + 1)) ELSE <<>>
  PROVE  Sound(target, basis, bs, Slide(s, target, sum))
<1> DEFINE n == Len(target)
           i == s.i
           e == i - Len(s.lit)
           t == Slide(s, target, sum)
           R == References(target, basis, bs)
<1>1. n \in Nat /\ s \in LoopState(target) /\ i \in 0..n - 1
  BY LenProperties DEF Sound, LoopState
<1>2. /\ e \in 0..i /\ s.lit = Slice(target, e, i) /\ s.ops \o R[e] = R[0]
      /\ Covers(target, basis, bs, s.ops, e)
  BY Zenon DEF Sound
<1>3. s.lit # <<>> => /\ Hits(target, basis, bs, e) = {}
                      /\ \A j \in e + 1..i - 1 : ~Stops(target, basis, bs, j)
  BY Zenon DEF Sound
<1>4. Append(s.lit, target[i + 1]) = Slice(target, e, i + 1)
  <2> HIDE DEF e, i, n
  <2>1. e \in Nat /\ i \in e..n - 1
    BY <1>1, <1>2
  <2>2. Append(Slice(target, e, i), target[i + 1]) = Slice(target, e, i + 1)
    BY <2>1, SliceAppend, Zenon DEF n
  <2> QED
    BY <1>2, <2>2, Zenon
<1>5. Slice(target, e, i + 1) \in Seq(Nat) /\ Len(Slice(target, e, i + 1)) = i + 1 - e
  <2> HIDE DEF e, i, n
  <2> DEFINE f == i + 1
  <2>1. e \in Nat /\ f \in e..n
    BY <1>1, <1>2
  <2> HIDE DEF f
  <2>2. Slice(target, e, f) \in Seq(Nat) /\ Len(Slice(target, e, f)) = f - e
    BY <2>1, SliceProperties, Zenon DEF n
  <2>3. f = i + 1 /\ f - e = i + 1 - e
    BY <1>1, <2>1 DEF f
  <2> QED
    BY <2>2, <2>3, Zenon
<1>6. sum \in {<<>>} \cup (Half \X Half)
  <2>1. CASE i + 1 + bs <= n
    <3>1. i + 1 \in Nat /\ bs \in Nat
      <4> HIDE DEF i, n
      <4> QED
        BY <1>1
    <3>2. Window(target, bs, i + 1) \in Seq(Nat)
      BY <2>1, <3>1, WindowProperties, Zenon DEF Window
    <3> QED
      BY <2>1, <3>2, ChecksumType, Zenon
  <2>2. CASE ~(i + 1 + bs <= n)
    BY <2>2
  <2> QED
    BY <2>1, <2>2
<1>7. /\ t.i = i + 1 /\ t.sum = sum /\ t.lit = Slice(target, e, i + 1) /\ t.ops = s.ops
      /\ t \in LoopState(target)
  <2>1. t.i = i + 1 /\ t.sum = sum /\ t.lit = Append(s.lit, target[i + 1]) /\ t.ops = s.ops
    BY <1>1 DEF LoopState, Slide
  <2>2. t \in LoopState(target)
    <3>1. Append(s.lit, target[i + 1]) \in Seq(Nat)
      BY <1>4, <1>5, Zenon
    <3>2. i + 1 \in 0..n
      <4> HIDE DEF i, n
      <4> QED
        BY <1>1
    <3> QED
      BY <1>1, <1>6, <3>1, <3>2, Zenon DEF LoopState, Half, Slide
  <2> QED
    BY <1>4, <2>1, <2>2
<1>8. s.lit = <<>> => e = i
  <2>1. s.lit = <<>> => Len(s.lit) = 0
    OBVIOUS
  <2> QED
    BY <1>1, <2>1
<1>9. Hits(target, basis, bs, e) = {}
  BY <1>3, <1>8
<1>10. Rolled(target, bs, t)
  <2> HIDE DEF t
  <2> QED
    BY <1>7, Zenon DEF Rolled
<1> HIDE DEF e, i, n, t
<1>11. ASSUME NEW j \in e + 1..(i + 1) - 1 PROVE ~Stops(target, basis, bs, j)
  <2>1. j \in Int /\ j # n /\ e \in 0..n /\ j <= i
    BY <1>1, <1>2
  <2>2. CASE j < i
    <3>1. s.lit # <<>>
      BY <1>8, <2>1, <2>2
    <3>2. j \in e + 1..i - 1
      BY <1>1, <1>2, <2>1, <2>2
    <3> QED
      BY <1>3, <3>1, <3>2
  <2>3. CASE j = i
    BY <2>1, <2>3 DEF Stops, i, n
  <2> QED
    BY <1>1, <2>1, <2>2, <2>3
<1>12. (i + 1) - Len(t.lit) = e /\ e \in 0..i + 1
  BY <1>1, <1>2, <1>5, <1>7
<1>13. i + 1 + bs <= n + 1
  BY <1>1 DEF i, n
<1>14. Sound(target, basis, bs, t)
  BY <1>2, <1>7, <1>9, <1>10, <1>11, <1>12, <1>13, Zenon DEF Sound, R, n
<1> QED
  BY <1>14, Zenon DEF t

LEMMA SoundBreak ==
  ASSUME NEW target \in Seq(Nat), NEW basis \in Seq(Nat), NEW bs \in Nat \ {0},
         NEW s, Sound(target, basis, bs, s), NEW t, t = [s EXCEPT !.sum = <<>>]
  PROVE  Sound(target, basis, bs, t)
<1>1. s \in LoopState(target)
  BY Zenon DEF Sound
<1>2. /\ t.i = s.i /\ t.lit = s.lit /\ t.ops = s.ops /\ t.sum = <<>>
      /\ t \in LoopState(target)
  BY <1>1, Zenon DEF LoopState
<1> QED
  BY <1>2, Zenon DEF Sound, Rolled

(* Each turn raises this until the end of the target.                      *)
Measure(s) == 2 * s.i + (IF s.sum = <<>> THEN 1 ELSE 0)

LEMMA SoundTurn ==
  ASSUME NEW target \in Seq(Nat), NEW basis \in Seq(Nat), NEW bs \in Nat \ {0},
         NEW s, Sound(target, basis, bs, s), NEW t,
         t = Turn(target, Sign(basis, bs), bs, s)
  PROVE  /\ Sound(target, basis, bs, t)
         /\ t.i = Len(target) \/ Measure(t) >= Measure(s) + 1
<1> DEFINE n == Len(target)
           hits == Hits(target, basis, bs, s.i)
           f == Reach(target, bs, s.i)
           sum == IF s.i + 1 + bs <= n THEN weakChecksum(Window(target, bs, s.i + 1)) ELSE <<>>
<1>1. n \in Nat /\ s \in LoopState(target) /\ s.i \in 0..n /\ Rolled(target, bs, s)
  BY LenProperties DEF Sound, LoopState
<1>2. Advances(target, basis, bs, s, t)
  BY <1>1, TurnAdvances, Zenon
<1>3. CASE s.i = n /\ t = s
  BY <1>3
<1>4. CASE s.i < n /\ hits # {} /\ t = Copied(s, hits, f)
  <2>1. Sound(target, basis, bs, t)
    BY <1>4, SoundCopied, Zenon
  <2>2. t.i = f /\ t.sum = <<>>
    BY <1>4 DEF Copied
  <2>3. f \in s.i + 1..n
    <3>1. s.i \in 0..n - 1
      BY <1>1, <1>4
    <3> QED
      BY <3>1, ReachAhead, Zenon
  <2> HIDE DEF f
  <2>4. Measure(t) >= Measure(s) + 1
    BY <1>1, <2>2, <2>3 DEF Measure
  <2> QED
    BY <2>1, <2>4
<1>5. CASE /\ s.i < n /\ hits = {} /\ s.i + bs > n
           /\ t = [s EXCEPT !.i = n, !.sum = <<>>, !.lit = @ \o Slice(target, s.i, n)]
  <2>1. Sound(target, basis, bs, t)
    BY <1>5, SoundRest, Zenon
  <2>2. t.i = n
    BY <1>1, <1>5 DEF LoopState
  <2> QED
    BY <2>1, <2>2
<1>6. CASE s.i < n /\ hits = {} /\ s.i + bs <= n /\ t = Slide(s, target, sum)
  <2>1. Sound(target, basis, bs, t)
    BY <1>6, SoundSlide, Zenon
  <2>2. t.i = s.i + 1
    <3> HIDE DEF sum
    <3> QED
      BY <1>1, <1>6 DEF LoopState, Slide
  <2>3. Measure(t) >= Measure(s) + 1
    BY <1>1, <2>2 DEF Measure
  <2> QED
    BY <2>1, <2>3
<1>7. CASE s.sum # <<>> /\ t = [s EXCEPT !.sum = <<>>]
  <2>1. Sound(target, basis, bs, t)
    BY <1>7, SoundBreak, Zenon
  <2>2. t.i = s.i /\ t.sum = <<>>
    BY <1>1, <1>7 DEF LoopState
  <2>3. Measure(t) >= Measure(s) + 1
    BY <1>1, <1>7, <2>2 DEF Measure
  <2> QED
    BY <2>1, <2>3
<1> QED
  BY <1>2, <1>3, <1>4, <1>5, <1>6, <1>7, Zenon DEF Advances

LEMMA SoundEnd ==
  ASSUME NEW target \in Seq(Nat), NEW basis \in Seq(Nat), NEW bs \in Nat \ {0},
         NEW end, end = Turns(target, Sign(basis, bs), bs)[2 * Len(target)]
  PROVE  Sound(target, basis, bs, end) /\ end.i = Len(target)
<1> DEFINE n == Len(target)
           sig == Sign(basis, bs)
           V == {s \in LoopState(target) : Sound(target, basis, bs, s)}
           next == [s \in LoopState(target) |-> Turn(target, sig, bs, s)]
           h == Turns(target, sig, bs)
           S == {k \in Nat : h[k].i = n \/ Measure(h[k]) >= k + 1}
<1>1. n \in Nat /\ 2 * n \in Nat
  BY LenProperties
<1>2. Start \in V
  BY SoundStart, Zenon DEF Sound
<1>3. ASSUME NEW v \in V PROVE next[v] = Turn(target, sig, bs, v) /\ next[v] \in V
  <2>1. next[v] = Turn(target, sig, bs, v)
    OBVIOUS
  <2>2. Sound(target, basis, bs, next[v])
    BY <2>1, SoundTurn, Zenon
  <2> QED
    BY <2>1, <2>2, Zenon DEF Sound
<1>4. h = Iterates(2 * n, Start, next)
  BY Zenon DEF Turns, Iterates
<1> HIDE DEF V, next, h, n, sig
<1>5. /\ h \in [0..2 * n -> V] /\ h[0] = Start
      /\ \A k \in 1..2 * n : h[k] = next[h[k - 1]]
  <2>1. \A v \in V : next[v] \in V
    BY <1>3
  <2> DEFINE m == 2 * n
  <2>2. m \in Nat /\ h = Iterates(m, Start, next)
    BY <1>1, <1>4
  <2> HIDE DEF m
  <2>3. /\ h \in [0..m -> V] /\ h[0] = Start
        /\ \A k \in 1..m : h[k] = next[h[k - 1]]
    BY <1>2, <2>1, <2>2, Iteration
  <2> QED
    BY <2>3 DEF m
<1>6. \A k \in 0..2 * n : Sound(target, basis, bs, h[k]) /\ h[k].i \in 0..n
  <2>1. \A v \in V : Sound(target, basis, bs, v) /\ v.i \in 0..n
    BY DEF V, LoopState, n
  <2> QED
    BY <1>5, <2>1
<1>7. 0 \in S
  BY <1>5 DEF Start, Measure
<1>8. ASSUME NEW k \in 0..2 * n - 1, k \in S PROVE k + 1 \in S
  <2>1. k + 1 \in 1..2 * n /\ (k + 1) - 1 = k /\ k \in 0..2 * n /\ k + 1 \in 0..2 * n
    BY <1>1
  <2>2. h[k + 1] = Turn(target, sig, bs, h[k])
    BY <1>3, <1>5, <2>1, Zenon
  <2> DEFINE s == h[k]
             t == h[k + 1]
  <2> HIDE DEF s, t
  <2>3. Sound(target, basis, bs, s) /\ t = Turn(target, Sign(basis, bs), bs, s)
    BY <1>6, <2>1, <2>2 DEF sig, s, t
  <2>4. t.i = n \/ Measure(t) >= Measure(s) + 1
    BY <2>3, SoundTurn, Zenon DEF n
  <2>5. s.i = n => t = s
    <3>1. s.i = n => Turn(target, Sign(basis, bs), bs, s) = s
      BY Zenon DEF Turn, n
    <3> QED
      BY <2>3, <3>1, Zenon
  <2>6. s.i \in 0..n /\ t.i \in 0..n
    BY <1>6, <2>1 DEF s, t
  <2>7. ASSUME NEW x, x.i \in 0..n PROVE Measure(x) \in Int
    <3> DEFINE m == x.i
    <3>1. m \in Int
      BY <1>1, <2>7
    <3> HIDE DEF m
    <3>2. Measure(x) = 2 * m + 1 \/ Measure(x) = 2 * m + 0
      BY Zenon DEF Measure, m
    <3> QED
      BY <3>1, <3>2
  <2>8. s.i = n \/ Measure(s) >= k + 1
    BY <1>8 DEF s
  <2>9. t.i = n \/ Measure(t) >= (k + 1) + 1
    <3>1. Measure(s) \in Int /\ Measure(t) \in Int
      BY <2>6, <2>7
    <3> QED
      BY <2>4, <2>5, <2>8, <3>1
  <2> QED
    BY <2>9 DEF t
<1>9. 2 * n \in S
  <2>1. 0..2 * n \subseteq S
    <3> HIDE DEF S
    <3> QED
      BY <1>1, <1>7, <1>8, InductionTo, Zenon
  <2> QED
    BY <1>1, <2>1
<1>10. end = h[2 * n] /\ 2 * n \in 0..2 * n
  BY <1>1 DEF h, n, sig
<1>11. end.i = n
  <2>1. end.i \in 0..n
    BY <1>6, <1>10
  <2>2. end.i = n \/ Measure(end) >= 2 * n + 1
    BY <1>9, <1>10
  <2> QED
    BY <1>1, <2>1, <2>2 DEF Measure
<1> QED
  BY <1>6, <1>10, <1>11 DEF n

(* The loops end, and flush what is pending.                               *)
LEMMA SearchEnds ==
  ASSUME NEW target \in Seq(Nat), NEW basis \in Seq(Nat), NEW bs \in Nat \ {0}
  PROVE  LET ops == Search(target, Sign(basis, bs), bs)
         IN /\ ops \in Seq(Op) /\ Covers(target, basis, bs, ops, Len(target))
            /\ ops = Reference(target, basis, bs)
<1> DEFINE end == Turns(target, Sign(basis, bs), bs)[2 * Len(target)]
           ops == Search(target, Sign(basis, bs), bs)
           R == References(target, basis, bs)
<1>1. Sound(target, basis, bs, end) /\ end.i = Len(target)
  BY SoundEnd, Zenon
<1>2. ops = end.ops \o flushLit(end.lit)
  BY Zenon DEF Search
<1> HIDE DEF end, ops, R
<1>3. /\ ops \in Seq(Op) /\ Covers(target, basis, bs, ops, Len(target))
      /\ ops \o R[Len(target)] = R[0]
  <2>1. /\ ops \in Seq(Op) /\ Covers(target, basis, bs, ops, end.i)
        /\ ops \o R[end.i] = R[0]
    BY <1>1, <1>2, Flushed, Zenon DEF R
  <2> QED
    BY <1>1, <2>1, Zenon
<1>4. R[Len(target)] = <<>>
  BY ReferencesDef, Zenon DEF R
<1>5. ops \o <<>> = ops
  BY <1>3, ConcatEmptySeq, Zenon
<1>6. R[0] = Reference(target, basis, bs)
  BY Zenon DEF Reference, R
<1> QED
  BY <1>3, <1>4, <1>5, <1>6, Zenon DEF ops

(* For all files and block sizes, the search of Encode by rolling          *)
(* checksums emits the operations of the direct search that compares       *)
(* contents at every position.                                             *)
THEOREM SearchIsGreedy ==
  ASSUME NEW target \in Seq(Nat), NEW basis \in Seq(Nat), NEW bs \in Nat \ {0}
  PROVE  Encode(target, Sign(basis, bs), bs).ops = Reference(target, basis, bs)
<1>1. Search(target, Sign(basis, bs), bs) = Reference(target, basis, bs)
  BY SearchEnds, Zenon
<1>2. Encode(target, Sign(basis, bs), bs).ops = Search(target, Sign(basis, bs), bs)
  BY DEF Encode
<1> QED
  BY <1>1, <1>2

(* For all files and block sizes, Apply over a basis of the delta Encode   *)
(* made from that basis's signature is the target, unless it is too large. *)
THEOREM RoundTrip ==
  ASSUME NEW target \in Seq(Nat), NEW basis \in Seq(Nat), NEW bs \in Nat \ {0}
  PROVE  Apply(basis, Encode(target, Sign(basis, bs), bs))
           = IF Len(target) > MaxOutput THEN Failed ELSE target
<1> DEFINE d == Encode(target, Sign(basis, bs), bs)
<1>1. d.bs = bs /\ d.output = Len(target) /\ d.ops = Search(target, Sign(basis, bs), bs)
  BY DEF Encode
<1> HIDE DEF d
<1>2. d.ops \in Seq(Op) /\ Covers(target, basis, d.bs, d.ops, Len(target))
  BY <1>1, SearchEnds, Zenon
<1>3. Apply(basis, d) = IF Len(target) > MaxOutput THEN Failed ELSE target
  BY <1>1, <1>2, CoversApply, Zenon
<1> QED
  BY <1>3, Zenon DEF d

=============================================================================

--------------------------- MODULE SolutionMapProofs ---------------------------
(***************************************************************************)
(* Proofs about the data of a solver that is built for a pattern and       *)
(* loaded again and again, for all problems and all scalings.  ScaledData  *)
(* relates what the solver holds to a problem, entry by entry, under the   *)
(* factors that are recorded; each pass of equilibrate keeps it, because a *)
(* factor after a factor is their product; and BatchInv carries it through *)
(* the loads, right-hand sides and solves of a solver's life.  Numbers are *)
(* those of a field of prime order: that sums follow their terms, that     *)
(* what is not 0 has a reciprocal, and that cones follow each other, is    *)
(* shown from the least exception, without induction over data.            *)
(***************************************************************************)
EXTENDS SolutionMap, FiniteSetTheorems, WellFoundedInduction, TLAPS

-----------------------------------------------------------------------------
(* The numbers of Field                                                      *)

\* A number and its remainder differ by a multiple of the prime.
LEMMA Remainder ==
  ASSUME NEW a \in Int
  PROVE  /\ Mod(a) \in Num /\ Mod(a) \in Int
         /\ \E q \in Int : a = Prime * q + Mod(a)
<1>1. (a % 263) \in 0..262
  OBVIOUS
<1>2. a = 263 * (a \div 263) + (a % 263) /\ a \div 263 \in Int
  OBVIOUS
<1>. QED  BY <1>1, <1>2 DEF Mod, Prime, Num

\* Multiples of the prime do not count.
LEMMA MultipleDrops ==
  ASSUME NEW a \in Int, NEW q \in Int
  PROVE  Mod(Prime * q + a) = Mod(a)
BY DEF Mod, Prime

\* A factor, and a term, may be replaced by its remainder.
LEMMA ModFactor ==
  ASSUME NEW a \in Int, NEW b \in Int
  PROVE  Mod(Mod(a) * b) = Mod(a * b) /\ Mod(b * Mod(a)) = Mod(a * b)
<1>1. PICK q \in Int : a = Prime * q + Mod(a)
  BY Remainder
<1>2. Mod(a) \in Int
  BY Remainder
<1>3. a * b = Prime * (q * b) + Mod(a) * b
  BY <1>1, <1>2 DEF Prime
<1>4. Mod(a) * b \in Int /\ q * b \in Int
  BY <1>2
<1>. QED  BY <1>2, <1>3, <1>4, MultipleDrops

\* A term may be replaced by its remainder.
LEMMA ModTerm ==
  ASSUME NEW a \in Int, NEW b \in Int
  PROVE  Mod(Mod(a) + b) = Mod(a + b) /\ Mod(b + Mod(a)) = Mod(a + b) /\ Mod(Mod(a)) = Mod(a)
BY DEF Mod, Prime

-----------------------------------------------------------------------------
(* Sums over lists.  What a fold computes is shown from the least member at  *)
(* which a claim about it would fail.                                        *)

\* A set of natural numbers with a member has a least one.
LEMMA LeastMember ==
  ASSUME NEW T, T \in SUBSET Nat, T # {}
  PROVE  \E n \in T : \A k \in Nat : k < n => k \notin T
<1>. DEFINE R == OpToRel(<, Nat)
<1>1. PICK n \in T : \A k \in T : <<k, n>> \notin R
  <2>1. IsWellFoundedOn(R, Nat)
    BY NatLessThanWellFounded
  <2>. HIDE DEF R
  <2>. QED  BY <2>1, WFMin
<1>2. \A k \in Nat : k < n => <<k, n>> \in R
  BY DEF OpToRel
<1>. QED  BY <1>1, <1>2

\* The partial sums of a list of integers.
PartialSums(s) ==
  CHOOSE f : f = [i \in 0..Len(s) |->
    IF i = 0 THEN 0 ELSE CHOOSE r \in {(before + s[i]) % Prime : before \in {f[i - 1]}} : TRUE]
\* FSum is the last of the partial sums.
LEMMA SumIsLastPartialSum ==
  ASSUME NEW s
  PROVE  FSum(s) = PartialSums(s)[Len(s)]
BY DEF FSum, Fold, PartialSums

\* There are partial sums, which start with 0 and add one member after the
\* other.
LEMMA PartialSumsExist ==
  ASSUME NEW s, Len(s) \in Nat
  PROVE  /\ PartialSums(s)[0] = 0
         /\ \A i \in 1..Len(s) : PartialSums(s)[i] = Mod(PartialSums(s)[i - 1] + s[i])
<1>. DEFINE Step(f, i) == CHOOSE r \in {(before + s[i]) % Prime : before \in {f[i - 1]}} : TRUE
            Sums(f, n) == f = [i \in 0..n |-> IF i = 0 THEN 0 ELSE Step(f, i)]
            Missing == {n \in Nat : ~ \E f : Sums(f, n)}
<1>1. \A n \in Nat : \E f : Sums(f, n)
  <2>1. SUFFICES ASSUME Missing # {} PROVE FALSE
    OBVIOUS
  <2>2. PICK n \in Missing : \A k \in Nat : k < n => k \notin Missing
    BY <2>1, LeastMember
  <2>3. n # 0
    <3>. DEFINE g == [i \in 0..0 |-> IF i = 0 THEN 0 ELSE Step([j \in {} |-> 0], i)]
    <3>1. Sums(g, 0)
      OBVIOUS
    <3>. QED  BY <3>1
  <2>4. PICK f : Sums(f, n - 1)
    <3>1. n - 1 \in Nat /\ n - 1 < n
      BY <2>3
    <3>2. n - 1 \notin Missing
      BY <2>2, <3>1
    <3>. QED  BY <3>1, <3>2
  <2>. DEFINE g == [i \in 0..n |-> IF i = n THEN Step(f, n) ELSE f[i]]
  <2>5. \A i \in 0..(n - 1) : g[i] = f[i]
    OBVIOUS
  <2>6. \A i \in 0..n : g[i] = IF i = 0 THEN 0 ELSE Step(g, i)
    <3>. SUFFICES ASSUME NEW i \in 0..n PROVE g[i] = IF i = 0 THEN 0 ELSE Step(g, i)
      OBVIOUS
    <3>1. CASE i = n
      BY <2>3, <2>5, <3>1
    <3>2. CASE i # n
      <4>1. i \in 0..(n - 1) /\ (i # 0 => i - 1 \in 0..(n - 1))
        BY <3>2
      <4>2. g[i] = f[i] /\ (i # 0 => g[i - 1] = f[i - 1])
        BY <2>5, <4>1
      <4>3. f[i] = IF i = 0 THEN 0 ELSE Step(f, i)
        BY <2>4, <4>1
      <4>. QED  BY <4>2, <4>3
    <3>. QED  BY <3>1, <3>2
  <2>7. Sums(g, n)
    BY <2>6
  <2>. QED  BY <2>7
<1>2. Sums(PartialSums(s), Len(s))
  BY <1>1 DEF PartialSums
<1>3. \A f, i : Step(f, i) = Mod(f[i - 1] + s[i])
  BY DEF Mod
<1>. HIDE DEF Step
<1>. QED  BY <1>2, <1>3

\* If every term has the remainder of t times another, so has the sum.
LEMMA SumScales ==
  ASSUME NEW s, NEW u, NEW t \in Int, Len(s) \in Nat, Len(u) = Len(s),
         \A k \in 1..Len(s) : s[k] \in Int /\ u[k] \in Int /\ Mod(u[k]) = Mod(s[k] * t)
  PROVE  FSum(s) \in Num /\ FSum(u) = Mod(FSum(s) * t)
<1>. DEFINE S == PartialSums(s)
            U == PartialSums(u)
            Wrong == {n \in Nat : n <= Len(s) /\ ~ (S[n] \in Num /\ U[n] = Mod(S[n] * t))}
<1>1. /\ S[0] = 0 /\ \A i \in 1..Len(s) : S[i] = Mod(S[i - 1] + s[i])
      /\ U[0] = 0 /\ \A i \in 1..Len(s) : U[i] = Mod(U[i - 1] + u[i])
  BY PartialSumsExist
<1>. HIDE DEF S, U
<1>2. Wrong = {}
  <2>1. SUFFICES ASSUME Wrong # {} PROVE FALSE
    OBVIOUS
  <2>2. PICK n \in Wrong : \A k \in Nat : k < n => k \notin Wrong
    BY <2>1, LeastMember
  <2>3. n # 0
    <3>1. 0 \in Num /\ Mod(0 * t) = 0
      BY DEF Num, Mod, Prime
    <3>. QED  BY <1>1, <3>1
  <2>4. n \in 1..Len(s) /\ n - 1 \in Nat /\ n - 1 < n
    BY <2>3
  <2>5. S[n - 1] \in Num /\ U[n - 1] = Mod(S[n - 1] * t)
    BY <2>2, <2>4
  <2>. DEFINE a == S[n - 1]
              b == s[n]
              v == u[n]
  <2>6. S[n] = Mod(a + b) /\ U[n] = Mod(Mod(a * t) + v) /\ Mod(v) = Mod(b * t)
    BY <1>1, <2>4, <2>5
  <2>7. a \in Int /\ b \in Int /\ v \in Int
    <3>1. Num \subseteq Int
      BY DEF Num, Prime
    <3>. QED  BY <2>4, <2>5, <3>1
  <2>. HIDE DEF a, b, v
  <2>8. Mod(Mod(a * t) + v) = Mod((a + b) * t)
    <3>1. Mod(Mod(a * t) + v) = Mod(a * t + Mod(v))
      <4>1. a * t \in Int
        BY <2>7
      <4>. QED  BY <4>1, <2>7, ModTerm
    <3>2. Mod(a * t + Mod(v)) = Mod(a * t + b * t)
      <4>1. a * t \in Int /\ b * t \in Int
        BY <2>7
      <4>. QED  BY <4>1, <2>6, ModTerm
    <3>3. a * t + b * t = (a + b) * t
      BY <2>7
    <3>. QED  BY <3>1, <3>2, <3>3
  <2>9. Mod((a + b) * t) = Mod(S[n] * t) /\ S[n] \in Num
    <3>1. a + b \in Int
      BY <2>7
    <3>. QED  BY <2>6, <3>1, ModFactor, Remainder
  <2>. QED  BY <2>4, <2>6, <2>8, <2>9
<1>3. FSum(s) = S[Len(s)] /\ FSum(u) = U[Len(s)]
  BY SumIsLastPartialSum DEF S, U
<1>. QED  BY <1>2, <1>3

-----------------------------------------------------------------------------
(* Division                                                                  *)

\* The modulus is a prime.
LEMMA NoDivisor ==
  ASSUME NEW a \in 2..(Prime - 1), NEW q \in Int
  PROVE  a * q # Prime
<1>. SUFFICES ASSUME a * q = 263 PROVE FALSE
  BY DEF Prime
<1>1. a \in 2..262
  BY DEF Prime
<1>2. ASSUME NEW d \in 2..16, NEW k \in Int, d * k = 263 PROVE FALSE
  <2>1. \/ d = 2 \/ d = 3 \/ d = 4 \/ d = 5 \/ d = 6 \/ d = 7 \/ d = 8 \/ d = 9
        \/ d = 10 \/ d = 11 \/ d = 12 \/ d = 13 \/ d = 14 \/ d = 15 \/ d = 16
    OBVIOUS
  <2>. QED  BY <1>2, <2>1
<1>3. CASE a \in 2..16
  BY <1>2, <1>3
<1>4. CASE a \notin 2..16
  <2>1. a >= 17
    BY <1>1, <1>4
  <2>2. q >= 2
    <3>1. CASE q <= 0
      BY <1>1, <3>1
    <3>2. CASE q = 1
      BY <1>1, <3>2
    <3>. QED  BY <3>1, <3>2
  <2>3. q <= 16
    <3>. SUFFICES ASSUME q >= 17 PROVE FALSE
      OBVIOUS
    <3>1. a * q >= 17 * q
      BY <1>1, <2>1, <2>2
    <3>. QED  BY <3>1
  <2>4. q * a = 263
    BY <1>1
  <2>. QED  BY <1>1, <1>2, <2>2, <2>3, <2>4
<1>. QED  BY <1>3, <1>4

\* Every number but zero has a reciprocal: the remainder of the prime by it is
\* smaller, and gives it one.
LEMMA Reciprocals ==
  ASSUME NEW a \in 1..(Prime - 1)
  PROVE  \E b \in 1..(Prime - 1) : Mod(a * b) = 1
<1>. DEFINE Has1(c) == \E b \in 1..(Prime - 1) : Mod(c * b) = 1
            Without == {c \in Nat : c \in 1..(Prime - 1) /\ ~Has1(c)}
<1>1. Without = {}
  <2>1. SUFFICES ASSUME Without # {} PROVE FALSE
    OBVIOUS
  <2>2. PICK c \in Without : \A k \in Nat : k < c => k \notin Without
    BY <2>1, LeastMember
  <2>3. c # 1
    <3>1. Mod(1 * 1) = 1 /\ 1 \in 1..(Prime - 1)
      BY DEF Mod, Prime
    <3>. QED  BY <3>1
  <2>4. c \in 2..(Prime - 1)
    BY <2>3
  <2>. DEFINE q == 263 \div c
              r == 263 % c
  <2>5. 263 = c * q + r /\ q \in Int /\ r \in 0..(c - 1)
    BY <2>4 DEF Prime
  <2>. HIDE DEF q, r
  <2>6. r # 0
    BY <2>4, <2>5, NoDivisor DEF Prime
  <2>7. r \in Nat /\ r < c /\ r \in 1..(Prime - 1)
    BY <2>4, <2>5, <2>6 DEF Prime
  <2>8. PICK b \in 1..(Prime - 1) : Mod(r * b) = 1
    BY <2>2, <2>7
  <2>. DEFINE k == Mod((-q) * b)
  <2>9. Mod(c * k) = 1
    <3>1. c \in Int /\ b \in Int /\ (-q) * b \in Int
      BY <2>4, <2>5, <2>8 DEF Prime
    <3>2. Mod(c * k) = Mod(((-q) * b) * c)
      BY <3>1, ModFactor
    <3>3. ((-q) * b) * c = Prime * (-b) + r * b
      <4>1. c * q = 263 - r /\ r \in Int
        BY <2>4, <2>5
      <4>2. ((-q) * b) * c = -((c * q) * b)
        BY <2>5, <3>1
      <4>3. (263 - r) * b = 263 * b - r * b
        BY <3>1, <4>1
      <4>. QED  BY <3>1, <4>1, <4>2, <4>3 DEF Prime
    <3>4. Mod(Prime * (-b) + r * b) = Mod(r * b)
      <4>1. -b \in Int /\ r * b \in Int
        BY <2>7, <3>1
      <4>. QED  BY <4>1, MultipleDrops
    <3>. QED  BY <2>8, <3>2, <3>3, <3>4
  <2>10. k \in 1..(Prime - 1)
    <3>1. (-q) * b \in Int
      BY <2>5, <2>8 DEF Prime
    <3>2. k \in Num
      BY <3>1, Remainder
    <3>3. k # 0
      BY <2>4, <2>9 DEF Mod, Prime
    <3>. QED  BY <3>2, <3>3 DEF Num, Prime
  <2>. QED  BY <2>9, <2>10
<1>2. a \in Nat
  BY DEF Prime
<1>. QED  BY <1>1, <1>2

\* A number whose remainder is not zero times its reciprocal is one.
LEMMA RecipIsInverse ==
  ASSUME NEW a \in Int, Mod(a) # 0
  PROVE  /\ Recip(a) \in 1..(Prime - 1) /\ Recip(a) \in Int
         /\ Mod(a * Recip(a)) = 1 /\ Mod(Recip(a) * a) = 1 /\ Mod(Recip(a)) # 0
<1>1. Mod(a) \in 1..(Prime - 1) /\ Mod(a) \in Int
  BY Remainder DEF Num, Prime
<1>2. PICK b \in 1..(Prime - 1) : Mod(Mod(a) * b) = 1
  BY <1>1, Reciprocals
<1>3. Recip(a) = CHOOSE c \in 1..(Prime - 1) : (Mod(a) * c) % Prime = 1
  BY <1>1 DEF Recip, RecipOf
<1>4. Recip(a) \in 1..(Prime - 1) /\ Mod(Mod(a) * Recip(a)) = 1
  BY <1>2, <1>3 DEF Mod
<1>5. Recip(a) \in Int /\ Mod(Recip(a)) # 0
  <2>1. \A r \in 1..(Prime - 1) : r \in Int /\ Mod(r) # 0
    BY DEF Prime, Mod
  <2>. QED  BY <1>4, <2>1
<1>6. Mod(Mod(a) * Recip(a)) = Mod(a * Recip(a))
  BY <1>5, ModFactor
<1>7. a * Recip(a) = Recip(a) * a
  BY <1>5
<1>. QED  BY <1>4, <1>5, <1>6, <1>7

-----------------------------------------------------------------------------
(* Matrices under a scaling of their rows, columns and as a whole            *)

LEMMA ModProduct ==
  ASSUME NEW a \in Int, NEW b \in Int, NEW c \in Int, NEW d \in Int, Mod(a) = Mod(c), Mod(b) = Mod(d)
  PROVE  Mod(a * b) = Mod(c * d)
<1>1. Mod(a * b) = Mod(Mod(a) * b) /\ Mod(c * b) = Mod(Mod(c) * b)
  BY ModFactor
<1>2. Mod(c * b) = Mod(c * Mod(b)) /\ Mod(c * d) = Mod(c * Mod(d))
  BY ModFactor
<1>. QED  BY <1>1, <1>2

\* The same as a law that can be asked for by its terms.
Congruent(a, b, c, d) == Mod(a) = Mod(c) /\ Mod(b) = Mod(d) => Mod(a * b) = Mod(c * d)
\* Products of numbers with equal remainders have equal remainders.
LEMMA Congruence == \A a, b, c, d \in Int : Congruent(a, b, c, d)
BY ModProduct DEF Congruent

\* Scaled by (c, l, r), and again by (k, u, v).
ScaleLaw(x, y, c, l, r, k, u, v, c2, l2, r2) ==
  Mod(y) = Mod(x * (c * (l * r))) /\ Mod(c2) = Mod(c * k) /\ Mod(l2) = Mod(l * u) /\ Mod(r2) = Mod(r * v)
    => Mod(y * k * u * v) = Mod(x * (c2 * (l2 * r2)))
\* A factor after a factor is the product of the factors.
LEMMA ScaledTwice == \A x, y, c, l, r, k, u, v, c2, l2, r2 \in Int : ScaleLaw(x, y, c, l, r, k, u, v, c2, l2, r2)
<1>. TAKE x, y, c, l, r, k, u, v, c2, l2, r2 \in Int
<1>. SUFFICES ASSUME Mod(y) = Mod(x * (c * (l * r))), Mod(c2) = Mod(c * k), Mod(l2) = Mod(l * u), Mod(r2) = Mod(r * v)
              PROVE  Mod(y * k * u * v) = Mod(x * (c2 * (l2 * r2)))
  BY DEF ScaleLaw
<1>. DEFINE lr2 == l2 * r2
            lr == (l * u) * (r * v)
            clr2 == c2 * lr2
            clr == (c * k) * lr
            w == k * u * v
            h == x * (c * (l * r))
<1>1. /\ l * u \in Int /\ r * v \in Int /\ c * k \in Int /\ lr2 \in Int /\ lr \in Int
      /\ clr2 \in Int /\ clr \in Int /\ w \in Int /\ h \in Int
  OBVIOUS
<1>2. /\ Congruent(l2, r2, l * u, r * v) /\ Congruent(c2, lr2, c * k, lr)
      /\ Congruent(x, clr2, x, clr) /\ Congruent(y, w, h, w)
  <2>. HIDE DEF lr2, lr, clr2, clr, w, h
  <2>. QED  BY <1>1, Congruence
<1>3. Mod(x * clr2) = Mod(x * clr) /\ Mod(y * w) = Mod(h * w)
  BY <1>2 DEF Congruent
<1>4. h * w = x * clr
  OBVIOUS
<1>5. y * w = y * k * u * v
  OBVIOUS
<1>. QED  BY <1>3, <1>4, <1>5

\* Entries of a matrix are pairs of a row of the matrix and a number.
LEMMA MatrixEntries ==
  ASSUME NEW M, IsMatrix(M)
  PROVE  /\ M.m \in Nat /\ M.n \in Nat /\ DOMAIN M = {"m", "n", "col"}
         /\ DOMAIN M.col = 1..M.n
         /\ \A j \in 1..M.n :
              /\ M.col[j] \in Seq(Nat \X Int) /\ Len(M.col[j]) \in Nat /\ DOMAIN M.col[j] = 1..Len(M.col[j])
              /\ \A k \in DOMAIN M.col[j] :
                   /\ M.col[j][k][1] \in 1..M.m /\ M.col[j][k][2] \in Int
                   /\ M.col[j][k] = <<M.col[j][k][1], M.col[j][k][2]>>
<1>1. /\ M \in [m : Nat, n : Nat, col : Seq(Seq((Nat \ {0}) \X Int))]
      /\ Len(M.col) = M.n
      /\ \A j \in 1..M.n : Rows(M, j) \subseteq 1..M.m
  BY DEF IsMatrix
<1>2. /\ M.m \in Nat /\ M.n \in Nat /\ DOMAIN M = {"m", "n", "col"}
      /\ M.col \in Seq(Seq((Nat \ {0}) \X Int))
  BY <1>1
<1>3. DOMAIN M.col = 1..M.n
  BY <1>1, <1>2
<1>4. ASSUME NEW j \in 1..M.n
      PROVE  /\ M.col[j] \in Seq(Nat \X Int) /\ Len(M.col[j]) \in Nat /\ DOMAIN M.col[j] = 1..Len(M.col[j])
             /\ \A k \in DOMAIN M.col[j] :
                  /\ M.col[j][k][1] \in 1..M.m /\ M.col[j][k][2] \in Int
                  /\ M.col[j][k] = <<M.col[j][k][1], M.col[j][k][2]>>
  <2>1. M.col[j] \in Seq((Nat \ {0}) \X Int)
    BY <1>2, <1>3
  <2>2. Len(M.col[j]) \in Nat /\ DOMAIN M.col[j] = 1..Len(M.col[j])
    BY <2>1
  <2>3. \A k \in DOMAIN M.col[j] : M.col[j][k] \in (Nat \ {0}) \X Int
    BY <2>1
  <2>4. \A k \in DOMAIN M.col[j] : M.col[j][k][1] \in Rows(M, j)
    BY DEF Rows
  <2>5. M.col[j] \in Seq(Nat \X Int)
    <3>1. (Nat \ {0}) \X Int \subseteq Nat \X Int
      OBVIOUS
    <3>. QED  BY <2>1, <2>2, <2>3, <3>1
  <2>. QED  BY <1>1, <2>2, <2>3, <2>4, <2>5
<1>. QED  BY <1>2, <1>3, <1>4

\* Entry by entry, N is M times c, the factor of the row and that of the column.
ScaledMatrix(N, M, c, l, r) ==
  /\ IsMatrix(N) /\ N.m = M.m /\ N.n = M.n
  /\ \A j \in 1..M.n :
       /\ DOMAIN N.col[j] = DOMAIN M.col[j]
       /\ \A k \in DOMAIN M.col[j] :
            /\ N.col[j][k][1] = M.col[j][k][1]
            /\ Mod(N.col[j][k][2]) = Mod(M.col[j][k][2] * (c * (l[M.col[j][k][1]] * r[j])))

\* Factors of 1 leave a matrix as it is.
LEMMA UnscaledMatrix ==
  ASSUME NEW M, IsMatrix(M), NEW l, NEW r, \A i \in 1..M.m : l[i] = 1, \A j \in 1..M.n : r[j] = 1
  PROVE  ScaledMatrix(M, M, 1, l, r)
<1>. SUFFICES ASSUME NEW j \in 1..M.n, NEW k \in DOMAIN M.col[j]
              PROVE  M.col[j][k][2] * (1 * (l[M.col[j][k][1]] * r[j])) = M.col[j][k][2]
  BY DEF ScaledMatrix
<1>1. M.col[j][k][1] \in 1..M.m /\ M.col[j][k][2] \in Int
  BY MatrixEntries
<1>2. l[M.col[j][k][1]] = 1 /\ r[j] = 1
  BY <1>1
<1>. QED  BY <1>1, <1>2

\* Numbers given for 1, ..., n are a list.
LEMMA FunctionIsSeq ==
  ASSUME NEW S, NEW n \in Nat, NEW f \in [1..n -> S]
  PROVE  f \in Seq(S) /\ Len(f) = n
OBVIOUS

\* What FScale and FLRScale store.
LEMMA RescaledEntries ==
  ASSUME NEW N, IsMatrix(N), NEW k \in Int, NEW u, NEW v,
         \A i \in 1..N.m : u[i] \in Int, \A j \in 1..N.n : v[j] \in Int,
         NEW R, R = ModMatrix(Rescaled(N, k, u, v))
  PROVE  /\ IsMatrix(R) /\ R.m = N.m /\ R.n = N.n
         /\ \A j \in 1..N.n :
              /\ DOMAIN R.col[j] = DOMAIN N.col[j]
              /\ \A e \in DOMAIN N.col[j] :
                   /\ R.col[j][e][1] = N.col[j][e][1]
                   /\ R.col[j][e][2] = Mod(N.col[j][e][2] * k * u[N.col[j][e][1]] * v[j])
<1>. DEFINE S == Rescaled(N, k, u, v)
            Entry(j, e) == <<N.col[j][e][1], N.col[j][e][2] * k * u[N.col[j][e][1]] * v[j]>>
            Entries == [j \in 1..N.n |-> [e \in DOMAIN N.col[j] |-> Entry(j, e)]]
            Stored(j, e) == <<N.col[j][e][1], Mod(N.col[j][e][2] * k * u[N.col[j][e][1]] * v[j])>>
            Kept(j) == [e \in DOMAIN N.col[j] |-> Stored(j, e)]
            StoredColumns == [j \in 1..N.n |-> Kept(j)]
<1>1. N \in [m : Nat, n : Nat, col : Seq(Seq((Nat \ {0}) \X Int))]
  BY DEF IsMatrix
<1>2. S = [m |-> N.m, n |-> N.n, col |-> Entries]
  <2>1. S = [N EXCEPT !.col = Entries]
    BY DEF Rescaled
  <2>. HIDE DEF S, Entries
  <2>. QED  BY <1>1, <2>1
<1>3. R = [m |-> N.m, n |-> N.n, col |-> StoredColumns]
  <2>. DEFINE C == [j \in 1..S.n |-> [e \in DOMAIN S.col[j] |-> <<S.col[j][e][1], Mod(S.col[j][e][2])>>]]
  <2>1. R = [S EXCEPT !.col = C]
    BY DEF ModMatrix
  <2>2. S.m = N.m /\ S.n = N.n /\ S.col = Entries
    <3>. HIDE DEF S, Entries
    <3>. QED  BY <1>2
  <2>3. ASSUME NEW j \in 1..N.n
        PROVE  [e \in DOMAIN S.col[j] |-> <<S.col[j][e][1], Mod(S.col[j][e][2])>>] = Kept(j)
    <3>1. S.col[j] = [e \in DOMAIN N.col[j] |-> Entry(j, e)]
      <4>1. Entries[j] = [e \in DOMAIN N.col[j] |-> Entry(j, e)]
        <5>. HIDE DEF Entry
        <5>. QED  OBVIOUS
      <4>. HIDE DEF S, Entries, Entry
      <4>. QED  BY <2>2, <4>1
    <3>2. DOMAIN S.col[j] = DOMAIN N.col[j] /\ \A e \in DOMAIN N.col[j] : S.col[j][e] = Entry(j, e)
      <4>. HIDE DEF S, Entries, Entry
      <4>. QED  BY <3>1
    <3>3. ASSUME NEW e \in DOMAIN N.col[j] PROVE <<S.col[j][e][1], Mod(S.col[j][e][2])>> = Stored(j, e)
      <4>. DEFINE p == N.col[j][e][2] * k * u[N.col[j][e][1]] * v[j]
      <4>1. S.col[j][e] = <<N.col[j][e][1], p>> /\ Stored(j, e) = <<N.col[j][e][1], Mod(p)>>
        <5>1. Entry(j, e) = <<N.col[j][e][1], p>> /\ Stored(j, e) = <<N.col[j][e][1], Mod(p)>>
          OBVIOUS
        <5>. HIDE DEF S, Entry, Stored, p
        <5>. QED  BY <3>2, <5>1
      <4>. HIDE DEF S, Stored, p
      <4>. QED  BY <4>1
    <3>. HIDE DEF S, Stored
    <3>. QED  BY <3>2, <3>3
  <2>4. C = StoredColumns
    <3>. HIDE DEF S, Kept
    <3>. QED  BY <2>2, <2>3
  <2>. HIDE DEF S, C, StoredColumns, Entries
  <2>. QED  BY <1>2, <2>1, <2>4
<1>4. ASSUME NEW j \in 1..N.n, NEW e \in DOMAIN N.col[j]
      PROVE  /\ Stored(j, e)[1] = N.col[j][e][1] /\ Stored(j, e)[1] \in 1..N.m
             /\ Stored(j, e) \in (Nat \ {0}) \X Int
  <2>1. N.col[j][e][1] \in 1..N.m /\ N.col[j][e][2] \in Int /\ N.m \in Nat
    BY MatrixEntries
  <2>2. N.col[j][e][2] * k * u[N.col[j][e][1]] * v[j] \in Int
    BY <2>1
  <2>3. Mod(N.col[j][e][2] * k * u[N.col[j][e][1]] * v[j]) \in Int
    BY <2>2, Remainder
  <2>. QED  BY <2>1, <2>3
<1>5. /\ R.m = N.m /\ R.n = N.n
      /\ \A j \in 1..N.n : R.col[j] = Kept(j)
      /\ DOMAIN R.col = 1..N.n
  <2>. HIDE DEF Kept
  <2>. QED  BY <1>3
<1>6. \A j \in 1..N.n :
         /\ DOMAIN R.col[j] = DOMAIN N.col[j]
         /\ \A e \in DOMAIN N.col[j] :
              /\ R.col[j][e][1] = N.col[j][e][1]
              /\ R.col[j][e][2] = Mod(N.col[j][e][2] * k * u[N.col[j][e][1]] * v[j])
  <2>. SUFFICES ASSUME NEW j \in 1..N.n, NEW e \in DOMAIN N.col[j]
                PROVE  /\ DOMAIN Kept(j) = DOMAIN N.col[j]
                       /\ Kept(j)[e][1] = N.col[j][e][1]
                       /\ Kept(j)[e][2] = Mod(N.col[j][e][2] * k * u[N.col[j][e][1]] * v[j])
    <3>1. \A j \in 1..N.n : DOMAIN Kept(j) = DOMAIN N.col[j]
      OBVIOUS
    <3>. HIDE DEF Kept
    <3>. QED  BY <1>5, <3>1
  <2>. DEFINE p == Mod(N.col[j][e][2] * k * u[N.col[j][e][1]] * v[j])
  <2>1. Stored(j, e) = <<N.col[j][e][1], p>>
    OBVIOUS
  <2>. HIDE DEF Stored, p
  <2>2. Kept(j)[e] = Stored(j, e)
    OBVIOUS
  <2>3. Kept(j)[e][1] = N.col[j][e][1] /\ Kept(j)[e][2] = p
    <3>. HIDE DEF Kept
    <3>. QED  BY <2>1, <2>2
  <2>. QED  BY <2>3 DEF p
<1>7. IsMatrix(R)
  <2>1. \A j \in 1..N.n : R.col[j] \in Seq((Nat \ {0}) \X Int)
    <3>. SUFFICES ASSUME NEW j \in 1..N.n PROVE R.col[j] \in Seq((Nat \ {0}) \X Int)
      OBVIOUS
    <3>1. DOMAIN N.col[j] = 1..Len(N.col[j]) /\ Len(N.col[j]) \in Nat
      BY MatrixEntries
    <3>2. \A e \in DOMAIN N.col[j] : Stored(j, e) \in (Nat \ {0}) \X Int
      BY <1>4
    <3>3. Kept(j) \in [1..Len(N.col[j]) -> (Nat \ {0}) \X Int]
      <4>. HIDE DEF Stored
      <4>. QED  BY <3>1, <3>2
    <3>. HIDE DEF Kept
    <3>. QED  BY <1>5, <3>1, <3>3, FunctionIsSeq
  <2>2. R.col \in Seq(Seq((Nat \ {0}) \X Int)) /\ Len(R.col) = R.n
    <3>1. N.n \in Nat /\ R.col = StoredColumns
      <4>. HIDE DEF StoredColumns
      <4>. QED  BY <1>1, <1>3
    <3>2. R.col \in [1..N.n -> Seq((Nat \ {0}) \X Int)]
      <4>. HIDE DEF Kept
      <4>. QED  BY <1>5, <2>1, <3>1
    <3>. DEFINE T == Seq((Nat \ {0}) \X Int)
    <3>. HIDE DEF T
    <3>3. R.col \in Seq(T) /\ Len(R.col) = N.n
      BY <3>1, <3>2, FunctionIsSeq DEF T
    <3>. QED  BY <1>5, <3>3 DEF T
  <2>3. R \in [m : Nat, n : Nat, col : Seq(Seq((Nat \ {0}) \X Int))]
    <3>. HIDE DEF StoredColumns
    <3>. QED  BY <1>1, <1>3, <2>2
  <2>4. \A j \in 1..R.n : Rows(R, j) \subseteq 1..R.m
    <3>. SUFFICES ASSUME NEW j \in 1..N.n, NEW e \in DOMAIN N.col[j] PROVE R.col[j][e][1] \in 1..N.m
      BY <1>5, <1>6 DEF Rows
    <3>. QED  BY <1>4, <1>6, MatrixEntries
  <2>. QED  BY <2>2, <2>3, <2>4 DEF IsMatrix
<1>. QED  BY <1>5, <1>6, <1>7

\* A scaled matrix, scaled again.
LEMMA ScaledAgain ==
  ASSUME NEW N, NEW M, IsMatrix(M), NEW c \in Int, NEW l, NEW r,
         ScaledMatrix(N, M, c, l, r),
         NEW k \in Int, NEW u, NEW v, NEW c2 \in Int, NEW l2, NEW r2,
         Mod(c2) = Mod(c * k),
         \A i \in 1..M.m : l[i] \in Int /\ u[i] \in Int /\ l2[i] \in Int /\ Mod(l2[i]) = Mod(l[i] * u[i]),
         \A j \in 1..M.n : r[j] \in Int /\ v[j] \in Int /\ r2[j] \in Int /\ Mod(r2[j]) = Mod(r[j] * v[j])
  PROVE  ScaledMatrix(ModMatrix(Rescaled(N, k, u, v)), M, c2, l2, r2)
<1>. DEFINE R == ModMatrix(Rescaled(N, k, u, v))
<1>1. IsMatrix(N) /\ N.m = M.m /\ N.n = M.n
  BY DEF ScaledMatrix
<1>2. /\ IsMatrix(R) /\ R.m = N.m /\ R.n = N.n
      /\ \A j \in 1..N.n :
           /\ DOMAIN R.col[j] = DOMAIN N.col[j]
           /\ \A e \in DOMAIN N.col[j] :
                /\ R.col[j][e][1] = N.col[j][e][1]
                /\ R.col[j][e][2] = Mod(N.col[j][e][2] * k * u[N.col[j][e][1]] * v[j])
  <2>1. (\A i \in 1..N.m : u[i] \in Int) /\ (\A j \in 1..N.n : v[j] \in Int)
    BY <1>1
  <2>. HIDE DEF R
  <2>2. R = ModMatrix(Rescaled(N, k, u, v))
    BY DEF R
  <2>. QED  BY <1>1, <2>1, <2>2, RescaledEntries
<1>. HIDE DEF R
<1>3. ASSUME NEW j \in 1..M.n, NEW e \in DOMAIN M.col[j]
      PROVE  /\ R.col[j][e][1] = M.col[j][e][1]
             /\ Mod(R.col[j][e][2]) = Mod(M.col[j][e][2] * (c2 * (l2[M.col[j][e][1]] * r2[j])))
  <2>1. PICK i \in 1..M.m : i = M.col[j][e][1]
    BY MatrixEntries
  <2>2. PICK x \in Int : x = M.col[j][e][2]
    BY MatrixEntries
  <2>3. /\ DOMAIN N.col[j] = DOMAIN M.col[j] /\ N.col[j][e][1] = i
        /\ Mod(N.col[j][e][2]) = Mod(x * (c * (l[i] * r[j])))
    BY <2>1, <2>2 DEF ScaledMatrix
  <2>4. PICK y \in Int : y = N.col[j][e][2]
    BY <1>1, <2>3, MatrixEntries
  <2>5. R.col[j][e][1] = i /\ R.col[j][e][2] = Mod(y * k * u[i] * v[j])
    BY <1>1, <1>2, <2>3, <2>4
  <2>6. l[i] \in Int /\ u[i] \in Int /\ l2[i] \in Int /\ Mod(l2[i]) = Mod(l[i] * u[i])
    OBVIOUS
  <2>7. r[j] \in Int /\ v[j] \in Int /\ r2[j] \in Int /\ Mod(r2[j]) = Mod(r[j] * v[j])
    OBVIOUS
  <2>8. Mod(y * k * u[i] * v[j]) = Mod(x * (c2 * (l2[i] * r2[j])))
    <3>. DEFINE li == l[i]
                ui == u[i]
                l2i == l2[i]
                rj == r[j]
                vj == v[j]
                r2j == r2[j]
    <3>1. /\ Mod(y) = Mod(x * (c * (li * rj))) /\ li \in Int /\ ui \in Int /\ l2i \in Int /\ Mod(l2i) = Mod(li * ui)
          /\ rj \in Int /\ vj \in Int /\ r2j \in Int /\ Mod(r2j) = Mod(rj * vj)
      BY <2>3, <2>4, <2>6, <2>7
    <3>. HIDE DEF li, ui, l2i, rj, vj, r2j
    <3>2. ScaleLaw(x, y, c, li, rj, k, ui, vj, c2, l2i, r2j)
      BY <3>1, ScaledTwice
    <3>3. Mod(y * k * ui * vj) = Mod(x * (c2 * (l2i * r2j)))
      BY <3>1, <3>2 DEF ScaleLaw
    <3>. QED  BY <3>3 DEF ui, vj, l2i, r2j
  <2>9. Mod(R.col[j][e][2]) = R.col[j][e][2]
    <3>1. y * k * u[i] * v[j] \in Int
      BY <2>6, <2>7
    <3>. HIDE <1>2
    <3>. DEFINE p == y * k * u[i] * v[j]
    <3>2. p \in Int /\ R.col[j][e][2] = Mod(p)
      BY <2>5, <3>1
    <3>. HIDE DEF p
    <3>. QED  BY <3>2, ModTerm
  <2>. QED  BY <2>1, <2>2, <2>5, <2>8, <2>9
<1>4. \A j \in 1..M.n : DOMAIN R.col[j] = DOMAIN M.col[j]
  BY <1>1, <1>2 DEF ScaledMatrix
<1>5. ScaledMatrix(R, M, c2, l2, r2)
  BY <1>1, <1>2, <1>3, <1>4 DEF ScaledMatrix
<1>. QED  BY <1>5 DEF R

-----------------------------------------------------------------------------
(* The data of a problem under a scaling                                     *)

\* A problem as it can be scaled.
Scalable(prob) ==
  /\ IsMatrix(prob.P) /\ IsMatrix(prob.A)
  /\ prob.P.m = prob.P.n /\ prob.A.n = prob.P.n
  /\ DOMAIN prob.q = 1..prob.P.n /\ \A j \in 1..prob.P.n : prob.q[j] \in Int
  /\ DOMAIN prob.b = 1..prob.A.m
  /\ \A i \in 1..prob.A.m : Clamped(prob.b)[i] \in Int /\ Mod(Clamped(prob.b)[i]) = Clamped(prob.b)[i]

IsData(data) ==
  data = [P |-> data.P, q |-> data.q, A |-> data.A, b |-> data.b, cones |-> data.cones, xcones |-> data.xcones,
          kept |-> data.kept, d |-> data.d, e |-> data.e, c |-> data.c, normq |-> data.normq, normb |-> data.normb]

\* The data are those of a problem under the scaling that is recorded.
ScaledData(data, prob) ==
  /\ data.d \in [1..prob.P.n -> Int] /\ data.e \in [1..prob.A.m -> Int] /\ data.c \in Int
  /\ ScaledMatrix(data.P, prob.P, data.c, data.d, data.d)
  /\ ScaledMatrix(data.A, prob.A, 1, data.e, data.d)
  /\ data.q = [j \in 1..prob.P.n |-> data.q[j]]
  /\ \A j \in 1..prob.P.n : data.q[j] = Mod(prob.q[j] * (data.c * data.d[j]))
  /\ DOMAIN data.b = 1..prob.A.m /\ \A i \in 1..prob.A.m : data.b[i] = Mod(Clamped(prob.b)[i] * data.e[i])

\* A member of a scaled vector, scaled again.
VectorLaw(x, c, l, k, u, c2, l2) ==
  Mod(c2) = Mod(c * k) /\ Mod(l2) = Mod(l * u) => Mod(Mod(x * (c * l)) * k * u) = Mod(x * (c2 * l2))
\* The same, for a member of a vector.
LEMMA VectorScaledTwice == \A x, c, l, k, u, c2, l2 \in Int : VectorLaw(x, c, l, k, u, c2, l2)
<1>. TAKE x, c, l, k, u, c2, l2 \in Int
<1>. SUFFICES ASSUME Mod(c2) = Mod(c * k), Mod(l2) = Mod(l * u)
              PROVE  Mod(Mod(x * (c * l)) * k * u) = Mod(x * (c2 * l2))
  BY DEF VectorLaw
<1>. DEFINE p == x * (c * l)
            y == Mod(p)
<1>1. y \in Int /\ Mod(y) = y /\ Mod(y) = Mod(p)
  <2>1. p \in Int
    OBVIOUS
  <2>. HIDE DEF p
  <2>. QED  BY <2>1, Remainder, ModTerm
<1>. HIDE DEF y
<1>2. ScaleLaw(x, y, c, l, 1, k, u, 1, c2, l2, 1)
  <2>. DEFINE one == 1
  <2>1. one \in Int
    OBVIOUS
  <2>. HIDE DEF one
  <2>2. ScaleLaw(x, y, c, l, one, k, u, one, c2, l2, one)
    BY <1>1, <2>1, ScaledTwice
  <2>. QED  BY <2>2 DEF one
<1>3. c * (l * 1) = c * l /\ y * k * u * 1 = y * k * u /\ c2 * (l2 * 1) = c2 * l2 /\ 1 * 1 = 1
  BY <1>1
<1>4. Mod(y * k * u) = Mod(x * (c2 * l2))
  BY ONLY <1>1, <1>2, <1>3, Mod(c2) = Mod(c * k), Mod(l2) = Mod(l * u) DEF ScaleLaw, p
<1>. QED  BY <1>4 DEF y, p

\* A list scaled by another.
ListLaw(n, s, u, v) ==
  n \in Nat /\ s \in [1..n -> Int] /\ (\A j \in 1..n : u[j] \in Int) /\ v = Times(s, u)
    => /\ v \in [1..n -> Int]
       /\ \A j \in 1..n : s[j] \in Int /\ v[j] \in Int /\ Mod(v[j]) = Mod(s[j] * u[j])
\* Its members are the products.
LEMMA ScalingLists == \A n, s, u, v : ListLaw(n, s, u, v)
<1>. SUFFICES ASSUME NEW n \in Nat, NEW s \in [1..n -> Int], NEW u, \A j \in 1..n : u[j] \in Int
              PROVE  /\ Times(s, u) \in [1..n -> Int]
                     /\ \A j \in 1..n : s[j] \in Int /\ Times(s, u)[j] \in Int /\ Mod(Times(s, u)[j]) = Mod(s[j] * u[j])
  BY DEF ListLaw
<1>1. DOMAIN Times(s, u) = 1..n
  BY DEF Times
<1>2. ASSUME NEW j \in 1..n PROVE Times(s, u)[j] \in Int /\ Mod(Times(s, u)[j]) = Mod(s[j] * u[j])
  <2>. DEFINE p == s[j] * u[j]
  <2>1. Times(s, u)[j] = Mod(p)
    BY DEF Times
  <2>2. p \in Int
    OBVIOUS
  <2>. HIDE DEF p
  <2>3. Times(s, u)[j] \in Int /\ Mod(Times(s, u)[j]) = Mod(p)
    BY <2>1, <2>2, Remainder, ModTerm
  <2>. QED  BY <2>3 DEF p
<1>3. Times(s, u) = [j \in 1..n |-> Times(s, u)[j]]
  BY <1>1 DEF Times
<1>. QED  BY <1>2, <1>3

\* scale_data
LEMMA ScaleDataKeeps ==
  ASSUME NEW prob, Scalable(prob), NEW data, IsData(data), ScaledData(data, prob),
         NEW d, NEW e, \A j \in 1..prob.P.n : d[j] \in Int, \A i \in 1..prob.A.m : e[i] \in Int,
         NEW R, R = ScaleData(data, d, e)
  PROVE  /\ IsData(R) /\ ScaledData(R, prob)
         /\ R.cones = data.cones /\ R.xcones = data.xcones /\ R.kept = data.kept
         /\ R.normq = data.normq /\ R.normb = data.normb
         /\ R.d = Times(data.d, d) /\ R.e = Times(data.e, e)
<1>1. R = [P |-> FLRScale(data.P, d, d), q |-> Times(data.q, d), A |-> FLRScale(data.A, e, d), b |-> Times(data.b, e),
           cones |-> data.cones, xcones |-> data.xcones, kept |-> data.kept,
           d |-> Times(data.d, d), e |-> Times(data.e, e), c |-> data.c,
           normq |-> data.normq, normb |-> data.normb]
  BY DEF ScaleData, IsData
<1>2. IsData(R)
  BY <1>1 DEF IsData
<1>3. prob.P.n \in Nat /\ prob.A.m \in Nat /\ prob.P.m = prob.P.n /\ prob.A.n = prob.P.n /\ IsMatrix(prob.P) /\ IsMatrix(prob.A)
  BY MatrixEntries DEF Scalable
<1>4. /\ R.d \in [1..prob.P.n -> Int]
      /\ \A j \in 1..prob.P.n : data.d[j] \in Int /\ R.d[j] \in Int /\ Mod(R.d[j]) = Mod(data.d[j] * d[j])
  <2>1. data.d \in [1..prob.P.n -> Int]
    BY DEF ScaledData
  <2>2. R.d = Times(data.d, d)
    BY <1>1
  <2>3. ListLaw(prob.P.n, data.d, d, R.d)
    BY ScalingLists
  <2>. QED  BY <1>3, <2>1, <2>2, <2>3 DEF ListLaw
<1>5. /\ R.e \in [1..prob.A.m -> Int]
      /\ \A i \in 1..prob.A.m : data.e[i] \in Int /\ R.e[i] \in Int /\ Mod(R.e[i]) = Mod(data.e[i] * e[i])
  <2>1. data.e \in [1..prob.A.m -> Int]
    BY DEF ScaledData
  <2>2. R.e = Times(data.e, e)
    BY <1>1
  <2>3. ListLaw(prob.A.m, data.e, e, R.e)
    BY ScalingLists
  <2>. QED  BY <1>3, <2>1, <2>2, <2>3 DEF ListLaw
<1>6. data.c \in Int /\ R.c = data.c /\ Mod(data.c) = Mod(data.c * 1) /\ Mod(1) = Mod(1 * 1)
  <2>1. data.c \in Int /\ R.c = data.c
    BY <1>1 DEF ScaledData
  <2>. QED  BY <2>1
<1>7. ScaledMatrix(R.P, prob.P, R.c, R.d, R.d)
  <2>1. ScaledMatrix(data.P, prob.P, data.c, data.d, data.d)
    BY DEF ScaledData
  <2>2. R.P = ModMatrix(Rescaled(data.P, 1, d, d))
    BY <1>1 DEF FLRScale, LRScale
  <2>3. \A j \in 1..prob.P.n : data.d[j] \in Int /\ d[j] \in Int /\ R.d[j] \in Int /\ Mod(R.d[j]) = Mod(data.d[j] * d[j])
    BY <1>4
  <2>. DEFINE M == prob.P
              N == data.P
              l == data.d
              l2 == R.d
              c == data.c
              one == 1
  <2>4. /\ IsMatrix(M) /\ ScaledMatrix(N, M, c, l, l) /\ c \in Int /\ one \in Int /\ Mod(c) = Mod(c * one)
        /\ \A i \in 1..M.m : l[i] \in Int /\ d[i] \in Int /\ l2[i] \in Int /\ Mod(l2[i]) = Mod(l[i] * d[i])
        /\ \A j \in 1..M.n : l[j] \in Int /\ d[j] \in Int /\ l2[j] \in Int /\ Mod(l2[j]) = Mod(l[j] * d[j])
    BY <1>3, <1>6, <2>1, <2>3
  <2>. HIDE DEF M, N, l, l2, c, one
  <2>5. ScaledMatrix(ModMatrix(Rescaled(N, one, d, d)), M, c, l2, l2)
    BY ONLY <2>4, ScaledAgain
  <2>. QED  BY <1>6, <2>2, <2>5 DEF M, N, l, l2, c, one
<1>8. ScaledMatrix(R.A, prob.A, 1, R.e, R.d)
  <2>1. ScaledMatrix(data.A, prob.A, 1, data.e, data.d)
    BY DEF ScaledData
  <2>2. R.A = ModMatrix(Rescaled(data.A, 1, e, d))
    BY <1>1 DEF FLRScale, LRScale
  <2>. DEFINE M == prob.A
              N == data.A
              l == data.e
              l2 == R.e
              r == data.d
              r2 == R.d
              one == 1
  <2>3. /\ IsMatrix(M) /\ ScaledMatrix(N, M, one, l, r) /\ one \in Int /\ Mod(one) = Mod(one * one)
        /\ \A i \in 1..M.m : l[i] \in Int /\ e[i] \in Int /\ l2[i] \in Int /\ Mod(l2[i]) = Mod(l[i] * e[i])
        /\ \A j \in 1..M.n : r[j] \in Int /\ d[j] \in Int /\ r2[j] \in Int /\ Mod(r2[j]) = Mod(r[j] * d[j])
    BY <1>3, <1>4, <1>5, <1>6, <2>1
  <2>. HIDE DEF M, N, l, l2, r, r2, one
  <2>4. ScaledMatrix(ModMatrix(Rescaled(N, one, e, d)), M, one, l2, r2)
    BY ONLY <2>3, ScaledAgain
  <2>. QED  BY <2>2, <2>4 DEF M, N, l, l2, r, r2, one
<1>9. R.q = [j \in 1..prob.P.n |-> R.q[j]] /\ \A j \in 1..prob.P.n : R.q[j] = Mod(prob.q[j] * (R.c * R.d[j]))
  <2>0. DOMAIN data.q = 1..prob.P.n
    BY DEF ScaledData
  <2>1. R.q = [j \in 1..prob.P.n |-> R.q[j]] /\ \A j \in 1..prob.P.n : R.q[j] = Mod(data.q[j] * d[j])
    BY <1>1, <2>0 DEF Times
  <2>2. ASSUME NEW j \in 1..prob.P.n PROVE R.q[j] = Mod(prob.q[j] * (R.c * R.d[j]))
    <3>1. data.q[j] = Mod(prob.q[j] * (data.c * data.d[j])) /\ prob.q[j] \in Int /\ d[j] \in Int
      BY DEF ScaledData, Scalable
    <3>. DEFINE y == Mod(prob.q[j] * (data.c * data.d[j]))
    <3>2. VectorLaw(prob.q[j], data.c, data.d[j], 1, d[j], data.c, R.d[j])
      <4>. DEFINE one == 1
      <4>1. one \in Int
        OBVIOUS
      <4>. HIDE DEF one
      <4>2. VectorLaw(prob.q[j], data.c, data.d[j], one, d[j], data.c, R.d[j])
        BY <1>4, <1>6, <3>1, <4>1, VectorScaledTwice
      <4>. QED  BY <4>2 DEF one
    <3>3. y \in Int
      <4>. DEFINE p == prob.q[j] * (data.c * data.d[j])
      <4>1. p \in Int
        BY <1>4, <1>6, <3>1
      <4>. HIDE DEF p
      <4>2. Mod(p) \in Int
        BY <4>1, Remainder
      <4>. QED  BY <4>2 DEF p
    <3>4. Mod(y * 1 * d[j]) = Mod(prob.q[j] * (data.c * R.d[j]))
      BY <1>4, <1>6, <3>2 DEF VectorLaw
    <3>. HIDE DEF y
    <3>5. y * 1 * d[j] = y * d[j]
      BY <3>1, <3>3
    <3>6. R.q[j] = Mod(y * d[j])
      BY <2>1, <3>1 DEF y
    <3>. QED  BY <1>6, <3>4, <3>5, <3>6
  <2>. QED  BY <2>1, <2>2
<1>10. DOMAIN R.b = 1..prob.A.m /\ \A i \in 1..prob.A.m : R.b[i] = Mod(Clamped(prob.b)[i] * R.e[i])
  <2>1. DOMAIN R.b = 1..prob.A.m /\ \A i \in 1..prob.A.m : R.b[i] = Mod(data.b[i] * e[i])
    BY <1>1 DEF Times, ScaledData
  <2>2. ASSUME NEW i \in 1..prob.A.m PROVE R.b[i] = Mod(Clamped(prob.b)[i] * R.e[i])
    <3>. DEFINE x == Clamped(prob.b)[i]
                y == Mod(x * data.e[i])
    <3>1. data.b[i] = y /\ x \in Int /\ e[i] \in Int
      BY DEF ScaledData, Scalable
    <3>. HIDE DEF x
    <3>2. VectorLaw(x, 1, data.e[i], 1, e[i], 1, R.e[i])
      <4>. DEFINE one == 1
      <4>1. one \in Int
        OBVIOUS
      <4>. HIDE DEF one
      <4>2. VectorLaw(x, one, data.e[i], one, e[i], one, R.e[i])
        BY <1>5, <3>1, <4>1, VectorScaledTwice
      <4>. QED  BY <4>2 DEF one
    <3>3. y \in Int
      <4>. DEFINE p == x * data.e[i]
      <4>1. p \in Int
        BY <1>5, <3>1
      <4>. HIDE DEF p
      <4>2. Mod(p) \in Int
        BY <4>1, Remainder
      <4>. QED  BY <4>2 DEF p
    <3>4. 1 * data.e[i] = data.e[i] /\ 1 * R.e[i] = R.e[i]
      BY <1>5
    <3>5. Mod(y * 1 * e[i]) = Mod(x * R.e[i])
      BY <1>5, <1>6, <3>2, <3>4 DEF VectorLaw
    <3>. HIDE DEF y
    <3>6. y * 1 * e[i] = y * e[i]
      BY <3>1, <3>3
    <3>7. R.b[i] = Mod(y * e[i])
      BY <2>1, <3>1
    <3>. QED  BY <3>5, <3>6, <3>7 DEF x
  <2>. QED  BY <2>1, <2>2
<1>. QED  BY <1>1, <1>2, <1>4, <1>5, <1>6, <1>7, <1>8, <1>9, <1>10 DEF ScaledData

\* The scaling of the cost.
LEMMA ScaleCostKeeps ==
  ASSUME NEW prob, Scalable(prob), NEW data, IsData(data), ScaledData(data, prob),
         NEW k \in Int, NEW R, R = ScaleCost(data, k)
  PROVE  /\ IsData(R) /\ ScaledData(R, prob)
         /\ R.cones = data.cones /\ R.xcones = data.xcones /\ R.kept = data.kept
         /\ R.normq = data.normq /\ R.normb = data.normb /\ R.d = data.d /\ R.e = data.e
<1>1. R = [P |-> FScale(data.P, k), q |-> By(k, data.q), A |-> data.A, b |-> data.b,
           cones |-> data.cones, xcones |-> data.xcones, kept |-> data.kept,
           d |-> data.d, e |-> data.e, c |-> Mod(data.c * k),
           normq |-> data.normq, normb |-> data.normb]
  BY DEF ScaleCost, IsData
<1>2. IsData(R)
  BY <1>1 DEF IsData
<1>3. prob.P.n \in Nat /\ prob.P.m = prob.P.n /\ IsMatrix(prob.P)
  BY MatrixEntries DEF Scalable
<1>4. data.c \in Int /\ \A j \in 1..prob.P.n : data.d[j] \in Int
  BY DEF ScaledData
<1>5. R.c \in Int /\ Mod(R.c) = Mod(data.c * k)
  <2>. DEFINE p == data.c * k
  <2>1. p \in Int /\ R.c = Mod(p)
    BY <1>1, <1>4
  <2>. HIDE DEF p
  <2>2. R.c \in Int /\ Mod(R.c) = Mod(p)
    BY <2>1, Remainder, ModTerm
  <2>. QED  BY <2>2 DEF p
<1>6. ScaledMatrix(R.P, prob.P, R.c, data.d, data.d)
  <2>1. ScaledMatrix(data.P, prob.P, data.c, data.d, data.d) /\ data.P.m = prob.P.m /\ data.P.n = prob.P.n
    BY DEF ScaledData, ScaledMatrix
  <2>2. R.P = ModMatrix(Rescaled(data.P, k, ConstantSeq(1, data.P.m), ConstantSeq(1, data.P.n)))
    BY <1>1 DEF FScale, Scale
  <2>. DEFINE M == prob.P
              N == data.P
              l == data.d
              c == data.c
              c2 == R.c
              u == ConstantSeq(1, data.P.m)
              v == ConstantSeq(1, data.P.n)
  <2>3. ASSUME NEW j \in 1..prob.P.n
        PROVE  l[j] \in Int /\ u[j] \in Int /\ v[j] \in Int /\ Mod(l[j]) = Mod(l[j] * u[j]) /\ Mod(l[j]) = Mod(l[j] * v[j])
    <3>1. u[j] = 1 /\ v[j] = 1
      BY <1>3, <2>1 DEF ConstantSeq
    <3>2. l[j] \in Int
      BY <1>4
    <3>3. l[j] * 1 = l[j]
      BY <3>2
    <3>. HIDE DEF l, u, v
    <3>. QED  BY <3>1, <3>2, <3>3
  <2>4. /\ IsMatrix(M) /\ ScaledMatrix(N, M, c, l, l) /\ c \in Int /\ c2 \in Int /\ Mod(c2) = Mod(c * k)
        /\ \A i \in 1..M.m : l[i] \in Int /\ u[i] \in Int /\ l[i] \in Int /\ Mod(l[i]) = Mod(l[i] * u[i])
        /\ \A j \in 1..M.n : l[j] \in Int /\ v[j] \in Int /\ l[j] \in Int /\ Mod(l[j]) = Mod(l[j] * v[j])
    <3>. HIDE DEF u, v
    <3>. QED  BY <1>3, <1>4, <1>5, <2>1, <2>3
  <2>. HIDE DEF M, N, l, c, c2, u, v
  <2>5. ScaledMatrix(ModMatrix(Rescaled(N, k, u, v)), M, c2, l, l)
    BY ONLY <2>4, k \in Int, ScaledAgain
  <2>. QED  BY <2>2, <2>5 DEF M, N, l, c, c2, u, v
<1>7. R.q = [j \in 1..prob.P.n |-> R.q[j]] /\ \A j \in 1..prob.P.n : R.q[j] = Mod(prob.q[j] * (R.c * data.d[j]))
  <2>0. DOMAIN data.q = 1..prob.P.n
    BY DEF ScaledData
  <2>1. R.q = [j \in 1..prob.P.n |-> R.q[j]] /\ \A j \in 1..prob.P.n : R.q[j] = Mod(k * data.q[j])
    BY <1>1, <2>0 DEF By
  <2>2. ASSUME NEW j \in 1..prob.P.n PROVE R.q[j] = Mod(prob.q[j] * (R.c * data.d[j]))
    <3>. DEFINE x == prob.q[j]
                c == data.c
                l == data.d[j]
                c2 == R.c
                p == x * (c * l)
                y == Mod(p)
                one == 1
    <3>1. /\ x \in Int /\ c \in Int /\ l \in Int /\ c2 \in Int /\ one \in Int
          /\ Mod(c2) = Mod(c * k) /\ l * one = l /\ data.q[j] = y
      <4>1. data.q[j] = y
        BY DEF ScaledData
      <4>2. x \in Int
        BY DEF Scalable
      <4>. HIDE DEF y
      <4>. QED  BY <1>4, <1>5, <4>1, <4>2
    <3>. HIDE DEF x, c, l, c2
    <3>2. VectorLaw(x, c, l, k, one, c2, l)
      <4>. HIDE DEF one
      <4>. QED  BY <3>1, VectorScaledTwice
    <3>3. y \in Int
      <4>1. p \in Int
        BY <3>1
      <4>. HIDE DEF p
      <4>. QED  BY <4>1, Remainder
    <3>4. Mod(y * k * 1) = Mod(x * (c2 * l))
      BY <3>1, <3>2 DEF VectorLaw
    <3>. HIDE DEF y
    <3>5. y * k * 1 = k * y
      BY <3>3
    <3>6. Mod(k * y) = Mod(x * (c2 * l))
      BY <3>4, <3>5
    <3>7. R.q[j] = Mod(k * y)
      BY <2>1, <3>1
    <3>. QED  BY <3>6, <3>7 DEF x, c2, l
  <2>. QED  BY <2>1, <2>2
<1>. QED  BY <1>1, <1>2, <1>5, <1>6, <1>7 DEF ScaledData

-----------------------------------------------------------------------------
(* Cones                                                                     *)

\* What is defined by recursion on a natural number exists.
Recursive(D, base, n, G) ==
  base \in D /\ n \in Nat /\ G \in [D \X (1..n) -> D]
    => \E f \in [0..n -> D] : f[0] = base /\ \A i \in 1..n : f[i] = G[<<f[i - 1], i>>]
\* A function can be defined by recursion over 0..n.
LEMMA RecursionExists == \A D, base, n, G : Recursive(D, base, n, G)
<1>. TAKE D, base, n, G
<1>. SUFFICES ASSUME base \in D, n \in Nat, G \in [D \X (1..n) -> D]
              PROVE  \E f \in [0..n -> D] : f[0] = base /\ \A i \in 1..n : f[i] = G[<<f[i - 1], i>>]
  BY DEF Recursive
<1>. DEFINE Made(m, f) == f \in [0..m -> D] /\ f[0] = base /\ \A i \in 1..m : f[i] = G[<<f[i - 1], i>>]
            Missing == {m \in Nat : m <= n /\ ~ \E f : Made(m, f)}
<1>1. SUFFICES ASSUME Missing # {} PROVE FALSE
  <2>1. Missing = {} => \E f : Made(n, f)
    <3>. HIDE DEF Made
    <3>. QED  OBVIOUS
  <2>. QED  BY <2>1
<1>2. PICK m \in Missing : \A k \in Nat : k < m => k \notin Missing
  BY <1>1, LeastMember
<1>3. m # 0
  <2>. DEFINE g == [i \in 0..0 |-> base]
  <2>1. Made(0, g)
    OBVIOUS
  <2>. QED  BY <1>2, <2>1
<1>4. m - 1 \in Nat /\ m - 1 < m /\ m - 1 <= n /\ m \in 1..n
  BY <1>3
<1>5. PICK f : Made(m - 1, f)
  BY <1>2, <1>4
<1>. DEFINE g == [i \in 0..m |-> IF i = m THEN G[<<f[m - 1], m>>] ELSE f[i]]
<1>6. \A i \in 0..(m - 1) : g[i] = f[i] /\ f[i] \in D
  BY <1>4, <1>5
<1>7. G[<<f[m - 1], m>>] \in D
  <2>1. m - 1 \in 0..(m - 1)
    BY <1>4
  <2>2. f[m - 1] \in D
    BY <1>6, <2>1
  <2>3. <<f[m - 1], m>> \in D \X (1..n)
    BY <1>4, <2>2
  <2>. HIDE DEF g
  <2>. QED  BY <2>3
<1>8. g \in [0..m -> D] /\ g[0] = base
  BY <1>4, <1>5, <1>6, <1>7
<1>9. ASSUME NEW i \in 1..m PROVE g[i] = G[<<g[i - 1], i>>]
  <2>1. i - 1 \in 0..(m - 1) /\ g[i - 1] = f[i - 1]
    BY <1>4, <1>6
  <2>2. CASE i = m
    <3>1. g[m] = G[<<f[m - 1], m>>]
      OBVIOUS
    <3>. HIDE DEF g
    <3>. QED  BY <2>1, <2>2, <3>1
  <2>3. CASE i # m
    <3>1. i \in 1..(m - 1)
      BY <1>4, <2>3
    <3>. QED  BY <1>5, <1>6, <2>1, <3>1
  <2>. QED  BY <2>2, <2>3
<1>10. Made(m, g)
  BY <1>8, <1>9
<1>. QED  BY <1>2, <1>10

\* Sums of the members before a place, one from the other.
LEMMA SumByPartialSums ==
  ASSUME NEW n \in Nat, NEW s \in [1..n -> Int]
  PROVE  \E f \in [0..n -> Int] : f[0] = 0 /\ (\A i \in 1..n : f[i] = f[i - 1] + s[i]) /\ Sum(s) = f[n]
<1>. DEFINE Step(f, i) == CHOOSE r \in {before + s[i] : before \in {f[i - 1]}} : TRUE
            Sums(f) == f = [i \in 0..n |-> IF i = 0 THEN 0 ELSE Step(f, i)]
            G == [p \in Int \X (1..n) |-> p[1] + s[p[2]]]
<1>1. \A f, i : Step(f, i) = f[i - 1] + s[i]
  OBVIOUS
<1>2. G \in [Int \X (1..n) -> Int] /\ \A a \in Int, i \in 1..n : G[<<a, i>>] = a + s[i]
  OBVIOUS
<1>. HIDE DEF Step, G
<1>3. PICK g \in [0..n -> Int] : g[0] = 0 /\ \A i \in 1..n : g[i] = G[<<g[i - 1], i>>]
  <2>. DEFINE zero == 0
              D == Int
  <2>1. zero \in D /\ G \in [D \X (1..n) -> D]
    BY <1>2
  <2>. HIDE DEF zero, D
  <2>2. \E g \in [0..n -> D] : g[0] = zero /\ \A i \in 1..n : g[i] = G[<<g[i - 1], i>>]
    <3>1. Recursive(D, zero, n, G)
      BY RecursionExists
    <3>. QED  BY <2>1, <3>1 DEF Recursive
  <2>. QED  BY <2>2 DEF zero, D
<1>4. \A i \in 1..n : g[i] = g[i - 1] + s[i]
  <2>. SUFFICES ASSUME NEW i \in 1..n PROVE g[i] = g[i - 1] + s[i]
    OBVIOUS
  <2>1. i - 1 \in 0..n
    OBVIOUS
  <2>. QED  BY <1>2, <1>3, <2>1
<1>5. Sums(g)
  <2>1. ASSUME NEW i \in 0..n PROVE g[i] = IF i = 0 THEN 0 ELSE Step(g, i)
    <3>1. Step(g, i) = g[i - 1] + s[i]
      BY <1>1
    <3>2. CASE i = 0
      BY <1>3, <3>2
    <3>3. CASE i # 0
      <4>1. i \in 1..n
        BY <3>3
      <4>. QED  BY <1>4, <3>1, <3>3, <4>1
    <3>. QED  BY <3>2, <3>3
  <2>. QED  BY <2>1
<1>. DEFINE h == CHOOSE f : Sums(f)
<1>6. Sums(h)
  BY <1>5
<1>7. Len(s) = n
  BY FunctionIsSeq
<1>8. Sum(s) = h[n]
  BY <1>7 DEF Sum, Fold, Step
<1>. HIDE DEF h
<1>9. h[0] = 0 /\ (\A i \in 1..n : h[i] = h[i - 1] + s[i]) /\ DOMAIN h = 0..n
  <2>1. DOMAIN h = 0..n /\ \A i \in 0..n : h[i] = IF i = 0 THEN 0 ELSE Step(h, i)
    BY <1>6
  <2>2. ASSUME NEW i \in 1..n PROVE h[i] = h[i - 1] + s[i]
    <3>1. i \in 0..n /\ i # 0
      OBVIOUS
    <3>2. Step(h, i) = h[i - 1] + s[i]
      BY <1>1
    <3>. QED  BY <2>1, <3>1, <3>2
  <2>3. 0 \in 0..n
    OBVIOUS
  <2>. QED  BY <2>1, <2>2, <2>3
<1>10. \A i \in 0..n : h[i] = g[i]
  <2>. DEFINE Wrong == {i \in Nat : i <= n /\ h[i] # g[i]}
  <2>1. SUFFICES ASSUME Wrong # {} PROVE FALSE
    OBVIOUS
  <2>2. PICK i \in Wrong : \A k \in Nat : k < i => k \notin Wrong
    BY <2>1, LeastMember
  <2>3. i # 0
    BY <1>3, <1>9
  <2>4. i \in 1..n /\ i - 1 \in Nat /\ i - 1 < i
    BY <2>3
  <2>5. h[i - 1] = g[i - 1]
    BY <2>2, <2>4
  <2>. QED  BY <1>4, <1>9, <2>4, <2>5
<1>. QED  BY <1>3, <1>4, <1>8, <1>10

\* Cones follow one another.
LEMMA ConesFollow ==
  ASSUME NEW cones, NEW n \in Nat, DOMAIN cones = 1..n, \A k \in 1..n : cones[k].dim \in Nat,
         NEW k \in 1..n, NEW l \in 1..n, k < l
  PROVE  /\ Offset(Dims(cones), k) \in Int /\ Offset(Dims(cones), l) \in Int
         /\ Offset(Dims(cones), k) + cones[k].dim <= Offset(Dims(cones), l)
<1>. DEFINE dims == Dims(cones)
            s == [a \in 1..(l - 1) |-> dims[a]]
            t == [a \in 1..(k - 1) |-> dims[a]]
            h == l - 1
            o == k - 1
<1>1. \A a \in 1..n : dims[a] = cones[a].dim /\ dims[a] \in Nat
  BY DEF Dims
<1>2. h \in Nat /\ o \in Nat /\ s \in [1..h -> Int] /\ t \in [1..o -> Int] /\ o < h
  <2>. HIDE DEF dims
  <2>. QED  BY <1>1
<1>3. \A a \in 1..h : s[a] = dims[a] /\ s[a] \in Nat
  <2>. HIDE DEF dims
  <2>. QED  BY <1>1
<1>4. \A a \in 1..o : t[a] = s[a]
  <2>. HIDE DEF dims
  <2>. QED  OBVIOUS
<1>5. Offset(dims, k) = Sum(t) /\ Offset(dims, l) = Sum(s) /\ k = o + 1 /\ k \in 1..h /\ s[k] = cones[k].dim
  <2>1. Offset(dims, k) = Sum(t) /\ Offset(dims, l) = Sum(s)
    BY DEF Offset
  <2>2. k \in 1..h /\ k = o + 1
    OBVIOUS
  <2>. HIDE DEF s, dims
  <2>. QED  BY <1>1, <1>3, <2>1, <2>2
<1>. HIDE DEF dims, s, t, h, o
<1>6. PICK f \in [0..h -> Int] : f[0] = 0 /\ (\A i \in 1..h : f[i] = f[i - 1] + s[i]) /\ Sum(s) = f[h]
  BY <1>2, SumByPartialSums
<1>7. PICK g \in [0..o -> Int] : g[0] = 0 /\ (\A i \in 1..o : g[i] = g[i - 1] + t[i]) /\ Sum(t) = g[o]
  BY <1>2, SumByPartialSums
<1>8. g[o] = f[o]
  <2>. DEFINE Wrong == {i \in Nat : i <= o /\ g[i] # f[i]}
  <2>1. SUFFICES ASSUME Wrong # {} PROVE FALSE
    <3>1. o \in Nat /\ o <= o
      BY <1>2
    <3>. QED  BY <3>1
  <2>2. PICK i \in Wrong : \A a \in Nat : a < i => a \notin Wrong
    BY <2>1, LeastMember
  <2>3. i # 0
    BY <1>6, <1>7
  <2>4. i \in 1..o /\ i \in 1..h /\ i - 1 \in Nat /\ i - 1 < i /\ i - 1 <= o
    BY <1>2, <2>3
  <2>5. g[i - 1] = f[i - 1]
    BY <2>2, <2>4
  <2>6. g[i] = g[i - 1] + t[i] /\ f[i] = f[i - 1] + s[i] /\ t[i] = s[i]
    BY <1>4, <1>6, <1>7, <2>4
  <2>. QED  BY <2>5, <2>6
<1>9. f[h] >= f[k]
  <2>. DEFINE Wrong == {i \in Nat : k <= i /\ i <= h /\ ~(f[i] >= f[k])}
  <2>1. SUFFICES ASSUME Wrong # {} PROVE FALSE
    <3>1. h \in Nat /\ k <= h
      BY <1>2, <1>5
    <3>. QED  BY <3>1
  <2>2. PICK i \in Wrong : \A a \in Nat : a < i => a \notin Wrong
    BY <2>1, LeastMember
  <2>3. f[k] \in Int /\ f[i] \in Int
    BY <1>2, <1>5, <1>6
  <2>4. i # k
    BY <2>3
  <2>5. i \in 1..h /\ i - 1 \in Nat /\ i - 1 < i /\ k <= i - 1 /\ i - 1 <= h /\ i - 1 \in 0..h
    BY <1>2, <2>4
  <2>6. f[i - 1] >= f[k]
    BY <2>2, <2>5
  <2>7. f[i] = f[i - 1] + s[i] /\ s[i] \in Nat /\ f[i - 1] \in Int
    BY <1>3, <1>6, <2>5
  <2>. QED  BY <2>3, <2>6, <2>7
<1>10. f[k] = f[o] + s[k] /\ f[o] \in Int /\ f[h] \in Int
  <2>1. k - 1 = o /\ o \in 0..h /\ h \in 0..h
    BY <1>2, <1>5
  <2>. QED  BY <1>5, <1>6, <2>1
<1>11. Offset(dims, k) = f[o] /\ Offset(dims, l) = f[h] /\ f[h] >= f[o] + cones[k].dim
  BY <1>5, <1>6, <1>7, <1>8, <1>9, <1>10
<1>. QED  BY <1>10, <1>11 DEF dims

\* No two cones cover a place.
LEMMA CoveredOnce ==
  ASSUME NEW cones, NEW n \in Nat, DOMAIN cones = 1..n, \A k \in 1..n : cones[k].dim \in Nat,
         NEW i \in Int, NEW k \in 1..n, NEW l \in 1..n, Covers(cones, k, i), Covers(cones, l, i)
  PROVE  k = l
<1>1. ASSUME NEW a \in 1..n, NEW b \in 1..n, Covers(cones, a, i), Covers(cones, b, i), a < b PROVE FALSE
  <2>1. /\ Offset(Dims(cones), a) \in Int /\ Offset(Dims(cones), b) \in Int
        /\ Offset(Dims(cones), a) + cones[a].dim <= Offset(Dims(cones), b)
    BY <1>1, ConesFollow
  <2>2. i <= Offset(Dims(cones), a) + cones[a].dim /\ Offset(Dims(cones), b) < i /\ cones[a].dim \in Nat
    BY <1>1 DEF Covers
  <2>. QED  BY <2>1, <2>2
<1>2. k < l \/ k = l \/ l < k
  OBVIOUS
<1>. QED  BY <1>1, <1>2

\* The dimensions that a mean divides by.
ConesDivide(cones) ==
  \A k \in DOMAIN cones : cones[k].kind \notin {"zero", "nonneg"} => cones[k].dim \in Factors

\* Lists of cones whose means can be taken.
ConeList == [kind : ConeKinds, dim : Nat]
Dividing == {cones \in Seq(ConeList) : ConesDivide(cones)}

\* A nonnegative cone of an allowed size is one that a list may hold.
LEMMA NewCone ==
  ASSUME NEW d, d \in {0} \cup Factors
  PROVE  d \in Nat /\ Cone("nonneg", d) \in ConeList /\ Cone("nonneg", d).dim = d
<1>1. d \in Nat
  BY DEF Factors, Prime
<1>2. Cone("nonneg", d) = [kind |-> "nonneg", dim |-> d]
  BY DEF Cone
<1>3. "nonneg" \in ConeKinds
  BY DEF ConeKinds
<1>4. [kind |-> "nonneg", dim |-> d] \in [kind : ConeKinds, dim : Nat]
  BY <1>1, <1>3
<1>. QED  BY <1>1, <1>2, <1>4 DEF ConeList

\* A cone joins a list in one of three ways.
LEMMA ConeJoins ==
  ASSUME NEW done \in Dividing, NEW cone \in [kind : ConeKinds, dim : {0} \cup Factors]
  PROVE  LET nonneg == cone.kind = "nonneg" \/ (cone.kind = "soc" /\ cone.dim = 1)
         IN  (IF cone.dim = 0 THEN done
              ELSE IF nonneg /\ done # <<>> /\ done[Len(done)].kind = "nonneg"
                   THEN [done EXCEPT ![Len(done)].dim = @ + cone.dim]
                   ELSE Append(done, IF nonneg THEN Cone("nonneg", cone.dim) ELSE cone)) \in Dividing
<1>. DEFINE nonneg == cone.kind = "nonneg" \/ (cone.kind = "soc" /\ cone.dim = 1)
            new == IF nonneg THEN Cone("nonneg", cone.dim) ELSE cone
            last == done[Len(done)]
            grown == [done EXCEPT ![Len(done)].dim = @ + cone.dim]
<1>0. cone.dim \in {0} \cup Factors
  OBVIOUS
<1>1. done \in Seq(ConeList) /\ ConesDivide(done) /\ Factors \subseteq Nat
  BY DEF Dividing, Factors, Prime
<1>2. ASSUME cone.dim # 0 PROVE Append(done, new) \in Dividing
  <2>1. cone.dim \in Factors /\ cone.dim \in Nat /\ cone \in ConeList
    BY <1>1, <1>2 DEF ConeList
  <2>2. new \in ConeList /\ new.dim \in Factors
    <3>1. Cone("nonneg", cone.dim) \in ConeList /\ Cone("nonneg", cone.dim).dim = cone.dim
      BY <1>0, NewCone
    <3>. QED  BY <2>1, <3>1
  <2>. HIDE DEF new
  <2>3. Append(done, new) \in Seq(ConeList) /\ DOMAIN Append(done, new) = 1..(Len(done) + 1)
        /\ Append(done, new)[Len(done) + 1] = new
        /\ \A k \in 1..Len(done) : Append(done, new)[k] = done[k] /\ k \in DOMAIN done
    BY <1>1, <2>2
  <2>4. \A k \in DOMAIN Append(done, new) : k = Len(done) + 1 \/ k \in 1..Len(done)
    BY <1>1, <2>3
  <2>. QED  BY <1>1, <2>2, <2>3, <2>4 DEF Dividing, ConesDivide
<1>3. ASSUME cone.dim # 0, done # <<>>, last.kind = "nonneg" PROVE grown \in Dividing
  <2>1. Len(done) \in DOMAIN done /\ last \in ConeList /\ DOMAIN done = 1..Len(done) /\ Len(done) \in Nat
    BY <1>1, <1>3
  <2>2. cone.dim \in Nat
    BY <1>0, NewCone
  <2>. DEFINE wider == [last EXCEPT !.dim = @ + cone.dim]
  <2>3. wider \in ConeList /\ wider.kind = "nonneg"
    BY <1>3, <2>1, <2>2 DEF ConeList
  <2>4. grown = [done EXCEPT ![Len(done)] = wider]
    OBVIOUS
  <2>. HIDE DEF wider, grown
  <2>5. grown \in Seq(ConeList) /\ DOMAIN grown = DOMAIN done
        /\ \A k \in DOMAIN done : grown[k] = IF k = Len(done) THEN wider ELSE done[k]
    BY <1>1, <2>1, <2>3, <2>4
  <2>. QED  BY <1>1, <2>3, <2>5 DEF Dividing, ConesDivide
<1>. QED  BY <1>2, <1>3

\* new_collapsed: the cones that result cover each row once, one after the other.
LEMMA CollapsedDivides ==
  ASSUME NEW cones \in Seq([kind : ConeKinds, dim : {0} \cup Factors])
  PROVE  Collapsed(cones) \in Dividing
<1>. DEFINE n == Len(cones)
            Join(done, cone) ==
              LET nonneg == cone.kind = "nonneg" \/ (cone.kind = "soc" /\ cone.dim = 1)
              IN  IF cone.dim = 0 THEN done
                  ELSE IF nonneg /\ done # <<>> /\ done[Len(done)].kind = "nonneg"
                       THEN [done EXCEPT ![Len(done)].dim = @ + cone.dim]
                       ELSE Append(done, IF nonneg THEN Cone("nonneg", cone.dim) ELSE cone)
            Step(f, i) == CHOOSE r \in {Join(before, cones[i]) : before \in {f[i - 1]}} : TRUE
            Joined(f) == f = [i \in 0..n |-> IF i = 0 THEN <<>> ELSE Step(f, i)]
            G == [p \in Dividing \X (1..n) |-> Join(p[1], cones[p[2]])]
            h == CHOOSE f : Joined(f)
<1>1. Collapsed(cones) = h[n]
  BY DEF Collapsed, Fold
<1>2. n \in Nat /\ \A i \in 1..n : cones[i] \in [kind : ConeKinds, dim : {0} \cup Factors]
  <2>. DEFINE C == [kind : ConeKinds, dim : {0} \cup Factors]
  <2>1. cones \in Seq(C)
    OBVIOUS
  <2>. HIDE DEF C
  <2>2. n \in Nat /\ \A i \in 1..n : cones[i] \in C
    BY ONLY <2>1
  <2>. QED  BY <2>2 DEF C
<1>3. \A done \in Dividing, i \in 1..n : Join(done, cones[i]) \in Dividing
  <2>. HIDE DEF n
  <2>. QED  BY <1>2, ConeJoins
<1>. HIDE DEF Join, n
<1>4. \A f, i : Step(f, i) = Join(f[i - 1], cones[i])
  OBVIOUS
<1>5. <<>> \in Dividing
  BY DEF Dividing, ConesDivide
<1>6. G \in [Dividing \X (1..n) -> Dividing] /\ \A done \in Dividing, i \in 1..n : G[<<done, i>>] = Join(done, cones[i])
  BY <1>3
<1>. HIDE DEF Step, G
<1>7. PICK g \in [0..n -> Dividing] : g[0] = <<>> /\ \A i \in 1..n : g[i] = G[<<g[i - 1], i>>]
  <2>. DEFINE base == <<>>
  <2>. HIDE DEF base
  <2>1. Recursive(Dividing, base, n, G)
    BY RecursionExists
  <2>2. base \in Dividing
    BY <1>5 DEF base
  <2>3. \E g \in [0..n -> Dividing] : g[0] = base /\ \A i \in 1..n : g[i] = G[<<g[i - 1], i>>]
    BY <1>2, <1>6, <2>1, <2>2 DEF Recursive
  <2>. QED  BY <2>3 DEF base
<1>8. \A i \in 1..n : g[i] = Join(g[i - 1], cones[i]) /\ g[i - 1] \in Dividing
  <2>. SUFFICES ASSUME NEW i \in 1..n PROVE g[i] = Join(g[i - 1], cones[i]) /\ g[i - 1] \in Dividing
    OBVIOUS
  <2>1. i - 1 \in 0..n
    BY <1>2
  <2>. QED  BY <1>6, <1>7, <2>1
<1>9. Joined(g)
  <2>1. ASSUME NEW i \in 0..n PROVE g[i] = IF i = 0 THEN <<>> ELSE Step(g, i)
    <3>1. Step(g, i) = Join(g[i - 1], cones[i])
      BY <1>4
    <3>2. CASE i = 0
      BY <1>7, <3>2
    <3>3. CASE i # 0
      <4>1. i \in 1..n
        BY <1>2, <3>3
      <4>. QED  BY <1>8, <3>1, <3>3, <4>1
    <3>. QED  BY <3>2, <3>3
  <2>. QED  BY <2>1
<1>10. Joined(h)
  BY <1>9
<1>. HIDE DEF h
<1>11. h[0] = <<>> /\ \A i \in 1..n : h[i] = Join(h[i - 1], cones[i])
  <2>1. \A i \in 0..n : h[i] = IF i = 0 THEN <<>> ELSE Step(h, i)
    BY <1>10
  <2>2. ASSUME NEW i \in 1..n PROVE h[i] = Join(h[i - 1], cones[i])
    <3>1. i \in 0..n /\ i # 0
      OBVIOUS
    <3>2. Step(h, i) = Join(h[i - 1], cones[i])
      BY <1>4
    <3>. QED  BY <2>1, <3>1, <3>2
  <2>3. 0 \in 0..n
    BY <1>2
  <2>. QED  BY <2>1, <2>2, <2>3
<1>12. h[n] \in Dividing
  <2>. DEFINE Wrong == {i \in Nat : i <= n /\ h[i] \notin Dividing}
  <2>1. SUFFICES ASSUME Wrong # {} PROVE FALSE
    <3>1. n \in Nat /\ n <= n
      BY <1>2
    <3>. QED  BY <3>1
  <2>2. PICK i \in Wrong : \A k \in Nat : k < i => k \notin Wrong
    BY <2>1, LeastMember
  <2>3. i # 0
    BY <1>5, <1>11
  <2>4. i \in 1..n /\ i - 1 \in Nat /\ i - 1 < i /\ i - 1 <= n
    BY <1>2, <2>3
  <2>5. h[i - 1] \in Dividing
    BY <2>2, <2>4
  <2>. QED  BY <1>3, <1>11, <2>4, <2>5
<1>. QED  BY <1>1, <1>12

-----------------------------------------------------------------------------
(* Factors of a scaling                                                      *)

LEMMA FactorIsNumber ==
  ASSUME NEW f \in Factors
  PROVE  f \in Int /\ Mod(f) = f /\ f # 0
BY DEF Factors, Mod, Prime

\* Quotients by numbers that are not 0 are numbers.
LEMMA DivIsNumber ==
  ASSUME NEW a \in Int, NEW b \in Int, Mod(b) # 0
  PROVE  Div(a, b) \in Int
<1>1. Mod(a) \in Int /\ Recip(b) \in Int
  BY Remainder, RecipIsInverse
<1>. DEFINE p == Mod(a) * Recip(b)
<1>2. p \in Int
  BY <1>1
<1>. HIDE DEF p
<1>3. Mod(p) \in Int
  BY <1>2, Remainder
<1>. QED  BY <1>3 DEF Div, p

\* Sums of numbers are numbers.
LEMMA SumIsNumber ==
  ASSUME NEW n \in Nat, NEW s \in [1..n -> Int]
  PROVE  FSum(s) \in Num /\ FSum(s) \in Int
<1>. DEFINE one == 1
<1>1. Len(s) \in Nat /\ Len(s) = n
  OBVIOUS
<1>2. \A k \in 1..Len(s) : s[k] \in Int /\ Mod(s[k]) = Mod(s[k] * one)
  BY <1>1
<1>3. one \in Int
  OBVIOUS
<1>. HIDE DEF one
<1>4. FSum(s) \in Num
  BY <1>1, <1>2, <1>3, SumScales
<1>5. Num \subseteq Int
  BY DEF Num, Prime
<1>. QED  BY <1>4, <1>5

\* What a pass of scaling puts on columns and rows has a reciprocal.
LEMMA ScaleIsFactor ==
  ASSUME NEW data, NEW d, NEW e, data.P.n \in Nat, data.A.m \in Nat,
         d \in Seq(Factors), e \in Seq(Factors), data.P.n <= Len(d), data.A.m <= Len(e)
  PROVE  /\ ColumnScale(data, d) \in [1..data.P.n -> Factors]
         /\ RowScale(data, e) \in [1..data.A.m -> Factors]
<1>1. 1 \in Factors
  BY DEF Factors, Prime
<1>2. \A j \in 1..data.P.n : d[j] \in Factors
  OBVIOUS
<1>3. \A i \in 1..data.A.m : e[i] \in Factors
  OBVIOUS
<1>. QED  BY <1>1, <1>2, <1>3 DEF ColumnScale, RowScale

\* The mean over a cone is a number.
LEMMA MeanIsNumber ==
  ASSUME NEW cones, ConesDivide(cones), NEW m \in Nat, NEW e \in [1..m -> Int],
         NEW k \in DOMAIN cones, cones[k].kind \notin {"zero", "nonneg"}
  PROVE  MeanOver(cones, k, e) \in Int
<1>. DEFINE s == [l \in DOMAIN e |-> IF Covers(cones, k, l) THEN e[l] ELSE 0]
<1>1. s \in [1..m -> Int]
  OBVIOUS
<1>. HIDE DEF s
<1>2. FSum(s) \in Int
  BY <1>1, SumIsNumber
<1>3. cones[k].dim \in Factors
  BY DEF ConesDivide
<1>4. cones[k].dim \in Int /\ Mod(cones[k].dim) # 0
  BY <1>3, FactorIsNumber
<1>. QED  BY <1>2, <1>4, DivIsNumber DEF MeanOver, s

\* The factors of rectify_equilibration are numbers.
LEMMA RectificationIsNumber ==
  ASSUME NEW cones, ConesDivide(cones), NEW m \in Nat, NEW e \in [1..m -> Int], \A i \in 1..m : Mod(e[i]) # 0
  PROVE  \A i \in 1..m : Rectification(cones, e)[i] \in Int
<1>. SUFFICES ASSUME NEW i \in 1..m PROVE Rectification(cones, e)[i] \in Int
  OBVIOUS
<1>. DEFINE around == {k \in DOMAIN cones : cones[k].kind \notin {"zero", "nonneg"} /\ Covers(cones, k, i)}
            one == CHOOSE k \in around : TRUE
<1>1. Rectification(cones, e)[i] = IF around = {} THEN 1 ELSE Div(MeanOver(cones, one, e), e[i])
  BY DEF Rectification
<1>2. ASSUME NEW k \in around PROVE MeanOver(cones, k, e) \in Int
  BY MeanIsNumber
<1>3. around # {} => one \in around
  OBVIOUS
<1>4. e[i] \in Int /\ Mod(e[i]) # 0 /\ 1 \in Int
  OBVIOUS
<1>. DEFINE mean == MeanOver(cones, one, e)
<1>. HIDE DEF around, one
<1>5. CASE around = {}
  BY <1>1, <1>4, <1>5
<1>6. CASE around # {}
  <2>1. mean \in Int
    BY <1>2, <1>3, <1>6
  <2>. HIDE DEF mean
  <2>2. Div(mean, e[i]) \in Int
    BY <1>4, <2>1, DivIsNumber
  <2>. QED  BY <1>1, <1>6, <2>2 DEF mean
<1>. QED  BY <1>5, <1>6

\* A row of a cone that is no product of rays gets the mean over that cone.
LEMMA RectificationIsMean ==
  ASSUME NEW cones \in Dividing, NEW m \in Nat, NEW e \in [1..m -> Int], NEW i \in 1..m,
         NEW k \in DOMAIN cones, cones[k].kind \notin {"zero", "nonneg"}, Covers(cones, k, i)
  PROVE  Rectification(cones, e)[i] = Div(MeanOver(cones, k, e), e[i])
<1>. DEFINE around == {l \in DOMAIN cones : cones[l].kind \notin {"zero", "nonneg"} /\ Covers(cones, l, i)}
            one == CHOOSE l \in around : TRUE
            n == Len(cones)
<1>1. Rectification(cones, e)[i] = IF around = {} THEN 1 ELSE Div(MeanOver(cones, one, e), e[i])
  BY DEF Rectification
<1>2. k \in around
  OBVIOUS
<1>3. one \in DOMAIN cones /\ Covers(cones, one, i)
  BY <1>2
<1>4. n \in Nat /\ DOMAIN cones = 1..n /\ \A l \in 1..n : cones[l].dim \in Nat
  <2>1. cones \in Seq(ConeList)
    BY DEF Dividing
  <2>2. n \in Nat /\ DOMAIN cones = 1..n /\ \A l \in 1..n : cones[l] \in ConeList
    BY <2>1
  <2>. HIDE DEF n
  <2>. QED  BY <2>2 DEF ConeList
<1>. HIDE DEF one, around, n
<1>5. one = k
  <2>1. i \in Int
    OBVIOUS
  <2>. QED  BY <1>3, <1>4, <2>1, CoveredOnce
<1>6. around # {}
  BY <1>2
<1>. QED  BY <1>1, <1>5, <1>6

\* What is multiplied by a quotient over it becomes the dividend.
LEMMA QuotientRestores ==
  ASSUME NEW a \in Int, NEW b \in Int, Mod(b) # 0
  PROVE  Mod(b * Div(a, b)) = Mod(a)
<1>. DEFINE r == Recip(b)
            f == Mod(a)
            p == f * r
            o == b * r
            one == 1
<1>1. r \in Int /\ f \in Int /\ Mod(f) = Mod(a) /\ Mod(o) = 1 /\ o \in Int /\ one \in Int /\ Mod(one) = 1
  <2>1. r \in Int /\ f \in Int /\ Mod(f) = Mod(a) /\ Mod(o) = 1
    BY Remainder, ModTerm, RecipIsInverse
  <2>2. Mod(one) = 1
    BY DEF Mod, Prime
  <2>. HIDE DEF r, f
  <2>. QED  BY <2>1, <2>2
<1>2. p \in Int
  <2>. HIDE DEF r, f
  <2>. QED  BY <1>1
<1>3. Div(a, b) = Mod(p)
  BY DEF Div
<1>4. Mod(b * Mod(p)) = Mod(b * p)
  <2>. HIDE DEF p
  <2>1. Mod(p) \in Int /\ Mod(Mod(p)) = Mod(p)
    BY <1>2, Remainder, ModTerm
  <2>2. Congruent(b, Mod(p), b, p)
    BY <1>2, <2>1, Congruence
  <2>. QED  BY <2>1, <2>2 DEF Congruent
<1>5. b * p = f * o
  <2>. HIDE DEF r, f
  <2>. QED  BY <1>1
<1>6. Mod(f * o) = Mod(a * one)
  <2>. HIDE DEF f, o, one
  <2>1. Congruent(f, o, a, one)
    BY <1>1, Congruence
  <2>. QED  BY <1>1, <2>1 DEF Congruent
<1>7. a * one = a
  OBVIOUS
<1>. HIDE DEF p, f, o, one
<1>. QED  BY <1>3, <1>4, <1>5, <1>6, <1>7

\* Factors on a list of ones, or on numbers that have a reciprocal, leave such
\* numbers.
LEMMA OnesScaled ==
  ASSUME NEW n \in Nat, NEW f \in [1..n -> Factors]
  PROVE  \A j \in 1..n : /\ Times(ConstantSeq(1, n), f)[j] \in Int
                         /\ Mod(Times(ConstantSeq(1, n), f)[j]) # 0
<1>. SUFFICES ASSUME NEW j \in 1..n
              PROVE  Times(ConstantSeq(1, n), f)[j] \in Int /\ Mod(Times(ConstantSeq(1, n), f)[j]) # 0
  OBVIOUS
<1>1. f[j] \in Int /\ Mod(f[j]) = f[j] /\ f[j] # 0
  BY FactorIsNumber
<1>2. Times(ConstantSeq(1, n), f)[j] = Mod(1 * f[j])
  BY DEF Times, ConstantSeq
<1>3. 1 * f[j] = f[j]
  BY <1>1
<1>4. Mod(1 * f[j]) = f[j]
  BY <1>1, <1>3
<1>. QED  BY <1>1, <1>2, <1>4

\* Factors that are multiplied by 1 stay as they are.
LEMMA ScaledByOnes ==
  ASSUME NEW n \in Nat, NEW s \in [1..n -> Int], \A j \in 1..n : Mod(s[j]) # 0
  PROVE  \A j \in 1..n : /\ Times(s, ConstantSeq(1, n))[j] \in Int
                         /\ Mod(Times(s, ConstantSeq(1, n))[j]) # 0
<1>. SUFFICES ASSUME NEW j \in 1..n
              PROVE  Times(s, ConstantSeq(1, n))[j] \in Int /\ Mod(Times(s, ConstantSeq(1, n))[j]) # 0
  OBVIOUS
<1>1. Times(s, ConstantSeq(1, n))[j] = Mod(s[j] * 1)
  BY DEF Times, ConstantSeq
<1>2. s[j] * 1 = s[j] /\ s[j] \in Int
  OBVIOUS
<1>3. Mod(s[j] * 1) = Mod(s[j])
  BY <1>2
<1>. QED  BY <1>1, <1>2, <1>3, Remainder, ModTerm

\* The passes of equilibrate, one after the other.
LEMMA EquilibratedIs ==
  ASSUME NEW data, NEW f
  PROVE  \E scaled, costed, rectified :
           /\ scaled = ScaleData(data, ColumnScale(data, f.d), RowScale(data, f.e))
           /\ costed = IF CostIsScaled(scaled) THEN ScaleCost(scaled, f.c) ELSE scaled
           /\ rectified = ScaleData(costed, ConstantSeq(1, data.P.n), Rectification(data.cones, costed.e))
           /\ Equilibrated(data, f)
                = ScaleData(rectified, DirectRectification(data.xcones, rectified.d, f.g), ConstantSeq(1, data.A.m))
<1>. DEFINE scaled == ScaleData(data, ColumnScale(data, f.d), RowScale(data, f.e))
            Costed(s) == IF CostIsScaled(s) THEN ScaleCost(s, f.c) ELSE s
            Rectified(c) == ScaleData(c, ConstantSeq(1, data.P.n), Rectification(data.cones, c.e))
            Last(r) == ScaleData(r, DirectRectification(data.xcones, r.d, f.g), ConstantSeq(1, data.A.m))
<1>1. Equilibrated(data, f) = CHOOSE r \in {Last(y) : y \in {Rectified(c) : c \in {Costed(s) : s \in {Value(scaled)}}}} : r = r
  BY DEF Equilibrated
<1>. HIDE DEF scaled, Costed, Rectified, Last
<1>2. Value(scaled) = scaled
  BY DEF Value
<1>3. Equilibrated(data, f) = Last(Rectified(Costed(scaled)))
  BY <1>1, <1>2
<1>. QED  BY <1>3 DEF scaled, Costed, Rectified, Last

\* equilibrate: the data stay those of the problem, under the scaling that is
\* recorded.
EquilibrateLaw(prob, data, f, R) ==
  /\ Scalable(prob) /\ IsData(data) /\ ScaledData(data, prob)
  /\ data.d = ConstantSeq(1, prob.P.n) /\ data.e = ConstantSeq(1, prob.A.m) /\ data.cones \in Dividing
  /\ f.d \in Seq(Factors) /\ f.e \in Seq(Factors) /\ f.c \in Factors /\ f.g \in Factors
  /\ prob.P.n <= Len(f.d) /\ prob.A.m <= Len(f.e)
  /\ R = Equilibrated(data, f)
  => /\ IsData(R) /\ ScaledData(R, prob)
     /\ R.cones = data.cones /\ R.xcones = data.xcones /\ R.kept = data.kept
     /\ R.normq = data.normq /\ R.normb = data.normb
     /\ \A k \in DOMAIN data.cones : data.cones[k].kind \notin {"zero", "nonneg"} =>
          \A i, l \in 1..prob.A.m : Covers(data.cones, k, i) /\ Covers(data.cones, k, l) => R.e[i] = R.e[l]
     /\ \A k \in DOMAIN data.xcones : data.xcones[k].kind \notin {"zero", "nonneg"} =>
          \A i, j \in Elems(data.xcones[k].idx) \cap (1..prob.P.n) : R.d[i] = R.d[j]
\* One pass of equilibrate keeps what EquilibrateLaw says.
LEMMA EquilibratedKeeps == \A prob, data, f, R : EquilibrateLaw(prob, data, f, R)
<1>. SUFFICES
       ASSUME NEW prob, Scalable(prob), NEW data, IsData(data), ScaledData(data, prob),
              data.d = ConstantSeq(1, prob.P.n), data.e = ConstantSeq(1, prob.A.m), data.cones \in Dividing,
              NEW f, f.d \in Seq(Factors), f.e \in Seq(Factors), f.c \in Factors, f.g \in Factors,
              prob.P.n <= Len(f.d), prob.A.m <= Len(f.e),
              NEW R, R = Equilibrated(data, f)
       PROVE  /\ IsData(R) /\ ScaledData(R, prob)
              /\ R.cones = data.cones /\ R.xcones = data.xcones /\ R.kept = data.kept
              /\ R.normq = data.normq /\ R.normb = data.normb
              /\ \A k \in DOMAIN data.cones : data.cones[k].kind \notin {"zero", "nonneg"} =>
                   \A i, l \in 1..prob.A.m : Covers(data.cones, k, i) /\ Covers(data.cones, k, l) => R.e[i] = R.e[l]
              /\ \A k \in DOMAIN data.xcones : data.xcones[k].kind \notin {"zero", "nonneg"} =>
                   \A i, j \in Elems(data.xcones[k].idx) \cap (1..prob.P.n) : R.d[i] = R.d[j]
  BY DEF EquilibrateLaw
<1>0. ConesDivide(data.cones)
  BY DEF Dividing
<1>1. prob.P.n \in Nat /\ prob.A.m \in Nat
  BY MatrixEntries DEF Scalable
<1>2. data.P.n = prob.P.n /\ data.A.m = prob.A.m
  BY DEF ScaledData, ScaledMatrix
<1>. DEFINE n == prob.P.n
            m == prob.A.m
            ones == ConstantSeq(1, n)
            onesE == ConstantSeq(1, m)
            cs == ColumnScale(data, f.d)
            rs == RowScale(data, f.e)
<1>3. cs \in [1..n -> Factors] /\ rs \in [1..m -> Factors]
  <2>. HIDE DEF cs, rs
  <2>. QED  BY <1>1, <1>2, ScaleIsFactor DEF cs, rs
<1>4. (\A j \in 1..n : cs[j] \in Int) /\ (\A i \in 1..m : rs[i] \in Int)
  <2>. HIDE DEF cs, rs
  <2>. QED  BY <1>3, FactorIsNumber
<1>5. (\A j \in 1..n : ones[j] \in Int) /\ (\A i \in 1..m : onesE[i] \in Int)
  BY DEF ConstantSeq
<1>6. PICK scaled, costed, rectified :
           /\ scaled = ScaleData(data, cs, rs)
           /\ costed = IF CostIsScaled(scaled) THEN ScaleCost(scaled, f.c) ELSE scaled
           /\ rectified = ScaleData(costed, ones, Rectification(data.cones, costed.e))
           /\ R = ScaleData(rectified, DirectRectification(data.xcones, rectified.d, f.g), onesE)
  BY <1>2, EquilibratedIs
<1>. HIDE DEF n, m, ones, onesE, cs, rs
<1>7. /\ IsData(scaled) /\ ScaledData(scaled, prob)
      /\ scaled.cones = data.cones /\ scaled.xcones = data.xcones /\ scaled.kept = data.kept
      /\ scaled.normq = data.normq /\ scaled.normb = data.normb
      /\ scaled.d = Times(ones, cs) /\ scaled.e = Times(onesE, rs)
  <2>1. data.d = ones /\ data.e = onesE
    BY DEF ones, onesE, n, m
  <2>2. (\A j \in 1..prob.P.n : cs[j] \in Int) /\ (\A i \in 1..prob.A.m : rs[i] \in Int)
    BY <1>4 DEF n, m
  <2>. QED  BY <1>6, <2>1, <2>2, ScaleDataKeeps
<1>8. /\ \A j \in 1..n : scaled.d[j] \in Int /\ Mod(scaled.d[j]) # 0
      /\ \A i \in 1..m : scaled.e[i] \in Int /\ Mod(scaled.e[i]) # 0
  BY <1>1, <1>3, <1>7, OnesScaled DEF ones, onesE, n, m
<1>9. /\ IsData(costed) /\ ScaledData(costed, prob)
      /\ costed.cones = data.cones /\ costed.xcones = data.xcones /\ costed.kept = data.kept
      /\ costed.normq = data.normq /\ costed.normb = data.normb
      /\ costed.d = scaled.d /\ costed.e = scaled.e
  <2>1. CASE CostIsScaled(scaled)
    <3>1. f.c \in Int /\ costed = ScaleCost(scaled, f.c)
      BY <1>6, <2>1, FactorIsNumber
    <3>. QED  BY <1>7, <3>1, ScaleCostKeeps
  <2>2. CASE ~CostIsScaled(scaled)
    BY <1>6, <1>7, <2>2
  <2>. QED  BY <2>1, <2>2
<1>10. costed.d \in [1..n -> Int] /\ costed.e \in [1..m -> Int]
  BY <1>9 DEF ScaledData, n, m
<1>. DEFINE rect == Rectification(data.cones, costed.e)
<1>11. \A i \in 1..m : rect[i] \in Int
  BY <1>0, <1>1, <1>8, <1>9, <1>10, RectificationIsNumber DEF m
<1>. HIDE DEF rect
<1>12. /\ IsData(rectified) /\ ScaledData(rectified, prob)
       /\ rectified.cones = data.cones /\ rectified.xcones = data.xcones /\ rectified.kept = data.kept
       /\ rectified.normq = data.normq /\ rectified.normb = data.normb
       /\ rectified.d = Times(costed.d, ones) /\ rectified.e = Times(costed.e, rect)
  <2>1. rectified = ScaleData(costed, ones, rect)
    BY <1>6 DEF rect
  <2>2. (\A j \in 1..prob.P.n : ones[j] \in Int) /\ (\A i \in 1..prob.A.m : rect[i] \in Int)
    BY <1>5, <1>11 DEF n, m
  <2>. QED  BY <1>9, <2>1, <2>2, ScaleDataKeeps
<1>13. \A j \in 1..n : rectified.d[j] \in Int /\ Mod(rectified.d[j]) # 0
  BY <1>1, <1>8, <1>9, <1>10, <1>12, ScaledByOnes DEF ones, n
<1>. DEFINE direct == DirectRectification(data.xcones, rectified.d, f.g)
<1>14. \A j \in 1..n : direct[j] \in Int
  <2>1. DOMAIN rectified.d = 1..n
    BY <1>12 DEF ScaledData, n
  <2>2. f.g \in Int
    BY FactorIsNumber
  <2>3. \A j \in 1..n : Div(f.g, rectified.d[j]) \in Int
    BY <1>13, <2>2, DivIsNumber
  <2>. QED  BY <2>1, <2>3 DEF DirectRectification
<1>. HIDE DEF direct
<1>15. R = ScaleData(rectified, direct, onesE)
  BY <1>6 DEF direct
<1>16. (\A j \in 1..prob.P.n : direct[j] \in Int) /\ (\A i \in 1..prob.A.m : onesE[i] \in Int)
  BY <1>5, <1>14 DEF n, m
<1>17. /\ IsData(R) /\ ScaledData(R, prob)
       /\ R.cones = data.cones /\ R.xcones = data.xcones /\ R.kept = data.kept
       /\ R.normq = data.normq /\ R.normb = data.normb
       /\ R.d = Times(rectified.d, direct) /\ R.e = Times(rectified.e, onesE)
  BY <1>12, <1>15, <1>16, ScaleDataKeeps
<1>18. DOMAIN costed.e = 1..m /\ DOMAIN rectified.e = 1..m /\ DOMAIN rectified.d = 1..n
  BY <1>10, <1>12 DEF ScaledData, n, m
<1>19. ASSUME NEW k \in DOMAIN data.cones, data.cones[k].kind \notin {"zero", "nonneg"},
              NEW i \in 1..m, Covers(data.cones, k, i)
       PROVE  R.e[i] = Mod(MeanOver(data.cones, k, costed.e))
  <2>. DEFINE a == MeanOver(data.cones, k, costed.e)
              b == costed.e[i]
  <2>1. rect[i] = Div(a, b)
    BY <1>1, <1>10, <1>19, RectificationIsMean DEF rect, m
  <2>2. b \in Int /\ Mod(b) # 0
    BY <1>8, <1>9
  <2>3. a \in Int
    <3>1. 1..m = DOMAIN costed.e
      BY <1>18
    <3>. QED  BY <1>0, <1>1, <1>10, <1>19, MeanIsNumber DEF m
  <2>4. rectified.e[i] = Mod(b * rect[i])
    BY <1>12, <1>18 DEF Times
  <2>5. R.e[i] = Mod(rectified.e[i] * 1)
    BY <1>17, <1>18 DEF Times, onesE, ConstantSeq, m
  <2>. HIDE DEF a, b
  <2>6. rectified.e[i] = Mod(a)
    BY <2>1, <2>2, <2>3, <2>4, QuotientRestores
  <2>7. Mod(a) \in Int /\ Mod(Mod(a)) = Mod(a)
    BY <2>3, Remainder, ModTerm
  <2>8. Mod(a) * 1 = Mod(a)
    BY <2>7
  <2>. QED  BY <2>5, <2>6, <2>7, <2>8 DEF a
<1>20. ASSUME NEW k \in DOMAIN data.xcones, data.xcones[k].kind \notin {"zero", "nonneg"},
              NEW j \in 1..n, j \in Elems(data.xcones[k].idx)
       PROVE  R.d[j] = Mod(f.g)
  <2>. DEFINE b == rectified.d[j]
  <2>1. direct[j] = Div(f.g, b)
    BY <1>18, <1>20 DEF direct, DirectRectification
  <2>2. b \in Int /\ Mod(b) # 0 /\ f.g \in Int
    BY <1>13, FactorIsNumber
  <2>3. R.d[j] = Mod(b * direct[j])
    BY <1>17, <1>18 DEF Times
  <2>. HIDE DEF b
  <2>. QED  BY <2>1, <2>2, <2>3, QuotientRestores
<1>21. 1..m = 1..prob.A.m /\ 1..n = 1..prob.P.n
  BY DEF m, n
<1>22. \A k \in DOMAIN data.cones : data.cones[k].kind \notin {"zero", "nonneg"} =>
         \A i, l \in 1..prob.A.m : Covers(data.cones, k, i) /\ Covers(data.cones, k, l) => R.e[i] = R.e[l]
  BY <1>19, <1>21
<1>23. \A k \in DOMAIN data.xcones : data.xcones[k].kind \notin {"zero", "nonneg"} =>
         \A i, j \in Elems(data.xcones[k].idx) \cap (1..prob.P.n) : R.d[i] = R.d[j]
  BY <1>20, <1>21
<1>. QED  BY <1>17, <1>22, <1>23

-----------------------------------------------------------------------------
(* What scaled data say of the problem                                       *)

\* The sum of what is stored at a place.
EntrySum(M, i, j) == FSum([k \in DOMAIN M.col[j] |-> IF M.col[j][k][1] = i THEN M.col[j][k][2] ELSE 0])
\* The entry of the dense matrix is scaled like those that are stored for it.
LEMMA ScaledEntry ==
  ASSUME NEW M, IsMatrix(M), NEW N, NEW c \in Int, NEW l, NEW r, ScaledMatrix(N, M, c, l, r),
         NEW i \in 1..M.m, NEW j \in 1..M.n, l[i] \in Int, r[j] \in Int
  PROVE  /\ EntrySum(M, i, j) \in Num /\ EntrySum(M, i, j) \in Int
         /\ EntrySum(N, i, j) = Mod(EntrySum(M, i, j) * (c * (l[i] * r[j])))
<1>. DEFINE t == c * (l[i] * r[j])
            s == [k \in DOMAIN M.col[j] |-> IF M.col[j][k][1] = i THEN M.col[j][k][2] ELSE 0]
            u == [k \in DOMAIN N.col[j] |-> IF N.col[j][k][1] = i THEN N.col[j][k][2] ELSE 0]
<1>1. /\ Len(M.col[j]) \in Nat /\ DOMAIN M.col[j] = 1..Len(M.col[j])
      /\ \A k \in DOMAIN M.col[j] : M.col[j][k][2] \in Int
  BY MatrixEntries
<1>2. IsMatrix(N) /\ N.n = M.n /\ DOMAIN N.col[j] = DOMAIN M.col[j]
  BY DEF ScaledMatrix
<1>3. \A k \in DOMAIN M.col[j] : N.col[j][k][2] \in Int
  BY <1>2, MatrixEntries
<1>4. s \in [1..Len(M.col[j]) -> Int] /\ u \in [1..Len(M.col[j]) -> Int]
  BY <1>1, <1>2, <1>3
<1>5. \A k \in 1..Len(M.col[j]) : Mod(u[k]) = Mod(s[k] * t)
  <2>. SUFFICES ASSUME NEW k \in 1..Len(M.col[j]) PROVE Mod(u[k]) = Mod(s[k] * t)
    OBVIOUS
  <2>1. t \in Int
    OBVIOUS
  <2>2. /\ N.col[j][k][1] = M.col[j][k][1]
        /\ Mod(N.col[j][k][2]) = Mod(M.col[j][k][2] * (c * (l[M.col[j][k][1]] * r[j])))
    BY <1>1 DEF ScaledMatrix
  <2>3. CASE M.col[j][k][1] = i
    <3>1. u[k] = N.col[j][k][2] /\ s[k] = M.col[j][k][2]
      BY <1>1, <1>2, <2>2, <2>3
    <3>. HIDE DEF s, u
    <3>. QED  BY <2>2, <2>3, <3>1
  <2>4. CASE M.col[j][k][1] # i
    <3>1. u[k] = 0 /\ s[k] = 0
      BY <1>1, <1>2, <2>2, <2>4
    <3>. HIDE DEF s, u, t
    <3>2. 0 * t = 0
      BY <2>1
    <3>. QED  BY <3>1, <3>2
  <2>. QED  BY <2>3, <2>4
<1>6. t \in Int
  OBVIOUS
<1>. HIDE DEF t, s, u
<1>7. Len(s) = Len(M.col[j]) /\ Len(u) = Len(M.col[j])
  BY <1>1, <1>4, FunctionIsSeq
<1>8. FSum(s) \in Num /\ FSum(u) = Mod(FSum(s) * t)
  BY <1>1, <1>4, <1>5, <1>6, <1>7, SumScales
<1>9. Num \subseteq Int
  BY DEF Num, Prime
<1>. QED  BY <1>8, <1>9 DEF EntrySum, s, u, t

\* The order of the factors and the remainders taken on the way do not count.
LEMMA FactorsCommute ==
  ASSUME NEW x \in Int, NEW c \in Int, NEW a \in Int, NEW b \in Int
  PROVE  /\ Mod(x * (c * (a * b))) = Mod(Mod(c * x) * Mod(a * b))
         /\ Mod(x * (c * (a * b))) = Mod(Mod(c * x) * Mod(b * a))
         /\ Mod(x * (c * a)) = Mod(c * Mod(a * x))
         /\ Mod(x * (a * b)) = Mod(x * Mod(a * b))
<1>. DEFINE p == c * x
            q == a * b
            o == a * x
<1>1. p \in Int /\ q \in Int /\ o \in Int
  OBVIOUS
<1>2. Mod(p) \in Int /\ Mod(q) \in Int
  <2>. HIDE DEF p, q
  <2>. QED  BY <1>1, Remainder
<1>3. Mod(Mod(p) * Mod(q)) = Mod(p * q)
  <2>. HIDE DEF p, q
  <2>1. Congruent(Mod(p), Mod(q), p, q)
    BY <1>1, <1>2, Congruence
  <2>2. Mod(Mod(p)) = Mod(p) /\ Mod(Mod(q)) = Mod(q)
    BY <1>1, ModTerm
  <2>. QED  BY <2>1, <2>2 DEF Congruent
<1>4. Mod(c * Mod(o)) = Mod(c * o) /\ Mod(x * Mod(q)) = Mod(x * q)
  <2>. HIDE DEF o, q
  <2>1. Mod(o) \in Int /\ Mod(Mod(o)) = Mod(o) /\ Mod(Mod(q)) = Mod(q)
    BY <1>1, Remainder, ModTerm
  <2>2. Congruent(c, Mod(o), c, o) /\ Congruent(x, Mod(q), x, q)
    BY <1>1, <1>2, <2>1, Congruence
  <2>. QED  BY <2>1, <2>2 DEF Congruent
<1>5. x * (c * q) = p * q /\ b * a = q /\ x * (c * a) = c * o
  OBVIOUS
<1>. QED  BY <1>3, <1>4, <1>5

\* When every row is kept, each has its own place.
LEMMA PlaceOfRow ==
  ASSUME NEW m \in Nat, dat.kept = 1..m, NEW r \in 1..m
  PROVE  KeptPlace(r) = r
<1>1. {k \in dat.kept : k <= r} = 1..r
  OBVIOUS
<1>2. Cardinality(1..r) = r
  BY FS_Interval
<1>. QED  BY <1>1, <1>2 DEF KeptPlace

\* Scaled data of a problem given by its upper triangle are what HeldData asks
\* for.
LEMMA ScaledDataIsHeld ==
  ASSUME Scalable(user), ScaledData(dat, user), IsTriu(user.P), dat.kept = 1..user.A.m
  PROVE  HeldData
<1>. DEFINE n == user.P.n
            m == user.A.m
            P == user.P
            A == user.A
<1>1. /\ n \in Nat /\ m \in Nat /\ IsMatrix(P) /\ IsMatrix(A) /\ P.m = n /\ P.n = n /\ A.n = n /\ A.m = m
  BY MatrixEntries DEF Scalable
<1>2. /\ \A j \in 1..n : dat.d[j] \in Int
      /\ \A i \in 1..m : dat.e[i] \in Int
      /\ dat.c \in Int /\ DOMAIN dat.d = 1..n /\ DOMAIN dat.e = 1..m
  BY DEF ScaledData
<1>3. ScaledMatrix(dat.P, P, dat.c, dat.d, dat.d) /\ ScaledMatrix(dat.A, A, 1, dat.e, dat.d)
  BY DEF ScaledData
<1>4. dat.P.n = n /\ dat.A.n = n /\ dat.A.m = m
  BY <1>1, <1>3 DEF ScaledMatrix
<1>. HIDE DEF n, m, P, A
<1>5. ASSUME NEW i \in 1..n, NEW j \in 1..n
      PROVE  SymRowsOf(dat.P)[i][j] = Mod(Mod(dat.c * UserP[i][j]) * Mod(dat.d[i] * dat.d[j]))
  <2>. DEFINE r == IF i <= j THEN i ELSE j
              k == IF i <= j THEN j ELSE i
              x == EntrySum(P, r, k)
              a == dat.d[r]
              b == dat.d[k]
              c == dat.c
  <2>1. r \in 1..n /\ k \in 1..n
    OBVIOUS
  <2>2. SymRowsOf(dat.P)[i][j] = EntrySum(dat.P, r, k)
    BY <1>4 DEF SymRowsOf, EntrySum
  <2>3. UserP[i][j] = x
    BY <1>1 DEF UserP, SymRowsOf, EntrySum, P
  <2>4. a \in Int /\ b \in Int /\ c \in Int
    BY <1>2, <2>1
  <2>5. (dat.d[i] = a /\ dat.d[j] = b) \/ (dat.d[i] = b /\ dat.d[j] = a)
    OBVIOUS
  <2>6. x \in Int /\ EntrySum(dat.P, r, k) = Mod(x * (c * (a * b)))
    <3>. DEFINE d == dat.d
                N == dat.P
    <3>1. /\ IsMatrix(P) /\ c \in Int /\ ScaledMatrix(N, P, c, d, d) /\ r \in 1..P.m /\ k \in 1..P.n
          /\ d[r] \in Int /\ d[k] \in Int
      BY <1>1, <1>3, <2>1, <2>4
    <3>. HIDE DEF d, N, c, r, k
    <3>2. EntrySum(P, r, k) \in Int /\ EntrySum(N, r, k) = Mod(EntrySum(P, r, k) * (c * (d[r] * d[k])))
      BY ONLY <3>1, ScaledEntry
    <3>. QED  BY <3>2 DEF d, N
  <2>. HIDE DEF r, k, x, a, b
  <2>7. /\ Mod(x * (c * (a * b))) = Mod(Mod(c * x) * Mod(a * b))
        /\ Mod(x * (c * (a * b))) = Mod(Mod(c * x) * Mod(b * a))
    <3>. HIDE DEF c
    <3>. QED  BY ONLY <2>4, <2>6, FactorsCommute
  <2>. QED  BY <2>2, <2>3, <2>5, <2>6, <2>7
<1>6. dat.q = By(dat.c, Times(dat.d, user.q))
  <2>1. \A j \in 1..n : dat.q[j] = Mod(user.q[j] * (dat.c * dat.d[j])) /\ user.q[j] \in Int
    BY DEF ScaledData, Scalable, n
  <2>2. By(dat.c, Times(dat.d, user.q)) = [j \in 1..n |-> Mod(dat.c * Mod(dat.d[j] * user.q[j]))]
    BY <1>2 DEF By, Times
  <2>3. ASSUME NEW j \in 1..n PROVE dat.q[j] = Mod(dat.c * Mod(dat.d[j] * user.q[j]))
    <3>. DEFINE x == user.q[j]
                c == dat.c
                a == dat.d[j]
    <3>1. x \in Int /\ c \in Int /\ a \in Int
      BY <1>2, <2>1
    <3>2. dat.q[j] = Mod(x * (c * a))
      BY <2>1
    <3>. HIDE DEF x, c, a
    <3>3. Mod(x * (c * a)) = Mod(c * Mod(a * x))
      BY ONLY <3>1, FactorsCommute
    <3>. QED  BY <3>2, <3>3 DEF x, c, a
  <2>4. dat.q = [j \in 1..n |-> dat.q[j]]
    BY DEF ScaledData, n
  <2>. QED  BY <2>2, <2>3, <2>4
<1>7. ASSUME NEW r \in dat.kept, NEW j \in 1..n
      PROVE  RowsOf(dat.A)[KeptPlace(r)][j] = Mod(UserA[r][j] * Mod(dat.e[KeptPlace(r)] * dat.d[j]))
  <2>1. r \in 1..m /\ KeptPlace(r) = r
    BY <1>1, PlaceOfRow DEF m
  <2>. DEFINE x == EntrySum(A, r, j)
              a == dat.e[r]
              b == dat.d[j]
  <2>2. RowsOf(dat.A)[r][j] = EntrySum(dat.A, r, j) /\ UserA[r][j] = x
    BY <1>1, <1>4, <2>1 DEF RowsOf, UserA, EntrySum, A
  <2>3. a \in Int /\ b \in Int
    BY <1>2, <2>1
  <2>4. x \in Int /\ EntrySum(dat.A, r, j) = Mod(x * (1 * (a * b)))
    <3>. DEFINE d == dat.d
                e == dat.e
                N == dat.A
                one == 1
    <3>1. /\ IsMatrix(A) /\ one \in Int /\ ScaledMatrix(N, A, one, e, d) /\ r \in 1..A.m /\ j \in 1..A.n
          /\ e[r] \in Int /\ d[j] \in Int
      BY <1>1, <1>3, <2>1, <2>3
    <3>. HIDE DEF d, e, N, one
    <3>2. EntrySum(A, r, j) \in Int /\ EntrySum(N, r, j) = Mod(EntrySum(A, r, j) * (one * (e[r] * d[j])))
      BY ONLY <3>1, ScaledEntry
    <3>. QED  BY <3>2 DEF d, e, N, one
  <2>. HIDE DEF x, a, b
  <2>5. Mod(x * (a * b)) = Mod(x * Mod(a * b))
    <3>. DEFINE o == a * b
    <3>1. x \in Int /\ o \in Int
      BY <2>3, <2>4
    <3>. HIDE DEF o
    <3>2. Mod(o) \in Int /\ Mod(Mod(o)) = Mod(o)
      BY <3>1, Remainder, ModTerm
    <3>3. Congruent(x, o, x, Mod(o))
      BY <3>1, <3>2, Congruence
    <3>4. Mod(x * o) = Mod(x * Mod(o))
      BY ONLY <3>2, <3>3 DEF Congruent
    <3>. QED  BY <3>4 DEF o
  <2>6. x * (1 * (a * b)) = x * (a * b)
    BY <2>3, <2>4
  <2>7. EntrySum(dat.A, r, j) = Mod(x * Mod(a * b))
    BY ONLY <2>4, <2>5, <2>6
  <2>8. RowsOf(dat.A)[r][j] = Mod(UserA[r][j] * Mod(dat.e[r] * dat.d[j]))
    BY ONLY <2>2, <2>7 DEF a, b
  <2>. QED  BY ONLY <2>1, <2>8
<1>8. DOMAIN dat.b = 1..Cardinality(dat.kept)
  <2>1. Cardinality(dat.kept) = m
    BY <1>1, FS_Interval DEF m
  <2>. QED  BY <2>1 DEF ScaledData, m
<1>9. ASSUME NEW r \in dat.kept
      PROVE  dat.b[KeptPlace(r)] = Mod(dat.e[KeptPlace(r)] * UserB[r])
  <2>1. r \in 1..m /\ KeptPlace(r) = r
    BY <1>1, PlaceOfRow DEF m
  <2>2. dat.b[r] = Mod(UserB[r] * dat.e[r]) /\ UserB[r] \in Int /\ dat.e[r] \in Int
    BY <1>2, <2>1 DEF ScaledData, Scalable, UserB, m
  <2>3. UserB[r] * dat.e[r] = dat.e[r] * UserB[r]
    BY <2>2
  <2>. QED  BY <2>1, <2>2, <2>3
<1>10. UserN = n
  BY DEF UserN, n
<1>. QED  BY <1>5, <1>6, <1>7, <1>8, <1>9, <1>10 DEF HeldData

-----------------------------------------------------------------------------
(* The life of a solver that is built for a pattern                          *)

\* Problems that pass the checks can be scaled.
LEMMA ProblemIsScalable ==
  ASSUME NEW prob \in Problems, Valid(prob)
  PROVE  /\ Scalable(prob) /\ Len(prob.q) = prob.P.n /\ Len(prob.b) = prob.A.m
         /\ prob.P.n \in Nat /\ prob.A.m \in Nat /\ \A i \in 1..prob.A.m : prob.b[i] \in Int
<1>1. /\ IsMatrix(prob.P) /\ IsMatrix(prob.A) /\ prob.q \in Seq(Int) /\ prob.b \in Seq(Int) /\ InfBound \in Int
  BY ProblemsAssumption
<1>2. prob.P.m = prob.P.n /\ prob.P.n = Len(prob.q) /\ prob.A.m = Len(prob.b) /\ prob.A.n = Len(prob.q)
  BY DEF Valid
<1>3. prob.P.n \in Nat /\ prob.A.m \in Nat
  BY <1>1, MatrixEntries
<1>4. DOMAIN prob.q = 1..prob.P.n /\ \A j \in 1..prob.P.n : prob.q[j] \in Int
  BY <1>1, <1>2
<1>5. DOMAIN prob.b = 1..prob.A.m /\ \A i \in 1..prob.A.m : prob.b[i] \in Int
  BY <1>1, <1>2
<1>6. ASSUME NEW i \in 1..prob.A.m PROVE Clamped(prob.b)[i] \in Int /\ Mod(Clamped(prob.b)[i]) = Clamped(prob.b)[i]
  <2>. DEFINE v == IF prob.b[i] > InfBound THEN InfBound ELSE prob.b[i]
  <2>1. v \in Int /\ Clamped(prob.b)[i] = Mod(v)
    BY <1>1, <1>5 DEF Clamped
  <2>. HIDE DEF v
  <2>2. Mod(v) \in Int /\ Mod(Mod(v)) = Mod(v)
    BY <2>1, Remainder, ModTerm
  <2>. QED  BY <2>1, <2>2
<1>. QED  BY <1>1, <1>2, <1>3, <1>4, <1>5, <1>6 DEF Scalable

\* Matrices with entries in the same places are upper triangles together.
LEMMA TriuByPlaces ==
  ASSUME NEW M, NEW N, IsTriu(N), N.n = M.n,
         \A j \in 1..M.n : /\ DOMAIN M.col[j] = DOMAIN N.col[j]
                           /\ \A k \in DOMAIN M.col[j] : M.col[j][k][1] = N.col[j][k][1]
  PROVE  IsTriu(M)
BY DEF IsTriu, Rows

\* Matrices of equal sparsity have their entries in the same places.
LEMMA EqualSparsityPlaces ==
  ASSUME NEW M, IsMatrix(M), NEW N, IsMatrix(N), EqualSparsity(M, N)
  PROVE  /\ M.m = N.m /\ M.n = N.n
         /\ \A j \in 1..M.n : /\ DOMAIN M.col[j] = DOMAIN N.col[j]
                              /\ \A k \in DOMAIN M.col[j] : M.col[j][k][1] = N.col[j][k][1]
<1>1. M.m = N.m /\ M.n = N.n
  BY DEF EqualSparsity
<1>2. \A j \in 1..M.n : DOMAIN M.col[j] = 1..Len(M.col[j]) /\ DOMAIN N.col[j] = 1..Len(N.col[j])
  BY <1>1, MatrixEntries
<1>3. \A j \in 1..M.n : Len(M.col[j]) = Len(N.col[j]) /\ \A k \in DOMAIN M.col[j] : M.col[j][k][1] = N.col[j][k][1]
  BY DEF EqualSparsity
<1>. QED  BY <1>1, <1>2, <1>3

\* Every factor that is recorded has a reciprocal.
Invertible(data) ==
  /\ Mod(data.c) # 0
  /\ \A j \in DOMAIN data.d : Mod(data.d[j]) # 0
  /\ \A i \in DOMAIN data.e : Mod(data.e[i]) # 0

\* What a norm is taken of is the user's, once the factors are taken out.
LEMMA FactorOut ==
  ASSUME NEW x \in Int, NEW c \in Int, Mod(c) # 0
  PROVE  Mod(Mod(x * c) * Recip(c)) = Mod(x)
<1>. DEFINE r == Recip(c)
            p == x * c
            o == c * r
            one == 1
<1>1. r \in Int /\ Mod(o) = 1 /\ Mod(one) = 1
  <2>1. r \in Int /\ Mod(o) = 1
    BY RecipIsInverse
  <2>2. Mod(one) = 1
    BY DEF Mod, Prime
  <2>. QED  BY <2>1, <2>2
<1>2. p \in Int /\ o \in Int /\ one \in Int /\ p * r = x * o /\ x * one = x
  <2>. HIDE DEF r
  <2>. QED  BY <1>1
<1>3. Mod(Mod(p) * r) = Mod(p * r)
  <2>. HIDE DEF p, r
  <2>1. Mod(p) \in Int /\ Mod(Mod(p)) = Mod(p) /\ Mod(r) = Mod(r)
    BY <1>2, Remainder, ModTerm
  <2>2. Congruent(Mod(p), r, p, r)
    BY <1>1, <1>2, <2>1, Congruence
  <2>. QED  BY <2>1, <2>2 DEF Congruent
<1>4. Mod(x * o) = Mod(x * one)
  <2>. HIDE DEF o, one
  <2>1. Congruent(x, o, x, one)
    BY <1>2, Congruence
  <2>. QED  BY <1>1, <2>1 DEF Congruent
<1>. HIDE DEF r, p, o, one
<1>5. Mod(Mod(p) * r) = Mod(x)
  BY <1>2, <1>3, <1>4
<1>. QED  BY <1>5 DEF r, p

\* The same with two factors.
LEMMA FactorsOut ==
  ASSUME NEW x \in Int, NEW c \in Int, NEW d \in Int, Mod(c) # 0, Mod(d) # 0
  PROVE  Mod(Recip(c) * Mod(Mod(x * (c * d)) * Recip(d))) = Mod(x)
<1>. DEFINE y == x * c
            r == Recip(c)
<1>1. y \in Int /\ r \in Int /\ x * (c * d) = y * d
  BY RecipIsInverse
<1>2. Mod(Mod(y * d) * Recip(d)) = Mod(y)
  <2>. HIDE DEF y
  <2>. QED  BY <1>1, FactorOut
<1>3. Mod(Mod(y) * r) = Mod(x)
  BY FactorOut
<1>4. Mod(y) \in Int
  <2>. HIDE DEF y
  <2>. QED  BY <1>1, Remainder
<1>5. r * Mod(y) = Mod(y) * r
  <2>. HIDE DEF y, r
  <2>. QED  BY <1>1, <1>4
<1>. HIDE DEF y, r
<1>. QED  BY <1>1, <1>2, <1>3, <1>5 DEF r

\* get_normq and get_normb
LEMMA NormsAreUsers ==
  ASSUME NEW prob, Scalable(prob), NEW data, ScaledData(data, prob), Invertible(data)
  PROVE  /\ data.normq = NULL => NormQ(data) = ModSeq(prob.q)
         /\ data.normb = NULL => /\ DOMAIN NormB(data) = 1..prob.A.m
                                 /\ \A i \in 1..prob.A.m : NormB(data)[i] = Clamped(prob.b)[i]
<1>. DEFINE n == prob.P.n
            m == prob.A.m
<1>1. /\ DOMAIN data.q = 1..n /\ DOMAIN data.b = 1..m /\ DOMAIN data.d = 1..n /\ DOMAIN data.e = 1..m
      /\ data.c \in Int /\ \A j \in 1..n : data.d[j] \in Int
  BY DEF ScaledData
<1>2. DOMAIN prob.q = 1..n /\ DOMAIN prob.b = 1..m
  BY DEF Scalable
<1>3. ASSUME data.normq = NULL PROVE NormQ(data) = ModSeq(prob.q)
  <2>1. NormQ(data) = [j \in 1..n |-> Mod(Recip(data.c) * Mod(data.q[j] * Recip(data.d[j])))]
    BY <1>1, <1>3 DEF NormQ, By, Times, Inverses
  <2>2. ModSeq(prob.q) = [j \in 1..n |-> Mod(prob.q[j])]
    BY <1>2 DEF ModSeq
  <2>3. ASSUME NEW j \in 1..n PROVE Mod(Recip(data.c) * Mod(data.q[j] * Recip(data.d[j]))) = Mod(prob.q[j])
    <3>. DEFINE x == prob.q[j]
                c == data.c
                d == data.d[j]
    <3>1. data.q[j] = Mod(x * (c * d))
      BY DEF ScaledData
    <3>2. x \in Int /\ c \in Int /\ d \in Int /\ Mod(c) # 0 /\ Mod(d) # 0
      BY <1>1 DEF Scalable, Invertible
    <3>. HIDE DEF x, c, d
    <3>3. Mod(Recip(c) * Mod(Mod(x * (c * d)) * Recip(d))) = Mod(x)
      BY ONLY <3>2, FactorsOut
    <3>. QED  BY <3>1, <3>3 DEF x, c, d
  <2>. HIDE DEF n
  <2>. QED  BY <2>1, <2>2, <2>3
<1>4. ASSUME data.normb = NULL
      PROVE  /\ DOMAIN NormB(data) = 1..m
             /\ \A i \in 1..m : NormB(data)[i] = Clamped(prob.b)[i]
  <2>1. NormB(data) = [i \in 1..m |-> Mod(data.b[i] * Recip(data.e[i]))]
    BY <1>1, <1>4 DEF NormB, Times, Inverses
  <2>2. ASSUME NEW i \in 1..m PROVE Mod(data.b[i] * Recip(data.e[i])) = Clamped(prob.b)[i]
    <3>. DEFINE x == Clamped(prob.b)[i]
                e == data.e[i]
    <3>1. data.b[i] = Mod(x * e)
      BY DEF ScaledData
    <3>2. x \in Int /\ e \in Int /\ Mod(e) # 0
      BY <1>1 DEF Scalable, Invertible, ScaledData
    <3>3. Mod(x) = x
      BY DEF Scalable
    <3>. HIDE DEF x, e
    <3>4. Mod(Mod(x * e) * Recip(e)) = Mod(x)
      BY ONLY <3>2, FactorOut
    <3>. QED  BY <3>1, <3>3, <3>4 DEF x, e
  <2>. HIDE DEF m
  <2>. QED  BY <2>1, <2>2
<1>. QED  BY <1>3, <1>4

-----------------------------------------------------------------------------
(* The invariant *)

\* What stays as it was built.
Built(data) ==
  /\ IsData(data)
  /\ IsMatrix(data.P) /\ IsTriu(data.P) /\ IsMatrix(data.A)
  /\ data.kept = 1..data.A.m /\ data.cones \in Dividing
NormsHold(data, prob) ==
  /\ data.normq # NULL => data.normq = ModSeq(prob.q)
  /\ data.normb # NULL => /\ DOMAIN data.normb = 1..prob.A.m
                          /\ \A i \in 1..prob.A.m : data.normb[i] = Clamped(prob.b)[i]
ConesFit(data) ==
  /\ \A k \in DOMAIN data.cones : data.cones[k].kind \notin {"zero", "nonneg"} =>
       \A i, l \in DOMAIN data.e : Covers(data.cones, k, i) /\ Covers(data.cones, k, l) => data.e[i] = data.e[l]
  /\ \A k \in DOMAIN data.xcones : data.xcones[k].kind \notin {"zero", "nonneg"} =>
       \A i, j \in Elems(data.xcones[k].idx) : data.d[i] = data.d[j]
Holds(data, prob) ==
  /\ prob \in Problems /\ Valid(prob) /\ IsTriu(prob.P)
  /\ ScaledData(data, prob) /\ ConesFit(data)
  /\ Invertible(data) => NormsHold(data, prob)
\* A solver that was built for a pattern, whose gradient state tells it from
\* others, is as it was built, and holds the data of the problem that was
\* loaded last.
BatchInv ==
  gs # NULL =>
    /\ stage \in {"ready", "solved"}
    /\ Built(dat) /\ dat.xcones = user.xcones
    /\ user.side # NULL => Holds(dat, user)
    /\ stage = "solved" => user.side # NULL

\* new_symbolic_with_xcones_and_perm
LEMMA BuiltForPattern ==
  ASSUME NEW prob \in Problems, Valid(prob), IsTriu(prob.P),
         NEW given, given.P = prob.P, given.A = prob.A, given.cones = prob.cones, given.xcones = prob.xcones,
         DOMAIN given.b = DOMAIN prob.b,
         NEW data, data = ProblemData(given, FALSE, FALSE)
  PROVE  Built(data) /\ data.xcones = prob.xcones
<1>. DEFINE kept == DOMAIN given.b
            cones == Collapsed(given.cones)
            rhs == Clamped(Select(given.b, kept))
<1>1. /\ IsMatrix(prob.P) /\ IsMatrix(prob.A) /\ prob.b \in Seq(Int)
      /\ prob.cones \in Seq([kind : ConeKinds, dim : {0} \cup Factors])
  BY ProblemsAssumption
<1>3. kept = 1..prob.A.m
  BY <1>1 DEF Valid
<1>4. cones \in Dividing
  BY <1>1, CollapsedDivides
<1>5. Reduced(given, cones, FALSE) = Copied(given, cones, kept, rhs)
  <2>. HIDE DEF cones
  <2>. QED  BY DEF Reduced
<1>6. data = Reduced(given, cones, FALSE)
  <2>. DEFINE built == Reduced(given, cones, FALSE)
  <2>1. Value(cones) = cones
    BY DEF Value
  <2>2. data = CHOOSE x \in {of : of \in {Reduced(given, c, FALSE) : c \in {Value(cones)}}} : TRUE
    BY DEF ProblemData
  <2>. HIDE DEF cones
  <2>3. {of : of \in {Reduced(given, c, FALSE) : c \in {Value(cones)}}} = {built}
    BY <2>1
  <2>. HIDE DEF built
  <2>. QED  BY <2>2, <2>3 DEF built
<1>. HIDE DEF cones, rhs
<1>7. data = [P |-> prob.P, q |-> ModSeq(given.q), A |-> prob.A, b |-> rhs, cones |-> cones, xcones |-> prob.xcones,
              kept |-> kept, d |-> ConstantSeq(1, Len(given.q)), e |-> ConstantSeq(1, Len(rhs)), c |-> 1,
              normq |-> ModSeq(given.q), normb |-> rhs]
  BY <1>5, <1>6 DEF Copied
<1>. HIDE DEF kept
<1>8. IsData(data)
  BY <1>7 DEF IsData
<1>9. data.P = prob.P /\ data.A = prob.A /\ data.kept = kept /\ data.cones = cones /\ data.xcones = prob.xcones
  BY ONLY <1>7
<1>10. Built(data)
  BY ONLY IsTriu(prob.P), <1>1, <1>3, <1>4, <1>8, <1>9 DEF Built
<1>. QED  BY <1>9, <1>10

\* The data as they are given, with factors 1.
LEMMA UnscaledData ==
  ASSUME NEW prob, Scalable(prob), NEW data,
         data.P = prob.P, data.q = ModSeq(prob.q), data.A = prob.A, data.b = Clamped(prob.b),
         data.d = ConstantSeq(1, prob.P.n), data.e = ConstantSeq(1, prob.A.m), data.c = 1
  PROVE  ScaledData(data, prob)
<1>. DEFINE n == prob.P.n
            m == prob.A.m
<1>1. n \in Nat /\ m \in Nat /\ IsMatrix(prob.P) /\ IsMatrix(prob.A) /\ prob.P.m = n /\ prob.A.n = n
  BY MatrixEntries DEF Scalable
<1>2. data.d = [j \in 1..n |-> 1] /\ data.e = [i \in 1..m |-> 1]
  BY DEF ConstantSeq
<1>3. ScaledMatrix(prob.P, prob.P, 1, data.d, data.d) /\ ScaledMatrix(prob.A, prob.A, 1, data.e, data.d)
  <2>1. (\A j \in 1..n : data.d[j] = 1) /\ (\A i \in 1..m : data.e[i] = 1)
    BY <1>2
  <2>. DEFINE P == prob.P
              A == prob.A
              d == data.d
              e == data.e
  <2>2. IsMatrix(P) /\ IsMatrix(A) /\ P.m = n /\ P.n = n /\ A.m = m /\ A.n = n
    BY <1>1
  <2>3. (\A j \in 1..n : d[j] = 1) /\ (\A i \in 1..m : e[i] = 1)
    BY <2>1
  <2>. HIDE DEF P, A, d, e, n, m
  <2>4. ScaledMatrix(P, P, 1, d, d)
    BY ONLY <2>2, <2>3, UnscaledMatrix
  <2>5. ScaledMatrix(A, A, 1, e, d)
    BY ONLY <2>2, <2>3, UnscaledMatrix
  <2>. QED  BY <2>4, <2>5 DEF P, A, d, e
<1>4. ASSUME NEW j \in 1..n PROVE data.q[j] = Mod(prob.q[j] * (data.c * data.d[j]))
  <2>. DEFINE x == prob.q[j]
  <2>1. x \in Int /\ data.q[j] = Mod(x) /\ data.c = 1 /\ data.d[j] = 1
    BY <1>2 DEF Scalable, ModSeq
  <2>. HIDE DEF x
  <2>2. x * (1 * 1) = x
    BY <2>1
  <2>. QED  BY <2>1, <2>2 DEF x
<1>5. data.q = [j \in 1..n |-> data.q[j]]
  BY DEF Scalable, ModSeq
<1>6. ASSUME NEW i \in 1..m PROVE data.b[i] = Mod(Clamped(prob.b)[i] * data.e[i])
  <2>. DEFINE x == Clamped(prob.b)[i]
  <2>1. x \in Int /\ Mod(x) = x /\ data.b[i] = x /\ data.e[i] = 1
    BY <1>2 DEF Scalable
  <2>. HIDE DEF x
  <2>2. x * 1 = x
    BY <2>1
  <2>. QED  BY <2>1, <2>2 DEF x
<1>7. DOMAIN data.b = 1..m
  BY DEF Scalable, Clamped
<1>8. data.d \in [1..n -> Int] /\ data.e \in [1..m -> Int] /\ data.c \in Int
  BY <1>2
<1>. QED  BY <1>3, <1>4, <1>5, <1>6, <1>7, <1>8 DEF ScaledData

\* load_and_equilibrate
LEMMA LoadedHolds ==
  ASSUME NEW prob \in Problems, Valid(prob), NEW f \in Scalings,
         NEW old, Built(old), old.xcones = prob.xcones,
         EqualSparsity(prob.P, old.P), EqualSparsity(prob.A, old.A),
         NEW data, IsData(data), data.P = prob.P, data.q = ModSeq(prob.q), data.A = prob.A, data.b = Clamped(prob.b),
         data.d = ConstantSeq(1, Len(prob.q)), data.e = ConstantSeq(1, Len(prob.b)), data.c = 1,
         data.normq = NULL, data.normb = NULL,
         data.cones = old.cones, data.xcones = old.xcones, data.kept = old.kept,
         NEW R, R = Equilibrated(data, f)
  PROVE  Built(R) /\ Holds(R, prob) /\ R.xcones = prob.xcones
<1>. DEFINE n == prob.P.n
            m == prob.A.m
<1>1. /\ Scalable(prob) /\ Len(prob.q) = n /\ Len(prob.b) = m /\ n \in Nat /\ m \in Nat
      /\ IsMatrix(prob.P) /\ IsMatrix(prob.A) /\ prob.P.m = n /\ prob.A.n = n
  BY ProblemIsScalable DEF Scalable
<1>4. data.d = ConstantSeq(1, n) /\ data.e = ConstantSeq(1, m)
  BY <1>1
<1>5. ScaledData(data, prob)
  BY <1>1, <1>4, UnscaledData
<1>6. /\ f.d \in Seq(Factors) /\ f.e \in Seq(Factors) /\ f.c \in Factors /\ f.g \in Factors
      /\ n <= Len(f.d) /\ m <= Len(f.e)
  BY ScalingsAssumption
<1>7. /\ data.cones = old.cones /\ data.xcones = prob.xcones /\ data.kept = old.kept
      /\ data.normq = NULL /\ data.normb = NULL /\ data.cones \in Dividing
  BY DEF Built
<1>8. /\ IsData(R) /\ ScaledData(R, prob)
      /\ R.cones = data.cones /\ R.xcones = data.xcones /\ R.kept = data.kept
      /\ R.normq = data.normq /\ R.normb = data.normb
      /\ \A k \in DOMAIN data.cones : data.cones[k].kind \notin {"zero", "nonneg"} =>
           \A i, l \in 1..m : Covers(data.cones, k, i) /\ Covers(data.cones, k, l) => R.e[i] = R.e[l]
      /\ \A k \in DOMAIN data.xcones : data.xcones[k].kind \notin {"zero", "nonneg"} =>
           \A i, j \in Elems(data.xcones[k].idx) \cap (1..n) : R.d[i] = R.d[j]
  <2>1. EquilibrateLaw(prob, data, f, R)
    BY EquilibratedKeeps
  <2>. QED  BY ONLY <1>1, <1>4, <1>5, <1>6, <1>7, <2>1, IsData(data), R = Equilibrated(data, f) DEF EquilibrateLaw
<1>9. ConesFit(R)
  <2>1. DOMAIN R.e = 1..m
    BY <1>8 DEF ScaledData
  <2>2. \A k \in DOMAIN R.xcones : Elems(R.xcones[k].idx) \subseteq 1..n
    BY <1>7, <1>8, ProblemsAssumption
  <2>3. \A k \in DOMAIN R.xcones : Elems(R.xcones[k].idx) \cap (1..n) = Elems(R.xcones[k].idx)
    BY ONLY <2>2
  <2>. HIDE DEF n, m
  <2>. QED  BY ONLY <1>8, <2>1, <2>3 DEF ConesFit
<1>10. NormsHold(R, prob)
  BY <1>7, <1>8 DEF NormsHold
<1>11. IsTriu(prob.P)
  BY <1>1, EqualSparsityPlaces, TriuByPlaces DEF Built
<1>12. Built(R)
  <2>1. /\ IsMatrix(R.P) /\ IsMatrix(R.A) /\ R.A.m = m /\ R.P.n = n
        /\ \A j \in 1..n : /\ DOMAIN R.P.col[j] = DOMAIN prob.P.col[j]
                           /\ \A k \in DOMAIN prob.P.col[j] : R.P.col[j][k][1] = prob.P.col[j][k][1]
    BY ONLY <1>8 DEF ScaledData, ScaledMatrix
  <2>2. IsTriu(R.P)
    BY <1>11, <2>1, TriuByPlaces
  <2>3. old.A.m = m
    BY DEF EqualSparsity
  <2>. QED  BY <1>7, <1>8, <2>1, <2>2, <2>3 DEF Built
<1>. QED  BY <1>7, <1>8, <1>9, <1>10, <1>11, <1>12 DEF Holds

\* A new right-hand side under the old scaling.
LEMMA NewRightHandSide ==
  ASSUME NEW old, Built(old), NEW prior, Holds(old, prior), old.xcones = prior.xcones,
         NEW prob \in Problems, Valid(prob), prob.P = prior.P, prob.A = prior.A, prob.q = prior.q,
         \A i \in DOMAIN prob.b : prob.b[i] # INF,
         NEW R, R = [old EXCEPT !.b = Times(prob.b, old.e), !.normb = NULL]
  PROVE  Built(R) /\ Holds(R, prob) /\ R.xcones = old.xcones
<1>. DEFINE m == prob.A.m
<1>1. R = [P |-> old.P, q |-> old.q, A |-> old.A, b |-> Times(prob.b, old.e), cones |-> old.cones,
           xcones |-> old.xcones, kept |-> old.kept, d |-> old.d, e |-> old.e, c |-> old.c,
           normq |-> old.normq, normb |-> NULL]
  BY DEF Built, IsData
<1>2. /\ R.P = old.P /\ R.q = old.q /\ R.A = old.A /\ R.b = Times(prob.b, old.e) /\ R.cones = old.cones
      /\ R.xcones = old.xcones /\ R.kept = old.kept /\ R.d = old.d /\ R.e = old.e /\ R.c = old.c
      /\ R.normq = old.normq /\ R.normb = NULL /\ IsData(R)
  BY ONLY <1>1 DEF IsData
<1>3. Scalable(prob) /\ m \in Nat /\ \A i \in 1..m : prob.b[i] \in Int
  BY ProblemIsScalable
<1>4. /\ DOMAIN R.b = 1..m
      /\ \A i \in 1..m : R.b[i] = Mod(Clamped(prob.b)[i] * R.e[i])
  <2>1. DOMAIN prob.b = 1..m
    BY <1>3 DEF Scalable
  <2>2. R.b = [i \in 1..m |-> Mod(prob.b[i] * old.e[i])]
    BY <1>2, <2>1 DEF Times
  <2>3. ASSUME NEW i \in 1..m PROVE Mod(prob.b[i] * old.e[i]) = Mod(Clamped(prob.b)[i] * R.e[i])
    <3>. DEFINE x == prob.b[i]
                e == old.e[i]
    <3>1. x \in Int /\ InfBound \in Int /\ ~(x > InfBound)
      <4>1. InfBound \in Int /\ (prob.b[i] > InfBound => prob.b[i] = INF)
        BY <2>1, ProblemsAssumption
      <4>2. prob.b[i] # INF
        BY <2>1
      <4>3. prob.b[i] \in Int
        BY <1>3
      <4>. QED  BY ONLY <4>1, <4>2, <4>3
    <3>2. Clamped(prob.b)[i] = Mod(x) /\ R.e[i] = e
      BY <1>2, <2>1, <3>1 DEF Clamped
    <3>3. e \in Int
      BY DEF Holds, ScaledData
    <3>. HIDE DEF x, e
    <3>4. Mod(Mod(x) * e) = Mod(x * e)
      BY <3>1, <3>3, ModFactor
    <3>. QED  BY <3>2, <3>4 DEF x, e
  <2>. HIDE DEF m
  <2>. QED  BY <2>2, <2>3
<1>5. ScaledData(old, prior)
  BY DEF Holds
<1>6. ScaledData(R, prob)
  BY ONLY <1>2, <1>4, <1>5, prob.P = prior.P, prob.A = prior.A, prob.q = prior.q DEF ScaledData
<1>7. ConesFit(R)
  BY ONLY <1>2, Holds(old, prior) DEF ConesFit, Holds
<1>8. Invertible(R) => NormsHold(R, prob)
  <2>1. Invertible(R) = Invertible(old)
    BY ONLY <1>2 DEF Invertible
  <2>2. NormsHold(old, prior) => NormsHold(R, prob)
    BY ONLY <1>2, prob.q = prior.q DEF NormsHold
  <2>. QED  BY <2>1, <2>2 DEF Holds
<1>9. Built(R)
  BY ONLY <1>2, Built(old) DEF Built
<1>. QED  BY <1>2, <1>6, <1>7, <1>8, <1>9 DEF Holds

\* The norms that a solve asks for.
LEMMA SolvedHolds ==
  ASSUME NEW old, Built(old), NEW prob, Holds(old, prob),
         NEW R, R = [old EXCEPT !.normq = NormQ(old), !.normb = NormB(old)]
  PROVE  Built(R) /\ Holds(R, prob) /\ R.xcones = old.xcones
<1>. DEFINE normq == NormQ(old)
            normb == NormB(old)
<1>1. R = [P |-> old.P, q |-> old.q, A |-> old.A, b |-> old.b, cones |-> old.cones,
           xcones |-> old.xcones, kept |-> old.kept, d |-> old.d, e |-> old.e, c |-> old.c,
           normq |-> normq, normb |-> normb]
  BY DEF Built, IsData
<1>. HIDE DEF normq, normb
<1>2. /\ R.P = old.P /\ R.q = old.q /\ R.A = old.A /\ R.b = old.b /\ R.cones = old.cones
      /\ R.xcones = old.xcones /\ R.kept = old.kept /\ R.d = old.d /\ R.e = old.e /\ R.c = old.c
      /\ R.normq = normq /\ R.normb = normb /\ IsData(R)
  BY ONLY <1>1 DEF IsData
<1>3. ScaledData(R, prob) = ScaledData(old, prob)
  BY ONLY <1>2 DEF ScaledData
<1>4. ConesFit(R)
  BY ONLY <1>2, Holds(old, prob) DEF ConesFit, Holds
<1>5. ASSUME Invertible(R) PROVE NormsHold(R, prob)
  <2>1. Invertible(old)
    BY ONLY <1>2, <1>5 DEF Invertible
  <2>2. Scalable(prob) /\ ScaledData(old, prob) /\ NormsHold(old, prob)
    BY <2>1, ProblemIsScalable DEF Holds
  <2>3. normq = ModSeq(prob.q)
    <3>1. CASE old.normq = NULL
      BY <2>1, <2>2, <3>1, NormsAreUsers DEF normq
    <3>2. CASE old.normq # NULL
      BY ONLY <2>2, <3>2 DEF normq, NormQ, NormsHold
    <3>. QED  BY <3>1, <3>2
  <2>4. DOMAIN normb = 1..prob.A.m /\ \A i \in 1..prob.A.m : normb[i] = Clamped(prob.b)[i]
    <3>1. CASE old.normb = NULL
      BY <2>1, <2>2, <3>1, NormsAreUsers DEF normb
    <3>2. CASE old.normb # NULL
      BY ONLY <2>2, <3>2 DEF normb, NormB, NormsHold
    <3>. QED  BY <3>1, <3>2
  <2>. QED  BY ONLY <1>2, <2>3, <2>4 DEF NormsHold
<1>6. Built(R)
  BY ONLY <1>2, Built(old) DEF Built
<1>. QED  BY <1>2, <1>3, <1>4, <1>5, <1>6 DEF Holds

\* There is no solver at first.
LEMMA StartInv == Init => BatchInv
BY DEF Init, BatchInv

\* Every operation of the solver keeps BatchInv.
LEMMA StepInv == BatchInv /\ [Next]_vars => BatchInv'
<1>. SUFFICES ASSUME BatchInv, [Next]_vars, gs' # NULL
              PROVE  /\ stage' \in {"ready", "solved"}
                     /\ Built(dat') /\ dat'.xcones = user'.xcones
                     /\ user'.side # NULL => Holds(dat', user')
                     /\ stage' = "solved" => user'.side # NULL
  BY DEF BatchInv
<1>. USE DEF BatchInv
<1>1. CASE New
  BY <1>1 DEF New
<1>2. CASE Reject
  BY <1>2 DEF Reject
<1>3. CASE NewSymbolic
  <2>1. PICK prob \in Problems :
          /\ Valid(prob) /\ IsTriu(prob.P)
          /\ dat' = ProblemData([prob EXCEPT !.q = ConstantSeq(0, Len(prob.q)), !.b = ConstantSeq(0, Len(prob.b))],
                                FALSE, FALSE)
          /\ user' = [prob EXCEPT !.q = ConstantSeq(0, Len(prob.q)), !.b = ConstantSeq(0, Len(prob.b)), !.side = NULL]
          /\ stage' = "ready"
    BY <1>3 DEF NewSymbolic
  <2>. DEFINE q == ConstantSeq(0, Len(prob.q))
              b == ConstantSeq(0, Len(prob.b))
  <2>2. DOMAIN prob = {"name", "P", "A", "q", "b", "cones", "xcones", "side", "ray", "xside", "xray"}
        /\ prob.b \in Seq(Int)
    BY ProblemsAssumption
  <2>3. DOMAIN b = DOMAIN prob.b
    BY <2>2 DEF ConstantSeq
  <2>. DEFINE given == [prob EXCEPT !.q = q, !.b = b]
  <2>4. dat' = ProblemData(given, FALSE, FALSE)
    BY <2>1
  <2>5. user'.side = NULL /\ user'.xcones = prob.xcones
    BY <2>1, <2>2
  <2>. HIDE DEF q, b
  <2>6. /\ given.P = prob.P /\ given.A = prob.A /\ given.cones = prob.cones /\ given.xcones = prob.xcones
        /\ given.b = b
    BY <2>2
  <2>. HIDE DEF given
  <2>7. Built(dat') /\ dat'.xcones = prob.xcones
    <3>1. prob \in Problems /\ Valid(prob) /\ IsTriu(prob.P)
      BY <2>1
    <3>. QED  BY ONLY <3>1, <2>3, <2>4, <2>6, BuiltForPattern
  <2>. QED  BY <2>1, <2>5, <2>7
<1>4. CASE Load
  <2>1. gs # NULL /\ stage' = "ready"
    BY <1>4 DEF Load
  <2>2. Built(dat) /\ dat.xcones = user.xcones
    BY <2>1
  <2>3. PICK prob \in Problems, f \in Scalings :
          /\ Valid(prob) /\ EqualSparsity(prob.P, dat.P) /\ EqualSparsity(prob.A, dat.A)
          /\ prob.xcones = user.xcones
          /\ dat' = Equilibrated([dat EXCEPT !.P = prob.P, !.q = ModSeq(prob.q), !.A = prob.A, !.b = Clamped(prob.b),
                                             !.d = ConstantSeq(1, Len(prob.q)), !.e = ConstantSeq(1, Len(prob.b)), !.c = 1,
                                             !.normq = NULL, !.normb = NULL], f)
          /\ user' = prob
    BY <1>4 DEF Load
  <2>4. Built(dat') /\ Holds(dat', prob) /\ dat'.xcones = prob.xcones
    <3>1. PICK data : /\ data = [dat EXCEPT !.P = prob.P, !.q = ModSeq(prob.q), !.A = prob.A, !.b = Clamped(prob.b),
                                            !.d = ConstantSeq(1, Len(prob.q)), !.e = ConstantSeq(1, Len(prob.b)), !.c = 1,
                                            !.normq = NULL, !.normb = NULL]
                      /\ dat' = Equilibrated(data, f)
      BY <2>3
    <3>2. /\ IsData(data) /\ data.P = prob.P /\ data.q = ModSeq(prob.q) /\ data.A = prob.A /\ data.b = Clamped(prob.b)
          /\ data.d = ConstantSeq(1, Len(prob.q)) /\ data.e = ConstantSeq(1, Len(prob.b)) /\ data.c = 1
          /\ data.normq = NULL /\ data.normb = NULL
          /\ data.cones = dat.cones /\ data.xcones = dat.xcones /\ data.kept = dat.kept
      <4>1. IsData(dat)
        BY <2>2 DEF Built
      <4>2. data = [P |-> prob.P, q |-> ModSeq(prob.q), A |-> prob.A, b |-> Clamped(prob.b), cones |-> dat.cones,
                    xcones |-> dat.xcones, kept |-> dat.kept, d |-> ConstantSeq(1, Len(prob.q)),
                    e |-> ConstantSeq(1, Len(prob.b)), c |-> 1, normq |-> NULL, normb |-> NULL]
        BY ONLY <4>1, <3>1 DEF IsData
      <4>. QED  BY ONLY <4>2 DEF IsData
    <3>3. /\ prob \in Problems /\ f \in Scalings /\ Valid(prob)
          /\ EqualSparsity(prob.P, dat.P) /\ EqualSparsity(prob.A, dat.A) /\ dat.xcones = prob.xcones
      BY <2>2, <2>3
    <3>4. dat' = Equilibrated(data, f) /\ Built(dat)
      BY <2>2, <3>1
    <3>. QED  BY ONLY <3>2, <3>3, <3>4, LoadedHolds
  <2>. QED  BY <2>1, <2>3, <2>4
<1>5. CASE LoadB
  <2>1. gs # NULL /\ stage = "solved" /\ stage' = "ready"
    BY <1>5 DEF LoadB
  <2>2. Built(dat) /\ Holds(dat, user) /\ dat.xcones = user.xcones
    BY <2>1
  <2>3. PICK prob \in Problems :
          /\ prob.P = user.P /\ prob.A = user.A /\ prob.q = user.q /\ prob.xcones = user.xcones
          /\ Valid(prob) /\ \A i \in DOMAIN prob.b : prob.b[i] # INF
          /\ dat' = [dat EXCEPT !.b = Times(prob.b, dat.e), !.normb = NULL]
          /\ user' = prob
    BY <1>5 DEF LoadB
  <2>4. Built(dat') /\ Holds(dat', prob) /\ dat'.xcones = dat.xcones
    BY <2>2, <2>3, NewRightHandSide
  <2>. QED  BY <2>1, <2>2, <2>3, <2>4
<1>6. CASE Solve
  <2>1. /\ gs' = gs /\ user' = user /\ user.side # NULL /\ stage' = "solved"
        /\ dat' = [dat EXCEPT !.normq = NormQ(dat), !.normb = NormB(dat)]
    BY <1>6 DEF Solve
  <2>2. Built(dat) /\ Holds(dat, user) /\ dat.xcones = user.xcones
    BY <2>1
  <2>3. Built(dat') /\ Holds(dat', user) /\ dat'.xcones = dat.xcones
    BY <2>1, <2>2, SolvedHolds
  <2>. QED  BY <2>1, <2>2, <2>3
<1>7. CASE Iterate \/ FirstPoint \/ Backward \/ Forward
  <2>1. stage' = stage /\ user' = user /\ dat' = dat /\ gs' = gs
    BY <1>7 DEF Iterate, FirstPoint, Backward, Forward
  <2>. QED  BY <2>1
<1>8. CASE UNCHANGED vars
  BY <1>8 DEF vars
<1>. QED  BY <1>1, <1>2, <1>3, <1>4, <1>5, <1>6, <1>7, <1>8 DEF Next

\* BatchInv is an invariant of a solver.
LEMMA BatchInvHolds == Spec => []BatchInv
BY StartInv, StepInv, PTL DEF Spec

\* What the data are by BatchInv is what HeldData, HeldNorms and ConesKept ask.
LEMMA HoldsMeans ==
  ASSUME BatchInv, gs # NULL, Loaded
  PROVE  HeldData /\ ConesKept /\ (Invertible(dat) => HeldNorms)
<1>1. Built(dat) /\ Holds(dat, user)
  BY DEF BatchInv, Loaded
<1>2. Scalable(user) /\ ScaledData(dat, user) /\ IsTriu(user.P) /\ user.A.m \in Nat
  BY <1>1, ProblemIsScalable DEF Holds
<1>3. dat.kept = 1..user.A.m
  BY <1>1, <1>2 DEF Built, ScaledData, ScaledMatrix
<1>4. HeldData
  BY <1>2, <1>3, ScaledDataIsHeld
<1>5. ConesKept
  BY <1>1 DEF Holds, ConesFit, ConesKept
<1>6. ASSUME Invertible(dat) PROVE HeldNorms
  <2>1. NormsHold(dat, user)
    BY <1>1, <1>6 DEF Holds
  <2>2. Cardinality(dat.kept) = user.A.m
    BY <1>2, <1>3, FS_Interval
  <2>3. \A r \in dat.kept : r \in 1..user.A.m /\ KeptPlace(r) = r
    BY <1>2, <1>3, PlaceOfRow
  <2>. QED  BY ONLY <2>1, <2>2, <2>3 DEF NormsHold, HeldNorms, UserB
<1>. QED  BY <1>4, <1>5, <1>6

\* A solver that was built for a pattern holds the user's problem after every
\* load_and_equilibrate, every right-hand side of solve_batch_preequilibrated
\* and every solve, in whatever order they come: the matrices, the cost and the
\* right-hand side are the user's under the factors it has recorded, those
\* factors fit the cones, and a cached norm is one of the user's vectors as
\* long as no factor is 0.
THEOREM BatchHoldsData ==
  Spec => [](gs # NULL => (Loaded => HeldData /\ ConesKept /\ (Invertible(dat) => HeldNorms)))
<1>1. BatchInv => (gs # NULL => (Loaded => HeldData /\ ConesKept /\ (Invertible(dat) => HeldNorms)))
  BY HoldsMeans
<1>. QED  BY BatchInvHolds, <1>1, PTL

\* In particular DataIsUsersProblem holds of such a solver while its factors
\* have reciprocals, as the positive numbers of equilibrate do.
THEOREM DataOfBatch ==
  Spec => [](gs # NULL /\ Invertible(dat) => DataIsUsersProblem)
<1>1. BatchInv => (gs # NULL /\ Invertible(dat) => DataIsUsersProblem)
  BY HoldsMeans DEF DataIsUsersProblem
<1>. QED  BY BatchInvHolds, <1>1, PTL
=============================================================================

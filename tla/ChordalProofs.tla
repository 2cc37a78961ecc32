----------------------------- MODULE ChordalProofs -----------------------------
(***************************************************************************)
(* Proofs about ChordalDecomposition, for every order of the cone, mask,   *)
(* elimination order and merge thresholds.                                 *)
(*                                                                         *)
(* The argument follows the code.  The symbolic factor of find_graph hands *)
(* higher neighbours on to the lowest of them (Factor); pothen_sun groups  *)
(* its columns into chains that nest (Grouped); the supernodes with their  *)
(* separators form a tree (Junction) in which a separator lies in the      *)
(* clique of the parent without being all of it, below it and above the    *)
(* supernode.  The parent-child merges and the renumbering keep a Junction *)
(* and, in the post order, children before parents.  What the properties   *)
(* ask for follows from a Junction in post order: SeparatorIs, Between,    *)
(* Maximal and AboveIs are the facts about it that carry them.  Stack is   *)
(* that tree in the user's vertices, RowsFit what it makes of the rows.    *)
(*                                                                         *)
(* The folds and recursive functions of Arrays are unfolded by hand: the   *)
(* first part derives induction over 0..n and over the subsets of a finite *)
(* set from the least member of a set of numbers, and every lemma about a  *)
(* fold states the invariant of its steps as a function I of their number. *)
(***************************************************************************)
EXTENDS ChordalDecomposition, FiniteSetTheorems, WellFoundedInduction, TLAPS

-----------------------------------------------------------------------------
(* Numbers, recursion and lists                                              *)

\* A set of natural numbers with a member has a least one.
LEMMA LeastMember ==
  ASSUME NEW T, T \in SUBSET Nat, T # {}
  PROVE  \E n \in T : \A k \in Nat : k < n => k \notin T
<1>. DEFINE R == OpToRel(<, Nat)
<1>1. PICK n \in T : \A k \in T : <<k, n>> \notin R
  <2>1. IsWellFoundedOn(R, Nat)
    BY NatLessThanWellFounded
  <2>. HIDE DEF R
  <2>. QED  BY <2>1, WFMin
<1>2. \A k \in Nat : k < n => <<k, n>> \in R
  BY DEF OpToRel
<1>. QED  BY <1>1, <1>2

\* Least and Greatest are what they say.
LEMMA LeastIs ==
  ASSUME NEW S, S \in SUBSET Nat, S # {}
  PROVE  Least(S) \in S /\ \A x \in S : Least(S) <= x
<1>1. PICK n \in S : \A k \in Nat : k < n => k \notin S
  BY LeastMember
<1>2. n \in S /\ \A y \in S : n <= y
  BY <1>1
<1>. QED  BY <1>2 DEF Least

\* A nonempty bounded set of numbers has a greatest member, which Greatest returns.
LEMMA GreatestIs ==
  ASSUME NEW S, NEW b \in Nat, S \in SUBSET (0..b), S # {}
  PROVE  Greatest(S) \in S /\ \A x \in S : x <= Greatest(S)
<1>. DEFINE T == {k \in Nat : b - k \in S}
<1>1. T # {}
  <2>1. PICK x \in S : TRUE
    OBVIOUS
  <2>2. x \in 0..b /\ b - (b - x) = x /\ b - x \in Nat
    OBVIOUS
  <2>. QED  BY <2>1, <2>2
<1>2. PICK n \in T : \A k \in Nat : k < n => k \notin T
  BY <1>1, LeastMember
<1>3. b - n \in S /\ \A y \in S : y <= b - n
  <2>1. b - n \in S
    BY <1>2
  <2>2. ASSUME NEW y \in S, y > b - n PROVE FALSE
    <3>1. y \in Nat /\ y <= b /\ b - y \in Nat /\ b - y < n /\ b - (b - y) = y
      BY <2>2
    <3>. QED  BY <1>2, <3>1
  <2>. QED  BY <2>1, <2>2
<1>. QED  BY <1>3 DEF Greatest

\* What is defined by recursion on a natural number exists.
Recursive(D, base, n, G) ==
  base \in D /\ n \in Nat /\ G \in [D \X (1..n) -> D]
    => \E f \in [0..n -> D] : f[0] = base /\ \A i \in 1..n : f[i] = G[<<f[i - 1], i>>]
\* A function can be defined by recursion over 0..n.
LEMMA RecursionExists == \A D, base, n, G : Recursive(D, base, n, G)
<1>. TAKE D, base, n, G
<1>. SUFFICES ASSUME base \in D, n \in Nat, G \in [D \X (1..n) -> D]
              PROVE  \E f \in [0..n -> D] : f[0] = base /\ \A i \in 1..n : f[i] = G[<<f[i - 1], i>>]
  BY DEF Recursive
<1>. DEFINE Made(m, f) == f \in [0..m -> D] /\ f[0] = base /\ \A i \in 1..m : f[i] = G[<<f[i - 1], i>>]
            Missing == {m \in Nat : m <= n /\ ~ \E f : Made(m, f)}
<1>1. SUFFICES ASSUME Missing # {} PROVE FALSE
  <2>1. Missing = {} => \E f : Made(n, f)
    <3>. HIDE DEF Made
    <3>. QED  OBVIOUS
  <2>. QED  BY <2>1
<1>2. PICK m \in Missing : \A k \in Nat : k < m => k \notin Missing
  BY <1>1, LeastMember
<1>3. m # 0
  <2>. DEFINE g == [i \in 0..0 |-> base]
  <2>1. Made(0, g)
    OBVIOUS
  <2>. QED  BY <1>2, <2>1
<1>4. m - 1 \in Nat /\ m - 1 < m /\ m - 1 <= n /\ m \in 1..n
  BY <1>3
<1>5. PICK f : Made(m - 1, f)
  BY <1>2, <1>4
<1>. DEFINE g == [i \in 0..m |-> IF i = m THEN G[<<f[m - 1], m>>] ELSE f[i]]
<1>6. \A i \in 0..(m - 1) : g[i] = f[i] /\ f[i] \in D
  BY <1>4, <1>5
<1>7. G[<<f[m - 1], m>>] \in D
  <2>1. m - 1 \in 0..(m - 1)
    BY <1>4
  <2>2. f[m - 1] \in D
    BY <1>6, <2>1
  <2>3. <<f[m - 1], m>> \in D \X (1..n)
    BY <1>4, <2>2
  <2>. HIDE DEF g
  <2>. QED  BY <2>3
<1>8. g \in [0..m -> D] /\ g[0] = base
  BY <1>4, <1>5, <1>6, <1>7
<1>9. ASSUME NEW i \in 1..m PROVE g[i] = G[<<g[i - 1], i>>]
  <2>1. i - 1 \in 0..(m - 1) /\ g[i - 1] = f[i - 1]
    BY <1>4, <1>6
  <2>2. CASE i = m
    <3>1. g[m] = G[<<f[m - 1], m>>]
      OBVIOUS
    <3>. HIDE DEF g
    <3>. QED  BY <2>1, <2>2, <3>1
  <2>3. CASE i # m
    <3>1. i \in 1..(m - 1)
      BY <1>4, <2>3
    <3>. QED  BY <1>5, <1>6, <2>1, <3>1
  <2>. QED  BY <2>2, <2>3
<1>10. Made(m, g)
  BY <1>8, <1>9
<1>. QED  BY <1>2, <1>10

\* Two functions that agree at 0, and at every place if they agree before it,
\* agree; and what holds at 0, and at every place if it holds before, holds.
Carried(n, T) == n \in Nat /\ 0 \in T /\ (\A i \in 1..n : i - 1 \in T => i \in T) => 0..n \subseteq T

\* Induction up to n, over a set of indices.
LEMMA Induction == \A n, T : Carried(n, T)
<1>. TAKE n, T
<1>. SUFFICES ASSUME n \in Nat, 0 \in T, \A i \in 1..n : i - 1 \in T => i \in T,
                     NEW x \in 0..n, x \notin T
              PROVE FALSE
  BY DEF Carried
<1>. DEFINE U == {i \in 0..n : i \notin T}
<1>0. x \in U /\ U \in SUBSET Nat
  OBVIOUS
<1>1. PICK m \in U : \A k \in Nat : k < m => k \notin U
  BY <1>0, LeastMember
<1>2. m # 0 /\ m \in 1..n /\ m - 1 \in Nat /\ m - 1 < m /\ m - 1 \in 0..n
  BY <1>1
<1>3. m - 1 \in T
  BY <1>1, <1>2
<1>. QED  BY <1>1, <1>2, <1>3

\* A fold that stays within D has the invariants I[0], ..., I[n].
Invariant(D, I, base, n, G) ==
  /\ n \in Nat /\ base \in I[0] /\ \A i \in 0..n : I[i] \subseteq D
  /\ \A i \in 1..n : \A x \in I[i - 1] : G[<<x, i>>] \in I[i]
Folding(D, I, base, n, G) ==
  Invariant(D, I, base, n, G) =>
    \E g \in [0..n -> D] : /\ g[0] = base /\ \A i \in 1..n : g[i] = G[<<g[i - 1], i>>]
                          /\ \A i \in 0..n : g[i] \in I[i]

\* A fold stays within an invariant that its steps keep: the values before and
\* after each step, as a function of the number of steps.
LEMMA InvariantHolds == \A D, I, base, n, G : Folding(D, I, base, n, G)
<1>. TAKE D, I, base, n, G
<1>. SUFFICES ASSUME Invariant(D, I, base, n, G)
              PROVE  \E g \in [0..n -> D] : /\ g[0] = base /\ \A i \in 1..n : g[i] = G[<<g[i - 1], i>>]
                                            /\ \A i \in 0..n : g[i] \in I[i]
  BY DEF Folding
<1>. DEFINE H == [p \in D \X (1..n) |-> IF p[1] \in I[p[2] - 1] THEN G[p] ELSE p[1]]
<1>1. n \in Nat /\ base \in D
  BY DEF Invariant
<1>2. \A x \in D, i \in 1..n : H[<<x, i>>] = IF x \in I[i - 1] THEN G[<<x, i>>] ELSE x
  OBVIOUS
<1>3. \A x \in D, i \in 1..n : x \in I[i - 1] => G[<<x, i>>] \in I[i] /\ G[<<x, i>>] \in D
  BY <1>1 DEF Invariant
<1>4. H \in [D \X (1..n) -> D]
  BY <1>3
<1>. HIDE DEF H
<1>5. PICK g \in [0..n -> D] : g[0] = base /\ \A i \in 1..n : g[i] = H[<<g[i - 1], i>>]
  <2>1. Recursive(D, base, n, H)
    BY RecursionExists
  <2>. QED  BY <1>1, <1>4, <2>1 DEF Recursive
<1>. DEFINE T == {i \in 0..n : g[i] \in I[i]}
<1>6. 0 \in T
  BY <1>1, <1>5 DEF Invariant
<1>7. ASSUME NEW i \in 1..n, i - 1 \in T PROVE i \in T /\ g[i] = G[<<g[i - 1], i>>]
  <2>1. g[i - 1] \in D /\ g[i - 1] \in I[i - 1]
    BY <1>5, <1>7
  <2>. QED  BY <1>2, <1>3, <1>5, <2>1
<1>8. 0..n \subseteq T
  <2>. HIDE DEF T
  <2>. QED  BY <1>1, <1>6, <1>7, Induction DEF Carried
<1>9. \A i \in 1..n : i - 1 \in T
  BY <1>1, <1>8
<1>. QED  BY <1>5, <1>7, <1>8, <1>9

-----------------------------------------------------------------------------
(* Lists                                                                     *)

Distinct(s) == \A i, j \in DOMAIN s : s[i] = s[j] => i = j

\* The members of a list.
LEMMA ElemsOfSeq ==
  ASSUME NEW S, NEW s \in Seq(S)
  PROVE  /\ Elems(s) \subseteq S /\ (s = <<>> <=> Elems(s) = {}) /\ DOMAIN s = 1..Len(s) /\ Len(s) \in Nat
         /\ \A x : x \in Elems(s) <=> \E i \in 1..Len(s) : x = s[i]
<1>1. DOMAIN s = 1..Len(s) /\ Len(s) \in Nat /\ \A i \in 1..Len(s) : s[i] \in S
  OBVIOUS
<1>2. Elems(s) = {s[i] : i \in 1..Len(s)}
  BY <1>1 DEF Elems
<1>3. s = <<>> <=> Elems(s) = {}
  <2>1. s = <<>> => Len(s) = 0
    OBVIOUS
  <2>2. Len(s) = 0 => s = <<>>
    OBVIOUS
  <2>3. Len(s) # 0 => 1 \in 1..Len(s)
    BY <1>1
  <2>. QED  BY <1>1, <1>2, <2>1, <2>2, <2>3
<1>. QED  BY <1>1, <1>2, <1>3

\* The members of a list with one more at its end (push).
LEMMA ElemsOfAppend ==
  ASSUME NEW S, NEW s \in Seq(S), NEW x \in S
  PROVE  /\ Append(s, x) \in Seq(S) /\ Elems(Append(s, x)) = Elems(s) \cup {x}
         /\ Distinct(s) /\ x \notin Elems(s) => Distinct(Append(s, x))
<1>. DEFINE t == Append(s, x)
<1>1. t \in Seq(S) /\ Len(t) = Len(s) + 1 /\ t[Len(s) + 1] = x /\ \A i \in 1..Len(s) : t[i] = s[i]
  OBVIOUS
<1>2. DOMAIN t = 1..(Len(s) + 1) /\ DOMAIN s = 1..Len(s) /\ Len(s) \in Nat
  OBVIOUS
<1>. HIDE DEF t
<1>3. Elems(t) = Elems(s) \cup {x}
  <2>1. Elems(t) \subseteq Elems(s) \cup {x}
    <3>. SUFFICES ASSUME NEW i \in 1..(Len(s) + 1) PROVE t[i] \in Elems(s) \cup {x}
      BY <1>2 DEF Elems
    <3>1. i = Len(s) + 1 \/ i \in 1..Len(s)
      BY <1>2
    <3>. QED  BY <1>1, <1>2, <3>1 DEF Elems
  <2>2. Elems(s) \cup {x} \subseteq Elems(t)
    <3>1. \A i \in 1..Len(s) : i \in DOMAIN t /\ t[i] = s[i]
      BY <1>1, <1>2
    <3>2. Len(s) + 1 \in DOMAIN t
      BY <1>2
    <3>. QED  BY <1>1, <1>2, <3>1, <3>2 DEF Elems
  <2>. QED  BY <2>1, <2>2
<1>4. ASSUME Distinct(s), x \notin Elems(s) PROVE Distinct(t)
  <2>. SUFFICES ASSUME NEW i \in 1..(Len(s) + 1), NEW j \in 1..(Len(s) + 1), t[i] = t[j] PROVE i = j
    BY <1>2 DEF Distinct
  <2>1. \A k \in 1..Len(s) : t[k] # x
    BY <1>1, <1>2, <1>4 DEF Elems
  <2>2. CASE i \in 1..Len(s) /\ j \in 1..Len(s)
    BY <1>1, <1>2, <1>4, <2>2 DEF Distinct
  <2>3. CASE i = Len(s) + 1 \/ j = Len(s) + 1
    BY <1>1, <1>2, <2>1, <2>3
  <2>. QED  BY <1>2, <2>2, <2>3
<1>. QED  BY <1>1, <1>3, <1>4 DEF t

\* The members of two lists, one after the other (extend).
LEMMA ElemsOfConcat ==
  ASSUME NEW S, NEW s \in Seq(S), NEW t \in Seq(S)
  PROVE  /\ s \o t \in Seq(S) /\ Elems(s \o t) = Elems(s) \cup Elems(t) /\ Len(s \o t) = Len(s) + Len(t)
         /\ Distinct(s) /\ Distinct(t) /\ Elems(s) \cap Elems(t) = {} => Distinct(s \o t)
<1>. DEFINE u == s \o t
            m == Len(s)
            n == Len(t)
<1>1. m \in Nat /\ n \in Nat /\ DOMAIN s = 1..m /\ DOMAIN t = 1..n
  OBVIOUS
<1>2. u \in Seq(S) /\ Len(u) = m + n /\ DOMAIN u = 1..(m + n)
  OBVIOUS
<1>3. (\A i \in 1..m : u[i] = s[i]) /\ \A i \in 1..n : u[m + i] = t[i]
  OBVIOUS
<1>. HIDE DEF u, m, n
<1>4. \A i \in 1..(m + n) : i \in 1..m \/ (i - m \in 1..n /\ i = m + (i - m))
  BY <1>1
<1>5. \A i \in 1..(m + n) : u[i] = IF i \in 1..m THEN s[i] ELSE t[i - m]
  BY <1>1, <1>3, <1>4
<1>6. (\A i \in 1..m : i \in 1..(m + n)) /\ \A i \in 1..n : m + i \in 1..(m + n)
  BY <1>1
<1>7. Elems(u) = Elems(s) \cup Elems(t)
  <2>1. Elems(u) \subseteq Elems(s) \cup Elems(t)
    <3>. SUFFICES ASSUME NEW i \in 1..(m + n) PROVE u[i] \in Elems(s) \cup Elems(t)
      BY <1>2 DEF Elems
    <3>1. CASE i \in 1..m
      BY <1>1, <1>3, <3>1 DEF Elems
    <3>2. CASE i - m \in 1..n
      BY <1>1, <1>4, <1>5, <3>2 DEF Elems
    <3>. QED  BY <1>4, <3>1, <3>2
  <2>2. Elems(s) \cup Elems(t) \subseteq Elems(u)
    BY <1>1, <1>2, <1>3, <1>6 DEF Elems
  <2>. QED  BY <2>1, <2>2
<1>8. ASSUME Distinct(s), Distinct(t), Elems(s) \cap Elems(t) = {} PROVE Distinct(u)
  <2>. SUFFICES ASSUME NEW i \in 1..(m + n), NEW j \in 1..(m + n), u[i] = u[j] PROVE i = j
    BY <1>2 DEF Distinct
  <2>1. \A k \in 1..m, l \in 1..n : s[k] # t[l]
    BY <1>1, <1>8 DEF Elems
  <2>2. CASE i \in 1..m /\ j \in 1..m
    BY <1>1, <1>3, <1>8, <2>2 DEF Distinct
  <2>3. CASE i \notin 1..m /\ j \notin 1..m
    <3>1. i - m \in 1..n /\ j - m \in 1..n /\ t[i - m] = t[j - m]
      BY <1>4, <1>5, <2>3
    <3>2. i - m = j - m
      BY <1>1, <1>8, <3>1 DEF Distinct
    <3>. QED  BY <1>1, <3>2
  <2>4. CASE i \in 1..m /\ j \notin 1..m
    BY <1>4, <1>5, <2>1, <2>4
  <2>5. CASE i \notin 1..m /\ j \in 1..m
    BY <1>4, <1>5, <2>1, <2>5
  <2>. QED  BY <2>2, <2>3, <2>4, <2>5
<1>. QED  BY <1>2, <1>7, <1>8 DEF u, m, n
\* A list without repetition is as long as the set of its members is large.
LEMMA DistinctLen ==
  ASSUME NEW S, NEW s \in Seq(S), Distinct(s)
  PROVE  IsFiniteSet(Elems(s)) /\ Cardinality(Elems(s)) = Len(s)
<1>. DEFINE f == [i \in 1..Len(s) |-> s[i]]
<1>1. f \in Bijection(1..Len(s), Elems(s))
  BY DEF Bijection, Injection, Surjection, IsInjective, Elems, Distinct
<1>2. IsFiniteSet(1..Len(s)) /\ Cardinality(1..Len(s)) = Len(s)
  <2>1. Len(s) \in Nat
    OBVIOUS
  <2>. QED  BY <2>1, FS_Interval
<1>3. ExistsBijection(1..Len(s), Elems(s))
  BY <1>1 DEF ExistsBijection
<1>. QED  BY <1>2, <1>3, FS_Bijection

\* The same for the subsets of a finite set, one member less each time.
Picks(S, pick) == \A T \in SUBSET S : T # {} => pick[T] \in T
Shrinking(S, pick, U) ==
  IsFiniteSet(S) /\ Picks(S, pick) /\ {} \in U
    /\ (\A T \in SUBSET S : T # {} /\ T \ {pick[T]} \in U => T \in U) => SUBSET S \subseteq U

\* Induction over the subsets of a finite set, taking one member out at a time.
LEMMA SetInduction == \A S, pick, U : Shrinking(S, pick, U)
<1>. TAKE S, pick, U
<1>. SUFFICES ASSUME IsFiniteSet(S), Picks(S, pick), {} \in U,
                     \A T \in SUBSET S : T # {} /\ T \ {pick[T]} \in U => T \in U,
                     NEW X \in SUBSET S, X \notin U
              PROVE FALSE
  BY DEF Shrinking
<1>. DEFINE C == {n \in Nat : \E T \in SUBSET S : T \notin U /\ Cardinality(T) = n}
<1>1. \A T \in SUBSET S : IsFiniteSet(T) /\ Cardinality(T) \in Nat
  BY FS_Subset, FS_CardinalityType
<1>2. Cardinality(X) \in C /\ C \in SUBSET Nat
  BY <1>1
<1>3. PICK n \in C : \A k \in Nat : k < n => k \notin C
  <2>. HIDE DEF C
  <2>. QED  BY <1>2, LeastMember
<1>4. PICK T \in SUBSET S : T \notin U /\ Cardinality(T) = n
  BY <1>3
<1>5. T # {} /\ pick[T] \in T
  BY <1>4 DEF Picks
<1>6. Cardinality(T \ {pick[T]}) = n - 1 /\ T \ {pick[T]} \in SUBSET S
  BY <1>1, <1>4, <1>5, FS_RemoveElement
<1>7. n - 1 \in Nat /\ n - 1 < n
  <2>1. Cardinality(T \ {pick[T]}) \in Nat
    BY <1>1, <1>6
  <2>. QED  BY <1>6, <2>1
<1>8. T \ {pick[T]} \notin U
  BY <1>4, <1>5
<1>. QED  BY <1>3, <1>6, <1>7, <1>8

SetRecursive(S, pick, D, base, G) ==
  IsFiniteSet(S) /\ Picks(S, pick) /\ base \in D /\ (\A T \in SUBSET S, d \in D : T # {} => G[<<T, d>>] \in D)
    => \E f \in [SUBSET S -> D] : f[{}] = base /\ \A T \in SUBSET S : T # {} => f[T] = G[<<T, f[T \ {pick[T]}]>>]

\* Such a recursion defines a function: what Ascending and SumOver rest on.
LEMMA SetRecursionExists == \A S, pick, D, base, G : SetRecursive(S, pick, D, base, G)
<1>. TAKE S, pick, D, base, G
<1>. SUFFICES ASSUME IsFiniteSet(S), Picks(S, pick), base \in D,
                     \A T \in SUBSET S, d \in D : T # {} => G[<<T, d>>] \in D
              PROVE  \E f \in [SUBSET S -> D] : f[{}] = base /\ \A T \in SUBSET S : T # {} => f[T] = G[<<T, f[T \ {pick[T]}]>>]
  BY DEF SetRecursive
<1>. DEFINE E == [SUBSET S -> D]
            n == Cardinality(S)
            Next1(f) == [T \in SUBSET S |-> IF T = {} THEN base ELSE G[<<T, f[T \ {pick[T]}]>>]]
            H == [p \in E \X (1..(n + 1)) |-> Next1(p[1])]
            start == [T \in SUBSET S |-> base]
<1>1. \A T \in SUBSET S : IsFiniteSet(T) /\ Cardinality(T) \in Nat /\ Cardinality(T) <= n /\ n \in Nat
  BY FS_Subset, FS_CardinalityType
<1>2. n \in Nat /\ n + 1 \in Nat
  BY <1>1
<1>3. \A f \in E : Next1(f) \in E
  OBVIOUS
<1>4. start \in E
  OBVIOUS
<1>5. H \in [E \X (1..(n + 1)) -> E] /\ \A f \in E, i \in 1..(n + 1) : H[<<f, i>>] = Next1(f)
  <2>. HIDE DEF E, Next1, n
  <2>. QED  BY <1>3
<1>6. \A f \in E : \A T \in SUBSET S : Next1(f)[T] = IF T = {} THEN base ELSE G[<<T, f[T \ {pick[T]}]>>]
  OBVIOUS
<1>. HIDE DEF E, n, Next1, H, start
<1>7. PICK g \in [0..(n + 1) -> E] : g[0] = start /\ \A i \in 1..(n + 1) : g[i] = H[<<g[i - 1], i>>]
  <2>1. Recursive(E, start, n + 1, H)
    BY RecursionExists
  <2>. QED  BY <1>2, <1>4, <1>5, <2>1 DEF Recursive
<1>8. \A i \in 1..(n + 1) : g[i] = Next1(g[i - 1]) /\ g[i - 1] \in E /\ i - 1 \in 0..n
  <2>. TAKE i \in 1..(n + 1)
  <2>1. i - 1 \in 0..n /\ i - 1 \in 0..(n + 1)
    BY <1>2
  <2>2. g[i - 1] \in E
    BY <1>7, <2>1
  <2>3. g[i] = H[<<g[i - 1], i>>] /\ H[<<g[i - 1], i>>] = Next1(g[i - 1])
    BY <1>5, <1>7, <2>2
  <2>. QED  BY <2>1, <2>2, <2>3
<1>. DEFINE Same(i) == \A T \in SUBSET S : Cardinality(T) <= i => g[i + 1][T] = g[i][T]
            U == {i \in 0..n : Same(i)}
<1>9. Same(0)
  <2>. SUFFICES ASSUME NEW T \in SUBSET S, Cardinality(T) <= 0 PROVE g[1][T] = g[0][T]
    OBVIOUS
  <2>1. Cardinality(T) = 0 /\ IsFiniteSet(T)
    BY <1>1
  <2>2. T = {}
    BY <2>1, FS_EmptySet
  <2>3. g[1] = Next1(g[0]) /\ g[0] \in E
    BY <1>2, <1>8
  <2>. QED  BY <1>6, <1>7, <2>2, <2>3 DEF start
<1>10. ASSUME NEW i \in 1..n, Same(i - 1) PROVE Same(i)
  <2>. SUFFICES ASSUME NEW T \in SUBSET S, Cardinality(T) <= i PROVE g[i + 1][T] = g[i][T]
    OBVIOUS
  <2>1. g[i + 1] = Next1(g[i]) /\ g[i] \in E /\ g[i] = Next1(g[i - 1]) /\ g[i - 1] \in E
    <3>1. i \in 1..(n + 1) /\ i + 1 \in 1..(n + 1) /\ (i + 1) - 1 = i
      BY <1>2
    <3>. QED  BY <1>8, <3>1
  <2>2. CASE T = {}
    BY <1>6, <2>1, <2>2
  <2>3. CASE T # {}
    <3>. DEFINE V == T \ {pick[T]}
    <3>1. V \in SUBSET S /\ Cardinality(V) = Cardinality(T) - 1
      BY <1>1, <2>3, FS_RemoveElement DEF Picks
    <3>2. Cardinality(V) <= i - 1
      BY <1>1, <3>1
    <3>3. g[i][V] = g[i - 1][V]
      <4>1. (i - 1) + 1 = i
        OBVIOUS
      <4>. QED  BY <1>10, <3>1, <3>2, <4>1
    <3>4. Next1(g[i])[T] = G[<<T, g[i][V]>>]
      BY <1>6, <2>1, <2>3
    <3>5. Next1(g[i - 1])[T] = G[<<T, g[i - 1][V]>>]
      BY <1>6, <2>1, <2>3
    <3>. HIDE DEF V
    <3>. QED  BY <2>1, <3>3, <3>4, <3>5
  <2>. QED  BY <2>2, <2>3
<1>11. Same(n)
  <2>1. \A i \in 1..n : i - 1 \in 0..n
    BY <1>2
  <2>2. 0 \in U /\ \A i \in 1..n : i - 1 \in U => i \in U
    <3>. HIDE DEF Same
    <3>. QED  BY <1>2, <1>9, <1>10
  <2>3. Carried(n, U)
    BY Induction
  <2>4. n \in 0..n
    BY <1>2
  <2>. HIDE DEF Same
  <2>. QED  BY <1>2, <2>2, <2>3, <2>4 DEF Carried
<1>12. g[n + 1] = g[n] /\ g[n] \in E
  <2>1. g[n + 1] \in E /\ g[n] \in E
    BY <1>2, <1>7
  <2>. QED  BY <1>1, <1>11, <2>1 DEF E
<1>13. g[n] = Next1(g[n])
  <2>1. g[n + 1] = Next1(g[n])
    <3>1. n + 1 \in 1..(n + 1) /\ (n + 1) - 1 = n
      BY <1>2
    <3>. QED  BY <1>8, <3>1
  <2>. QED  BY <1>12, <2>1
<1>14. \A T \in SUBSET S : g[n][T] = IF T = {} THEN base ELSE G[<<T, g[n][T \ {pick[T]}]>>]
  BY <1>6, <1>12, <1>13
<1>. QED  BY <1>12, <1>14 DEF E

\* Ascending lists a finite set of numbers, each once and smallest first.
Increasing(s) == \A i, j \in DOMAIN s : i < j => s[i] < s[j]

\* The members of a list with one more at its head.
LEMMA ElemsOfCons ==
  ASSUME NEW S, NEW x \in S, NEW s \in Seq(S)
  PROVE  /\ <<x>> \o s \in Seq(S) /\ Elems(<<x>> \o s) = {x} \cup Elems(s) /\ Len(<<x>> \o s) = Len(s) + 1
         /\ (<<x>> \o s)[1] = x /\ \A i \in 1..Len(s) : (<<x>> \o s)[i + 1] = s[i]
         /\ Distinct(s) /\ x \notin Elems(s) => Distinct(<<x>> \o s)
<1>1. <<x>> \in Seq(S) /\ Len(<<x>>) = 1 /\ Elems(<<x>>) = {x} /\ Distinct(<<x>>)
  BY DEF Elems, Distinct
<1>. DEFINE o == <<x>>
<1>2. o \in Seq(S) /\ Len(o) = 1 /\ Elems(o) = {x} /\ Distinct(o) /\ o[1] = x
  BY <1>1
<1>3. Len(s) \in Nat
  OBVIOUS
<1>4. (o \o s)[1] = x /\ \A i \in 1..Len(s) : (o \o s)[i + 1] = s[i]
  <2>1. \A i \in 1..Len(s) : i + 1 \in 1..(Len(s) + 1) /\ i + 1 > 1 /\ (i + 1) - 1 = i
    BY <1>3
  <2>. QED  BY <2>1
<1>. HIDE DEF o
<1>5. /\ o \o s \in Seq(S) /\ Elems(o \o s) = Elems(o) \cup Elems(s) /\ Len(o \o s) = Len(o) + Len(s)
      /\ Distinct(o) /\ Distinct(s) /\ Elems(o) \cap Elems(s) = {} => Distinct(o \o s)
  BY <1>2, ElemsOfConcat
<1>6. /\ o \o s \in Seq(S) /\ Elems(o \o s) = {x} \cup Elems(s) /\ Len(o \o s) = Len(s) + 1
      /\ Distinct(s) /\ x \notin Elems(s) => Distinct(o \o s)
  BY <1>2, <1>3, <1>5
<1>. QED  BY <1>4, <1>6 DEF o

\* A smaller head leaves an increasing list increasing.
LEMMA IncreasingCons ==
  ASSUME NEW s \in Seq(Nat), NEW x \in Nat, Increasing(s), \A y \in Elems(s) : x < y
  PROVE  Increasing(<<x>> \o s)
<1>. DEFINE t == <<x>> \o s
<1>1. Len(t) = Len(s) + 1 /\ t[1] = x /\ (\A i \in 1..Len(s) : t[i + 1] = s[i]) /\ t \in Seq(Nat) /\ Len(s) \in Nat
  BY ElemsOfCons
<1>2. DOMAIN t = 1..(Len(s) + 1) /\ DOMAIN s = 1..Len(s)
  BY <1>1
<1>. HIDE DEF t
<1>3. ASSUME NEW i \in 1..(Len(s) + 1), NEW j \in 1..(Len(s) + 1), i < j PROVE t[i] < t[j]
  <2>1. j - 1 \in 1..Len(s) /\ t[j] = s[j - 1] /\ s[j - 1] \in Elems(s)
    <3>1. j - 1 \in 1..Len(s) /\ (j - 1) + 1 = j
      BY <1>1, <1>3
    <3>. QED  BY <1>1, <1>2, <3>1 DEF Elems
  <2>2. CASE i = 1
    BY <1>1, <2>1, <2>2
  <2>3. CASE i # 1
    <3>1. i - 1 \in 1..Len(s) /\ (i - 1) + 1 = i /\ i - 1 < j - 1
      BY <1>1, <1>3, <2>3
    <3>2. t[i] = s[i - 1]
      BY <1>1, <3>1
    <3>. QED  BY <1>2, <2>1, <3>1, <3>2 DEF Increasing
  <2>. QED  BY <2>2, <2>3
<1>4. Increasing(t)
  BY <1>2, <1>3 DEF Increasing
<1>. QED  BY <1>4 DEF t

\* The members of a set, sorted (sort_unstable): each once, smallest first.
LEMMA AscendingIs ==
  ASSUME NEW S, S \in SUBSET Nat, IsFiniteSet(S)
  PROVE  /\ Ascending(S) \in Seq(S) /\ Elems(Ascending(S)) = S /\ Distinct(Ascending(S))
         /\ Increasing(Ascending(S)) /\ Len(Ascending(S)) = Cardinality(S)
<1>. DEFINE D == Seq(S)
            base == <<>>
            pick == [T \in SUBSET S |-> Least(T)]
            G == [p \in (SUBSET S) \X D |-> <<Least(p[1])>> \o p[2]]
            IsFrom(f) == f = [T \in SUBSET S |-> IF T = {} THEN <<>> ELSE <<Least(T)>> \o f[T \ {Least(T)}]]
            h == CHOOSE f : IsFrom(f)
<1>1. Ascending(S) = h[S]
  BY DEF Ascending
<1>2. \A T \in SUBSET S : T # {} => Least(T) \in T /\ Least(T) \in S /\ (\A y \in T : Least(T) <= y) /\ pick[T] = Least(T)
  BY LeastIs
<1>3. Picks(S, pick)
  <2>. HIDE DEF pick
  <2>. QED  BY <1>2 DEF Picks
<1>4. \A T \in SUBSET S, d \in D : G[<<T, d>>] = <<Least(T)>> \o d
  OBVIOUS
<1>. HIDE DEF G, pick
<1>5. \A T \in SUBSET S, d \in D : T # {} => G[<<T, d>>] \in D
  <2>. TAKE T \in SUBSET S, d \in D
  <2>. HAVE T # {}
  <2>1. <<Least(T)>> \o d \in Seq(S)
    BY <1>2, ElemsOfCons
  <2>. QED  BY <1>4, <2>1
<1>6. PICK g \in [SUBSET S -> D] : g[{}] = base /\ \A T \in SUBSET S : T # {} => g[T] = G[<<T, g[T \ {pick[T]}]>>]
  <2>1. SetRecursive(S, pick, D, base, G)
    BY SetRecursionExists
  <2>2. base \in D
    OBVIOUS
  <2>. HIDE DEF D, base
  <2>. QED  BY <1>3, <1>5, <2>1, <2>2 DEF SetRecursive
<1>7. \A T \in SUBSET S : T # {} => g[T] = <<Least(T)>> \o g[T \ {Least(T)}]
  <2>. TAKE T \in SUBSET S
  <2>. HAVE T # {}
  <2>1. T \ {Least(T)} \in SUBSET S /\ g[T \ {Least(T)}] \in D
    BY <1>6
  <2>2. g[T] = G[<<T, g[T \ {pick[T]}]>>] /\ pick[T] = Least(T)
    BY <1>2, <1>6
  <2>3. G[<<T, g[T \ {Least(T)}]>>] = <<Least(T)>> \o g[T \ {Least(T)}]
    BY <1>4, <2>1
  <2>. QED  BY <2>2, <2>3
<1>8. IsFrom(g)
  <2>. HIDE DEF D
  <2>. QED  BY <1>6, <1>7
<1>9. IsFrom(h)
  <2>. HIDE DEF IsFrom
  <2>. QED  BY <1>8
<1>. HIDE DEF h
<1>10. \A T \in SUBSET S : h[T] = IF T = {} THEN <<>> ELSE <<Least(T)>> \o h[T \ {Least(T)}]
  BY <1>9
<1>. HIDE DEF IsFrom, D
<1>. DEFINE Good(T) == h[T] \in Seq(T) /\ Elems(h[T]) = T /\ Distinct(h[T]) /\ Increasing(h[T])
            U == {T \in SUBSET S : Good(T)}
<1>11. Good({})
  <2>1. h[{}] = <<>>
    BY <1>10
  <2>2. <<>> \in Seq({}) /\ Elems(<<>>) = {} /\ Distinct(<<>>) /\ Increasing(<<>>)
    BY DEF Elems, Distinct, Increasing
  <2>. QED  BY <2>1, <2>2
<1>12. ASSUME NEW T \in SUBSET S, T # {}, Good(T \ {Least(T)}) PROVE Good(T)
  <2>. DEFINE x == Least(T)
              s == h[T \ {x}]
  <2>1. h[T] = <<x>> \o s /\ x \in T /\ x \in Nat
    BY <1>2, <1>10, <1>12
  <2>2. s \in Seq(T) /\ Elems(s) = T \ {x} /\ Distinct(s) /\ Increasing(s) /\ s \in Seq(Nat)
    <3>1. s \in Seq(T \ {x}) /\ Elems(s) = T \ {x} /\ Distinct(s) /\ Increasing(s)
      BY <1>12
    <3>2. T \ {x} \subseteq T /\ T \ {x} \subseteq Nat
      OBVIOUS
    <3>. HIDE DEF s, x
    <3>. QED  BY <3>1, <3>2
  <2>3. \A y \in T \ {x} : x < y
    <3>. TAKE y \in T \ {x}
    <3>1. x <= y /\ x # y /\ x \in Nat /\ y \in Nat
      BY <1>2, <1>12
    <3>. QED  BY <3>1
  <2>. HIDE DEF x, s
  <2>4. <<x>> \o s \in Seq(T) /\ Elems(<<x>> \o s) = {x} \cup Elems(s) /\ Distinct(<<x>> \o s)
    BY <2>1, <2>2, ElemsOfCons
  <2>5. Increasing(<<x>> \o s)
    BY <2>1, <2>2, <2>3, IncreasingCons
  <2>6. {x} \cup (T \ {x}) = T
    BY <2>1
  <2>. QED  BY <2>1, <2>2, <2>4, <2>5, <2>6
<1>13. SUBSET S \subseteq U
  <2>1. Shrinking(S, pick, U)
    BY SetInduction
  <2>2. {} \in U /\ \A T \in SUBSET S : T # {} /\ T \ {pick[T]} \in U => T \in U
    <3>. HIDE DEF Good
    <3>. QED  BY <1>2, <1>11, <1>12
  <2>. HIDE DEF U
  <2>. QED  BY <1>3, <2>1, <2>2 DEF Shrinking
<1>14. Good(S)
  <2>. HIDE DEF Good
  <2>. QED  BY <1>13
<1>15. Cardinality(S) = Len(h[S])
  BY <1>14, DistinctLen
<1>. QED  BY <1>1, <1>14, <1>15

\* Only keeps the members of a set, OrderedUnion adds those of a second list.
LEMMA Prefixes ==
  ASSUME NEW T, NEW s \in Seq(T)
  PROVE  /\ Len(s) \in Nat /\ {s[j] : j \in 1..0} = {} /\ {s[j] : j \in 1..Len(s)} = Elems(s)
         /\ \A i \in 1..Len(s) : s[i] \in T /\ {s[j] : j \in 1..i} = {s[j] : j \in 1..(i - 1)} \cup {s[i]}
                                /\ (Distinct(s) => s[i] \notin {s[j] : j \in 1..(i - 1)})
<1>1. Len(s) \in Nat /\ DOMAIN s = 1..Len(s) /\ \A i \in 1..Len(s) : s[i] \in T
  OBVIOUS
<1>2. {s[j] : j \in 1..0} = {} /\ {s[j] : j \in 1..Len(s)} = Elems(s)
  BY <1>1 DEF Elems
<1>3. ASSUME NEW i \in 1..Len(s)
      PROVE  /\ {s[j] : j \in 1..i} = {s[j] : j \in 1..(i - 1)} \cup {s[i]}
             /\ (Distinct(s) => s[i] \notin {s[j] : j \in 1..(i - 1)})
  <2>1. \A j : j \in 1..i <=> j \in 1..(i - 1) \/ j = i
    BY <1>1
  <2>2. i \in DOMAIN s /\ \A j \in 1..(i - 1) : j \in DOMAIN s /\ j # i
    BY <1>1
  <2>. QED  BY <2>1, <2>2 DEF Distinct
<1>. QED  BY <1>1, <1>2, <1>3

\* Retaining the members in S (IndexSet::retain, intersection) keeps their order.
LEMMA OnlyIs ==
  ASSUME NEW T, NEW s \in Seq(T), NEW S
  PROVE  Only(s, S) \in Seq(T) /\ Elems(Only(s, S)) = Elems(s) \cap S /\ (Distinct(s) => Distinct(Only(s, S)))
<1>. DEFINE n == Len(s)
            Op(kept, x) == IF x \in S THEN Append(kept, x) ELSE kept
            base == <<>>
            D == Seq(T)
            I == [i \in 0..n |-> {r \in D : Elems(r) = {s[j] : j \in 1..i} \cap S /\ (Distinct(s) => Distinct(r))}]
            Step(f, i) == CHOOSE r \in {Op(before, s[i]) : before \in {f[i - 1]}} : TRUE
            IsFold(f) == f = [i \in 0..n |-> IF i = 0 THEN base ELSE Step(f, i)]
            G == [p \in D \X (1..n) |-> Op(p[1], s[p[2]])]
            h == CHOOSE f : IsFold(f)
<1>1. Only(s, S) = h[n]
  BY DEF Only, Fold
<1>2. /\ n \in Nat /\ {s[j] : j \in 1..0} = {} /\ {s[j] : j \in 1..n} = Elems(s)
      /\ \A i \in 1..n : s[i] \in T /\ {s[j] : j \in 1..i} = {s[j] : j \in 1..(i - 1)} \cup {s[i]}
                         /\ (Distinct(s) => s[i] \notin {s[j] : j \in 1..(i - 1)})
  BY Prefixes
<1>3. n \in Nat /\ base \in I[0] /\ \A i \in 0..n : I[i] \subseteq D
  <2>1. base \in D /\ Elems(base) = {} /\ Distinct(base)
    BY DEF Elems, Distinct
  <2>2. I[0] = {r \in D : Elems(r) = {s[j] : j \in 1..0} \cap S /\ (Distinct(s) => Distinct(r))}
    BY <1>2
  <2>. HIDE DEF base
  <2>. QED  BY <1>2, <2>1, <2>2
<1>4. \A i \in 1..n : \A x \in I[i - 1] : Op(x, s[i]) \in I[i]
  <2>. SUFFICES ASSUME NEW i \in 1..n, NEW x \in I[i - 1] PROVE Op(x, s[i]) \in I[i]
    OBVIOUS
  <2>1. i - 1 \in 0..n /\ i \in 0..n
    BY <1>2
  <2>2. x \in Seq(T) /\ Elems(x) = {s[j] : j \in 1..(i - 1)} \cap S /\ (Distinct(s) => Distinct(x))
    BY <2>1
  <2>3. Append(x, s[i]) \in Seq(T) /\ Elems(Append(x, s[i])) = Elems(x) \cup {s[i]}
        /\ (Distinct(x) /\ s[i] \notin Elems(x) => Distinct(Append(x, s[i])))
    BY <1>2, <2>2, ElemsOfAppend
  <2>. DEFINE y == Op(x, s[i])
  <2>4. y \in Seq(T) /\ Elems(y) = {s[j] : j \in 1..i} \cap S /\ (Distinct(s) => Distinct(y))
    <3>1. CASE s[i] \in S
      <4>1. y = Append(x, s[i])
        BY <3>1
      <4>. HIDE DEF y, n
      <4>. QED  BY <1>2, <2>2, <2>3, <3>1, <4>1
    <3>2. CASE s[i] \notin S
      <4>1. y = x
        BY <3>2
      <4>. HIDE DEF y, n
      <4>. QED  BY <1>2, <2>2, <3>2, <4>1
    <3>. QED  BY <3>1, <3>2
  <2>. HIDE DEF y
  <2>5. y \in I[i]
    BY <2>1, <2>4
  <2>. QED  BY <2>5 DEF y
<1>5. h[n] \in I[n]
  <2>. HIDE DEF n, Op, base, D, I
  <2>1. (\A f, i : Step(f, i) = Op(f[i - 1], s[i])) /\ \A x \in D, i \in 1..n : G[<<x, i>>] = Op(x, s[i])
    OBVIOUS
  <2>2. Invariant(D, I, base, n, G)
    <3>1. ASSUME NEW i \in 1..n, NEW x \in I[i - 1] PROVE G[<<x, i>>] \in I[i]
      <4>1. i - 1 \in 0..n
        BY <1>3
      <4>2. x \in D
        BY <1>3, <4>1
      <4>. QED  BY <1>4, <2>1, <4>2
    <3>. QED  BY <1>3, <3>1 DEF Invariant
  <2>. HIDE DEF Step, G
  <2>3. PICK g \in [0..n -> D] : /\ g[0] = base /\ \A i \in 1..n : g[i] = G[<<g[i - 1], i>>]
                                /\ \A i \in 0..n : g[i] \in I[i]
    <3>1. Folding(D, I, base, n, G)
      BY InvariantHolds
    <3>. QED  BY <2>2, <3>1 DEF Folding
  <2>4. \A i \in 1..n : g[i] = Step(g, i)
    <3>. TAKE i \in 1..n
    <3>1. i - 1 \in 0..n
      BY <1>3
    <3>. QED  BY <2>1, <2>3, <3>1
  <2>5. IsFold(g)
    <3>1. \A i \in 0..n : i = 0 \/ i \in 1..n
      BY <1>3
    <3>. QED  BY <2>3, <2>4, <3>1
  <2>6. IsFold(h)
    <3>. HIDE DEF IsFold
    <3>. QED  BY <2>5
  <2>. HIDE DEF h
  <2>7. h[0] = base /\ \A i \in 1..n : h[i] = Op(h[i - 1], s[i])
    <3>1. \A i \in 0..n : h[i] = IF i = 0 THEN base ELSE Step(h, i)
      BY <2>6
    <3>2. 0 \in 0..n /\ \A i \in 1..n : i \in 0..n /\ i # 0
      BY <1>3
    <3>. QED  BY <2>1, <3>1, <3>2
  <2>8. Carried(n, {i \in 0..n : h[i] = g[i]})
    BY Induction
  <2>9. 0..n \subseteq {i \in 0..n : h[i] = g[i]}
    <3>1. ASSUME NEW i \in 1..n, h[i - 1] = g[i - 1] PROVE h[i] = g[i]
      <4>1. h[i] = Op(h[i - 1], s[i]) /\ g[i] = Op(g[i - 1], s[i])
        BY <2>1, <2>4, <2>7
      <4>. QED  BY <3>1, <4>1
    <3>2. 0 \in 0..n /\ \A i \in 1..n : i \in 0..n
      BY <1>3
    <3>. QED  BY <1>3, <2>3, <2>7, <2>8, <3>1, <3>2 DEF Carried
  <2>. QED  BY <1>3, <2>3, <2>9
<1>6. h[n] \in Seq(T) /\ Elems(h[n]) = {s[j] : j \in 1..n} \cap S /\ (Distinct(s) => Distinct(h[n]))
  <2>1. n \in 0..n
    BY <1>2
  <2>. HIDE DEF h, n
  <2>. QED  BY <1>5, <2>1
<1>. HIDE DEF h, n
<1>. QED  BY <1>1, <1>2, <1>6

\* IndexSet::insert adds a member that is not there yet.
LEMMA InsertIs ==
  ASSUME NEW T, NEW s \in Seq(T), NEW x \in T
  PROVE  Insert(s, x) \in Seq(T) /\ Elems(Insert(s, x)) = Elems(s) \cup {x} /\ (Distinct(s) => Distinct(Insert(s, x)))
<1>1. CASE x \in Elems(s)
  BY <1>1 DEF Insert, Has
<1>2. CASE x \notin Elems(s)
  BY <1>2, ElemsOfAppend DEF Insert, Has
<1>. QED  BY <1>1, <1>2

\* IndexSet::union, extend: the members of both, each once.
LEMMA OrderedUnionIs ==
  ASSUME NEW T, NEW t \in Seq(T), NEW s \in Seq(T)
  PROVE  /\ OrderedUnion(t, s) \in Seq(T) /\ Elems(OrderedUnion(t, s)) = Elems(t) \cup Elems(s)
         /\ Distinct(t) => Distinct(OrderedUnion(t, s))
<1>. DEFINE n == Len(s)
            Op(kept, x) == Insert(kept, x)
            base == t
            D == Seq(T)
            I == [i \in 0..n |-> {r \in D : Elems(r) = Elems(t) \cup {s[j] : j \in 1..i} /\ (Distinct(t) => Distinct(r))}]
            Step(f, i) == CHOOSE r \in {Op(before, s[i]) : before \in {f[i - 1]}} : TRUE
            IsFold(f) == f = [i \in 0..n |-> IF i = 0 THEN base ELSE Step(f, i)]
            G == [p \in D \X (1..n) |-> Op(p[1], s[p[2]])]
            h == CHOOSE f : IsFold(f)
<1>1. OrderedUnion(t, s) = h[n]
  BY DEF OrderedUnion, Fold
<1>2. /\ n \in Nat /\ {s[j] : j \in 1..0} = {} /\ {s[j] : j \in 1..n} = Elems(s)
      /\ \A i \in 1..n : s[i] \in T /\ {s[j] : j \in 1..i} = {s[j] : j \in 1..(i - 1)} \cup {s[i]}
  BY Prefixes
<1>3. n \in Nat /\ base \in I[0] /\ \A i \in 0..n : I[i] \subseteq D
  <2>1. I[0] = {r \in D : Elems(r) = Elems(t) \cup {s[j] : j \in 1..0} /\ (Distinct(t) => Distinct(r))}
    BY <1>2
  <2>. QED  BY <1>2, <2>1
<1>4. \A i \in 1..n : \A x \in I[i - 1] : Op(x, s[i]) \in I[i]
  <2>. SUFFICES ASSUME NEW i \in 1..n, NEW x \in I[i - 1] PROVE Op(x, s[i]) \in I[i]
    OBVIOUS
  <2>1. i - 1 \in 0..n /\ i \in 0..n
    BY <1>2
  <2>2. x \in Seq(T) /\ Elems(x) = Elems(t) \cup {s[j] : j \in 1..(i - 1)} /\ (Distinct(t) => Distinct(x))
    BY <2>1
  <2>. DEFINE y == Op(x, s[i])
  <2>3. y \in Seq(T) /\ Elems(y) = Elems(x) \cup {s[i]} /\ (Distinct(x) => Distinct(y))
    BY <1>2, <2>2, InsertIs
  <2>. HIDE DEF y
  <2>4. y \in Seq(T) /\ Elems(y) = Elems(t) \cup {s[j] : j \in 1..i} /\ (Distinct(t) => Distinct(y))
    <3>. HIDE DEF n
    <3>. QED  BY <1>2, <2>2, <2>3
  <2>5. y \in I[i]
    BY <2>1, <2>4
  <2>. QED  BY <2>5 DEF y
<1>5. h[n] \in I[n]
  <2>. HIDE DEF n, Op, base, D, I
  <2>1. (\A f, i : Step(f, i) = Op(f[i - 1], s[i])) /\ \A x \in D, i \in 1..n : G[<<x, i>>] = Op(x, s[i])
    OBVIOUS
  <2>2. Invariant(D, I, base, n, G)
    <3>1. ASSUME NEW i \in 1..n, NEW x \in I[i - 1] PROVE G[<<x, i>>] \in I[i]
      <4>1. i - 1 \in 0..n
        BY <1>3
      <4>2. x \in D
        BY <1>3, <4>1
      <4>. QED  BY <1>4, <2>1, <4>2
    <3>. QED  BY <1>3, <3>1 DEF Invariant
  <2>. HIDE DEF Step, G
  <2>3. PICK g \in [0..n -> D] : /\ g[0] = base /\ \A i \in 1..n : g[i] = G[<<g[i - 1], i>>]
                                /\ \A i \in 0..n : g[i] \in I[i]
    <3>1. Folding(D, I, base, n, G)
      BY InvariantHolds
    <3>. QED  BY <2>2, <3>1 DEF Folding
  <2>4. \A i \in 1..n : g[i] = Step(g, i)
    <3>. TAKE i \in 1..n
    <3>1. i - 1 \in 0..n
      BY <1>3
    <3>. QED  BY <2>1, <2>3, <3>1
  <2>5. IsFold(g)
    <3>1. \A i \in 0..n : i = 0 \/ i \in 1..n
      BY <1>3
    <3>. QED  BY <2>3, <2>4, <3>1
  <2>6. IsFold(h)
    <3>. HIDE DEF IsFold
    <3>. QED  BY <2>5
  <2>. HIDE DEF h
  <2>7. h[0] = base /\ \A i \in 1..n : h[i] = Op(h[i - 1], s[i])
    <3>1. \A i \in 0..n : h[i] = IF i = 0 THEN base ELSE Step(h, i)
      BY <2>6
    <3>2. 0 \in 0..n /\ \A i \in 1..n : i \in 0..n /\ i # 0
      BY <1>3
    <3>. QED  BY <2>1, <3>1, <3>2
  <2>8. Carried(n, {i \in 0..n : h[i] = g[i]})
    BY Induction
  <2>9. 0..n \subseteq {i \in 0..n : h[i] = g[i]}
    <3>1. ASSUME NEW i \in 1..n, h[i - 1] = g[i - 1] PROVE h[i] = g[i]
      <4>1. h[i] = Op(h[i - 1], s[i]) /\ g[i] = Op(g[i - 1], s[i])
        BY <2>1, <2>4, <2>7
      <4>. QED  BY <3>1, <4>1
    <3>2. 0 \in 0..n /\ \A i \in 1..n : i \in 0..n
      BY <1>3
    <3>. QED  BY <1>3, <2>3, <2>7, <2>8, <3>1, <3>2 DEF Carried
  <2>. QED  BY <1>3, <2>3, <2>9
<1>6. h[n] \in Seq(T) /\ Elems(h[n]) = Elems(t) \cup {s[j] : j \in 1..n} /\ (Distinct(t) => Distinct(h[n]))
  <2>1. n \in 0..n
    BY <1>2
  <2>. HIDE DEF h, n
  <2>. QED  BY <1>5, <2>1
<1>. HIDE DEF h, n
<1>. QED  BY <1>1, <1>2, <1>6

-----------------------------------------------------------------------------
(* Sums                                                                     *)

\* SumOver adds the values at the members of a set, in any order.
Summing(f, S) == S \in SUBSET Nat /\ IsFiniteSet(S) /\ \A x \in S : f[x] \in Int
Unfolded(f, S, h) ==
  /\ h \in [SUBSET S -> Int] /\ h[{}] = 0
  /\ \A T \in SUBSET S : T # {} => h[T] = f[Least(T)] + h[T \ {Least(T)}]

\* Least picks a member of every nonempty set of numbers.
LEMMA LeastPicks ==
  ASSUME NEW S, S \in SUBSET Nat
  PROVE  Picks(S, [T \in SUBSET S |-> Least(T)])
<1>1. \A T \in SUBSET S : T # {} => Least(T) \in T
  BY LeastIs
<1>. QED  BY <1>1 DEF Picks

\* SumOver unfolds to a function on the subsets of its indices.
LEMMA SumUnfolds ==
  ASSUME NEW f, NEW S, Summing(f, S)
  PROVE  \E h : Unfolded(f, S, h) /\ SumOver(f, S) = h[S]
<1>. DEFINE pick == [T \in SUBSET S |-> Least(T)]
            G == [p \in (SUBSET S) \X Int |-> f[Least(p[1])] + p[2]]
            IsOf(g) == g = [T \in SUBSET S |-> IF T = {} THEN 0 ELSE f[Least(T)] + g[T \ {Least(T)}]]
            h == CHOOSE g : IsOf(g)
<1>1. SumOver(f, S) = h[S]
  BY DEF SumOver
<1>2. \A T \in SUBSET S : T # {} => Least(T) \in T /\ Least(T) \in S /\ f[Least(T)] \in Int /\ pick[T] = Least(T)
  BY LeastIs DEF Summing
<1>3. Picks(S, pick)
  BY LeastPicks DEF Summing
<1>4. \A T \in SUBSET S, d \in Int : G[<<T, d>>] = f[Least(T)] + d
  OBVIOUS
<1>. HIDE DEF G, pick
<1>5. \A T \in SUBSET S, d \in Int : T # {} => G[<<T, d>>] \in Int
  BY <1>2, <1>4
<1>6. PICK g \in [SUBSET S -> Int] : g[{}] = 0 /\ \A T \in SUBSET S : T # {} => g[T] = G[<<T, g[T \ {pick[T]}]>>]
  <2>1. SetRecursive(S, pick, Int, 0, G)
    BY SetRecursionExists
  <2>2. IsFiniteSet(S) /\ 0 \in Int
    BY DEF Summing
  <2>. QED  BY <1>3, <1>5, <2>1, <2>2 DEF SetRecursive
<1>7. \A T \in SUBSET S : T # {} => g[T] = f[Least(T)] + g[T \ {Least(T)}]
  <2>. TAKE T \in SUBSET S
  <2>. HAVE T # {}
  <2>1. T \ {Least(T)} \in SUBSET S /\ g[T \ {Least(T)}] \in Int
    BY <1>6
  <2>2. g[T] = G[<<T, g[T \ {pick[T]}]>>] /\ pick[T] = Least(T)
    BY <1>2, <1>6
  <2>3. G[<<T, g[T \ {Least(T)}]>>] = f[Least(T)] + g[T \ {Least(T)}]
    BY <1>4, <2>1
  <2>. QED  BY <2>2, <2>3
<1>8. IsOf(g)
  BY <1>6, <1>7
<1>9. IsOf(h)
  <2>. HIDE DEF IsOf
  <2>. QED  BY <1>8
<1>. HIDE DEF h
<1>10. \A T \in SUBSET S : h[T] = IF T = {} THEN 0 ELSE f[Least(T)] + h[T \ {Least(T)}]
  BY <1>9
<1>11. h = [T \in SUBSET S |-> h[T]]
  BY <1>9
<1>12. \A T \in SUBSET S : h[T] \in Int
  <2>. DEFINE U == {T \in SUBSET S : h[T] \in Int}
  <2>1. Shrinking(S, pick, U)
    BY SetInduction
  <2>2. {} \in U /\ \A T \in SUBSET S : T # {} /\ T \ {pick[T]} \in U => T \in U
    <3>1. {} \in U
      <4>1. {} \in SUBSET S
        OBVIOUS
      <4>2. h[{}] = 0
        BY <1>10, <4>1
      <4>. QED  BY <4>1, <4>2
    <3>2. ASSUME NEW T \in SUBSET S, T # {}, T \ {pick[T]} \in U PROVE T \in U
      <4>1. h[T] = f[Least(T)] + h[T \ {Least(T)}] /\ pick[T] = Least(T) /\ f[Least(T)] \in Int
        BY <1>2, <1>10, <3>2
      <4>2. h[T \ {Least(T)}] \in Int
        BY <3>2, <4>1
      <4>3. h[T] \in Int
        BY <4>1, <4>2
      <4>. QED  BY <4>3
    <3>. QED  BY <3>1, <3>2
  <2>3. SUBSET S \subseteq U
    <3>. HIDE DEF U
    <3>. QED  BY <1>3, <2>1, <2>2 DEF Shrinking, Summing
  <2>. QED  BY <2>3
<1>13. h \in [SUBSET S -> Int]
  BY <1>11, <1>12
<1>14. Unfolded(f, S, h)
  BY <1>10, <1>13 DEF Unfolded
<1>. QED  BY <1>1, <1>14

\* Sums over a part of the indices do not depend on the whole.
LEMMA UnfoldedAgree ==
  ASSUME NEW f, NEW S, Summing(f, S), NEW T \in SUBSET S, NEW g, NEW h, Unfolded(f, S, g), Unfolded(f, T, h)
  PROVE  h[T] = g[T]
<1>. DEFINE pick == [X \in SUBSET T |-> Least(X)]
            U == {X \in SUBSET T : h[X] = g[X]}
<1>1. T \in SUBSET Nat /\ IsFiniteSet(T)
  BY FS_Subset DEF Summing
<1>2. Picks(T, pick)
  BY <1>1, LeastPicks
<1>3. {} \in U
  BY DEF Unfolded
<1>4. ASSUME NEW X \in SUBSET T, X # {}, X \ {pick[X]} \in U PROVE X \in U
  <2>1. pick[X] = Least(X) /\ X \in SUBSET S
    OBVIOUS
  <2>2. h[X] = f[Least(X)] + h[X \ {Least(X)}] /\ g[X] = f[Least(X)] + g[X \ {Least(X)}]
    BY <1>4, <2>1 DEF Unfolded
  <2>. QED  BY <1>4, <2>1, <2>2
<1>5. SUBSET T \subseteq U
  <2>1. Shrinking(T, pick, U)
    BY SetInduction
  <2>. HIDE DEF U, pick
  <2>. QED  BY <1>1, <1>2, <1>3, <1>4, <2>1 DEF Shrinking
<1>. QED  BY <1>5

\* One function gives the sums over all subsets of the indices.
LEMMA SumOfPart ==
  ASSUME NEW f, NEW S, Summing(f, S)
  PROVE  \E h : Unfolded(f, S, h) /\ \A T \in SUBSET S : SumOver(f, T) = h[T]
<1>1. PICK h : Unfolded(f, S, h) /\ SumOver(f, S) = h[S]
  BY SumUnfolds
<1>2. ASSUME NEW T \in SUBSET S PROVE SumOver(f, T) = h[T]
  <2>1. Summing(f, T)
    BY FS_Subset DEF Summing
  <2>2. PICK g : Unfolded(f, T, g) /\ SumOver(f, T) = g[T]
    BY <2>1, SumUnfolds
  <2>3. g[T] = h[T]
    BY <1>1, <2>2, UnfoldedAgree
  <2>. QED  BY <2>2, <2>3
<1>. QED  BY <1>1, <1>2

\* A sum is an integer, that of no index is 0, any index can be taken out of it,
\* and a sum of naturals is one.
LEMMA SumIs ==
  ASSUME NEW f, NEW S, Summing(f, S)
  PROVE  /\ SumOver(f, S) \in Int /\ SumOver(f, {}) = 0
         /\ \A x \in S : SumOver(f, S) = f[x] + SumOver(f, S \ {x})
         /\ (\A x \in S : f[x] >= 0) => SumOver(f, S) >= 0
<1>1. PICK h : Unfolded(f, S, h) /\ \A T \in SUBSET S : SumOver(f, T) = h[T]
  BY SumOfPart
<1>. DEFINE pick == [T \in SUBSET S |-> Least(T)]
            U == {T \in SUBSET S : /\ \A x \in T : h[T] = f[x] + h[T \ {x}]
                                   /\ (\A x \in S : f[x] >= 0) => h[T] >= 0}
<1>2. \A T \in SUBSET S : h[T] \in Int
  BY <1>1 DEF Unfolded
<1>3. {} \in U
  BY <1>1 DEF Unfolded
<1>4. ASSUME NEW T \in SUBSET S, T # {}, T \ {pick[T]} \in U PROVE T \in U
  <2>. DEFINE y == Least(T)
  <2>1. pick[T] = y /\ y \in T /\ y \in S
    BY <1>4, LeastIs DEF Summing
  <2>2. h[T] = f[y] + h[T \ {y}]
    BY <1>1, <1>4 DEF Unfolded
  <2>. HIDE DEF y
  <2>3. (\A x \in S : f[x] >= 0) => h[T] >= 0
    BY <1>2, <1>4, <2>1, <2>2 DEF Summing
  <2>4. ASSUME NEW x \in T, x # y PROVE h[T] = f[x] + h[T \ {x}]
    <3>1. h[T \ {y}] = f[x] + h[(T \ {y}) \ {x}]
      BY <1>4, <2>1, <2>4
    <3>2. h[T \ {x}] = f[y] + h[(T \ {x}) \ {y}]
      <4>1. Least(T \ {x}) = y
        <5>1. y \in T \ {x} /\ \A z \in T \ {x} : y <= z
          BY <2>1, <2>4, LeastIs DEF y, Summing
        <5>2. Least(T \ {x}) \in T \ {x} /\ \A z \in T \ {x} : Least(T \ {x}) <= z
          BY <5>1, LeastIs DEF Summing
        <5>3. y \in Nat /\ Least(T \ {x}) \in Nat /\ y <= Least(T \ {x}) /\ Least(T \ {x}) <= y
          BY <5>1, <5>2 DEF Summing
        <5>. QED  BY <5>3
      <4>2. T \ {x} # {} /\ T \ {x} \in SUBSET S
        BY <2>1, <2>4
      <4>. QED  BY <1>1, <4>1, <4>2 DEF Unfolded
    <3>3. (T \ {y}) \ {x} = (T \ {x}) \ {y} /\ (T \ {y}) \ {x} \in SUBSET S
      OBVIOUS
    <3>4. f[x] \in Int /\ f[y] \in Int /\ h[(T \ {y}) \ {x}] \in Int
      BY <1>2, <2>1, <3>3 DEF Summing
    <3>5. \A a, b, c \in Int : a + (b + c) = b + (a + c)
      OBVIOUS
    <3>6. h[T] = f[y] + (f[x] + h[(T \ {y}) \ {x}])
      BY <2>2, <3>1
    <3>7. f[x] + h[T \ {x}] = f[x] + (f[y] + h[(T \ {y}) \ {x}])
      BY <3>2, <3>3
    <3>. QED  BY <3>4, <3>5, <3>6, <3>7
  <2>. QED  BY <2>2, <2>3, <2>4
<1>5. SUBSET S \subseteq U
  <2>1. Shrinking(S, pick, U)
    BY SetInduction
  <2>2. Picks(S, pick)
    BY LeastPicks DEF Summing
  <2>. HIDE DEF U, pick
  <2>. QED  BY <1>3, <1>4, <2>1, <2>2 DEF Shrinking, Summing
<1>6. S \in U
  <2>. HIDE DEF U
  <2>. QED  BY <1>5
<1>7. \A x \in S : S \ {x} \in SUBSET S
  OBVIOUS
<1>. QED  BY <1>1, <1>2, <1>6, <1>7 DEF Unfolded

-----------------------------------------------------------------------------
(* Packed upper triangles                                                   *)

\* Packed upper triangles: the place of an entry tells its coordinates.
LEMMA SquaresGrow ==
  ASSUME NEW a \in Nat, NEW b \in Nat, a * a < b * b
  PROVE  a < b
<1>. SUFFICES ASSUME b <= a PROVE FALSE
  OBVIOUS
<1>1. b * b <= a * b /\ a * b <= a * a
  <2>1. \A x, y, z \in Nat : x <= y => x * z <= y * z
    OBVIOUS
  <2>2. a * b = b * a
    OBVIOUS
  <2>. QED  BY <2>1, <2>2
<1>2. a * a \in Nat /\ b * b \in Nat /\ a * b \in Nat
  OBVIOUS
<1>. QED  BY <1>1, <1>2

\* isqrt is the integer square root.
LEMMA IsqrtIs ==
  ASSUME NEW v \in Nat
  PROVE  Isqrt(v) \in Nat /\ Isqrt(v) * Isqrt(v) <= v /\ v < (Isqrt(v) + 1) * (Isqrt(v) + 1)
<1>. DEFINE T == {r \in Nat : v < (r + 1) * (r + 1)}
<1>1. v \in T
  <2>1. (v + 1) * (v + 1) = v * v + 2 * v + 1
    OBVIOUS
  <2>2. v * v >= 0 /\ v * v \in Nat
    OBVIOUS
  <2>. QED  BY <2>1, <2>2
<1>2. PICK r \in T : \A k \in Nat : k < r => k \notin T
  <2>1. T \in SUBSET Nat /\ T # {}
    BY <1>1
  <2>. HIDE DEF T
  <2>. QED  BY <2>1, LeastMember
<1>3. r * r <= v
  <2>1. CASE r = 0
    BY <2>1
  <2>2. CASE r # 0
    <3>1. r - 1 \in Nat /\ r - 1 < r /\ (r - 1) + 1 = r
      BY <2>2
    <3>2. ~ (v < r * r)
      BY <1>2, <3>1
    <3>3. r * r \in Nat
      OBVIOUS
    <3>. QED  BY <3>2, <3>3
  <2>. QED  BY <2>1, <2>2
<1>4. r <= v
  <2>. SUFFICES ASSUME v < r PROVE FALSE
    OBVIOUS
  <2>1. \A x, y, z \in Nat : x <= y => x * z <= y * z
    OBVIOUS
  <2>2. 1 * r <= r * r
    <3>1. 1 <= r /\ r \in Nat /\ 1 \in Nat
      OBVIOUS
    <3>. QED  BY <2>1, <3>1
  <2>3. r * r \in Nat /\ 1 * r = r
    OBVIOUS
  <2>. QED  BY <1>3, <2>2, <2>3
<1>5. r \in 0..v /\ r * r <= v /\ v < (r + 1) * (r + 1)
  BY <1>2, <1>3, <1>4
<1>6. Isqrt(v) \in 0..v /\ Isqrt(v) * Isqrt(v) <= v /\ v < (Isqrt(v) + 1) * (Isqrt(v) + 1)
  BY <1>5 DEF Isqrt
<1>. QED  BY <1>6

\* A product of neighbours is even: triangular_number divides without remainder.
LEMMA Halves ==
  ASSUME NEW j \in Nat
  PROVE  \E q \in Nat : j * (j + 1) = 2 * q
<1>1. PICK a \in Nat : j = 2 * a \/ j = 2 * a + 1
  <2>1. j \div 2 \in Nat /\ (j = 2 * (j \div 2) \/ j = 2 * (j \div 2) + 1)
    OBVIOUS
  <2>. QED  BY <2>1
<1>2. CASE j = 2 * a
  <2>1. j * (j + 1) = 2 * (a * (j + 1)) /\ a * (j + 1) \in Nat
    BY <1>2
  <2>. QED  BY <2>1
<1>3. CASE j = 2 * a + 1
  <2>1. j + 1 = 2 * (a + 1)
    BY <1>3
  <2>2. j * (j + 1) = 2 * (j * (a + 1)) /\ j * (a + 1) \in Nat
    BY <2>1
  <2>. QED  BY <2>2
<1>. QED  BY <1>1, <1>2, <1>3

\* triangular_index is the triangular number less one.
LEMMA Triangles ==
  ASSUME NEW j \in Nat \ {0}, NEW q \in Nat, j * (j + 1) = 2 * q
  PROVE  TriangularIndex(j - 1) = q - 1 /\ q >= 1 /\ TriangularNumber(j) = q
<1>1. (j - 1) * ((j - 1) + 3) = j * (j + 1) - 2
  <2>1. (j - 1) + 3 = j + 2
    OBVIOUS
  <2>2. (j - 1) * (j + 2) = j * (j + 2) - (j + 2)
    OBVIOUS
  <2>3. j * (j + 2) = j * j + 2 * j /\ j * (j + 1) = j * j + j
    OBVIOUS
  <2>4. j * j \in Nat
    OBVIOUS
  <2>. QED  BY <2>1, <2>2, <2>3, <2>4
<1>2. (2 * q - 2) \div 2 = q - 1 /\ (2 * q) \div 2 = q
  OBVIOUS
<1>3. q >= 1
  <2>1. \A x, y, z \in Nat : x <= y => x * z <= y * z
    OBVIOUS
  <2>2. 1 * (j + 1) <= j * (j + 1)
    <3>1. 1 \in Nat /\ j \in Nat /\ j + 1 \in Nat /\ 1 <= j
      OBVIOUS
    <3>. QED  BY <2>1, <3>1
  <2>3. 1 * (j + 1) = j + 1
    OBVIOUS
  <2>. QED  BY <2>2, <2>3
<1>. QED  BY <1>1, <1>2, <1>3 DEF TriangularIndex, TriangularNumber

\* upper_triangular_index_to_coord undoes coord_to_upper_triangular_index.
LEMMA CoordRoundTrip ==
  ASSUME NEW i \in Nat, NEW j \in Nat, i <= j
  PROVE  IndexToCoord(CoordToIndex(i, j)) = <<i, j>> /\ CoordToIndex(i, j) \in Nat
<1>1. CASE j = 0
  <2>1. i = 0
    BY <1>1
  <2>2. CoordToIndex(0, 0) = 0 /\ IndexToCoord(0) = <<0, 0>>
    BY DEF CoordToIndex, IndexToCoord
  <2>. QED  BY <1>1, <2>1, <2>2
<1>2. CASE j # 0
  <2>1. PICK q \in Nat : j * (j + 1) = 2 * q
    BY Halves
  <2>2. TriangularIndex(j - 1) = q - 1 /\ q >= 1
    BY <1>2, <2>1, Triangles
  <2>. DEFINE k == q + i
              r == Isqrt(8 * k + 1)
  <2>3. CoordToIndex(i, j) = k
    BY <1>2, <2>2 DEF CoordToIndex
  <2>4. k \in Nat /\ k # 0 /\ 8 * k + 1 \in Nat
    BY <2>2
  <2>5. r \in Nat /\ r * r <= 8 * k + 1 /\ 8 * k + 1 < (r + 1) * (r + 1)
    BY <2>4, IsqrtIs
  <2>6. 8 * k + 1 = 4 * (j * (j + 1)) + 8 * i + 1
    BY <2>1
  <2>7. (2 * j + 1) * (2 * j + 1) = 4 * (j * (j + 1)) + 1
    <3>1. (2 * j + 1) * (2 * j + 1) = 4 * (j * j) + 4 * j + 1 /\ j * (j + 1) = j * j + j
      OBVIOUS
    <3>. QED  BY <3>1
  <2>8. (2 * j + 3) * (2 * j + 3) = 4 * (j * (j + 1)) + 8 * j + 9
    <3>1. (2 * j + 3) * (2 * j + 3) = 4 * (j * j) + 12 * j + 9 /\ j * (j + 1) = j * j + j
      OBVIOUS
    <3>. QED  BY <3>1
  <2>. HIDE DEF k, r
  <2>9. 2 * j + 1 < r + 1
    <3>1. (2 * j + 1) * (2 * j + 1) < (r + 1) * (r + 1)
      <4>1. (2 * j + 1) * (2 * j + 1) <= 8 * k + 1
        <5>1. j * (j + 1) \in Nat
          OBVIOUS
        <5>. QED  BY <2>6, <2>7, <5>1
      <4>2. (2 * j + 1) * (2 * j + 1) \in Nat /\ (r + 1) * (r + 1) \in Nat
        BY <2>5
      <4>. QED  BY <2>4, <2>5, <4>1, <4>2
    <3>2. 2 * j + 1 \in Nat /\ r + 1 \in Nat
      BY <2>5
    <3>. QED  BY <3>1, <3>2, SquaresGrow
  <2>10. r < 2 * j + 3
    <3>1. r * r < (2 * j + 3) * (2 * j + 3)
      <4>1. 8 * k + 1 < (2 * j + 3) * (2 * j + 3)
        <5>1. j * (j + 1) \in Nat
          OBVIOUS
        <5>. QED  BY <2>6, <2>8, <5>1
      <4>2. (2 * j + 3) * (2 * j + 3) \in Nat /\ r * r \in Nat
        BY <2>5
      <4>. QED  BY <2>4, <2>5, <4>1, <4>2
    <3>2. 2 * j + 3 \in Nat
      OBVIOUS
    <3>. QED  BY <2>5, <3>1, <3>2, SquaresGrow
  <2>11. (r + 1) \div 2 - 1 = j
    <3>1. r = 2 * j + 1 \/ r = 2 * j + 2
      BY <2>5, <2>9, <2>10
    <3>. QED  BY <3>1
  <2>12. IndexToCoord(k) = <<k - TriangularIndex(j - 1) - 1, j>>
    BY <2>4, <2>11 DEF IndexToCoord, r
  <2>13. k - TriangularIndex(j - 1) - 1 = i
    BY <2>2 DEF k
  <2>. QED  BY <2>3, <2>4, <2>12, <2>13
<1>. QED  BY <1>1, <1>2

\* The mask holds the diagonal and some entries above it.
Coordinates(m) ==
  \A k \in m : \E i, j \in Vertices : i <= j /\ IndexToCoord(k) = <<i, j>> /\ CoordToIndex(i, j) = k

\* The mask of a cone consists of entries of its upper triangle.
LEMMA MaskCoordinates ==
  ASSUME OrderAssumption, NEW g \in Graphs
  PROVE  Coordinates(Diagonal \cup {CoordToIndex(e[1], e[2]) : e \in g})
<1>1. Order \in Nat \ {0} /\ \A v \in Vertices : v \in Nat
  BY DEF OrderAssumption, Vertices
<1>2. ASSUME NEW i \in Vertices PROVE IndexToCoord(TriangularIndex(i)) = <<i, i>> /\ CoordToIndex(i, i) = TriangularIndex(i)
  <2>1. CASE i = 0
    <3>1. TriangularIndex(0) = 0
      BY DEF TriangularIndex
    <3>. QED  BY <2>1, <3>1 DEF IndexToCoord, CoordToIndex
  <2>2. CASE i # 0
    <3>1. PICK q \in Nat : i * (i + 1) = 2 * q
      BY <1>1, Halves
    <3>2. TriangularIndex(i - 1) = q - 1 /\ q >= 1
      BY <1>1, <2>2, <3>1, Triangles
    <3>3. TriangularIndex(i) = q + i
      <4>1. i * (i + 3) = 2 * (q + i)
        <5>1. i * (i + 3) = i * i + 3 * i /\ i * (i + 1) = i * i + i
          BY <1>1
        <5>2. i * i \in Nat /\ i \in Nat
          BY <1>1
        <5>. QED  BY <3>1, <5>1, <5>2
      <4>2. (2 * (q + i)) \div 2 = q + i
        BY <1>1
      <4>. QED  BY <4>1, <4>2 DEF TriangularIndex
    <3>4. CoordToIndex(i, i) = q + i
      BY <1>1, <2>2, <3>2 DEF CoordToIndex
    <3>. QED  BY <1>1, <3>3, <3>4, CoordRoundTrip
  <2>. QED  BY <2>1, <2>2
<1>3. ASSUME NEW e \in g
      PROVE  e[1] \in Vertices /\ e[2] \in Vertices /\ e[1] <= e[2] /\ IndexToCoord(CoordToIndex(e[1], e[2])) = <<e[1], e[2]>>
  <2>1. e \in Pairs
    BY <1>3 DEF OrderAssumption
  <2>2. e[1] \in Vertices /\ e[2] \in Vertices /\ e[1] < e[2]
    BY <2>1 DEF Pairs
  <2>3. e[1] \in Nat /\ e[2] \in Nat /\ e[1] <= e[2]
    BY <1>1, <2>2
  <2>. QED  BY <2>2, <2>3, CoordRoundTrip
<1>. SUFFICES ASSUME NEW k \in Diagonal \cup {CoordToIndex(e[1], e[2]) : e \in g}
              PROVE  \E i, j \in Vertices : i <= j /\ IndexToCoord(k) = <<i, j>> /\ CoordToIndex(i, j) = k
  BY DEF Coordinates
<1>4. CASE k \in Diagonal
  <2>1. PICK i \in Vertices : k = TriangularIndex(i)
    BY <1>4 DEF Diagonal
  <2>. QED  BY <1>1, <1>2, <2>1
<1>5. CASE k \in {CoordToIndex(e[1], e[2]) : e \in g}
  <2>1. PICK e \in g : k = CoordToIndex(e[1], e[2])
    BY <1>5
  <2>2. e[1] \in Vertices /\ e[2] \in Vertices /\ e[1] <= e[2] /\ IndexToCoord(k) = <<e[1], e[2]>>
    BY <1>3, <2>1
  <2>. QED  BY <2>1, <2>2
<1>. QED  BY <1>4, <1>5

-----------------------------------------------------------------------------
(* The symbolic factor                                                      *)

\* The factor of the graph of the mask.
PointsUp(L) ==
  /\ L \in [Vertices -> SUBSET Vertices]
  /\ \A v \in Vertices : \A w \in L[v] : v < w
Inherits(L, v) == \A w \in L[v] : w # Least(L[v]) => w \in L[Least(L[v])]
Factor(L) ==
  /\ PointsUp(L)
  /\ \A v \in Vertices : Inherits(L, v)
  /\ \A v \in Vertices : v # Order - 1 => L[v] # {}
Eliminated(L, v) == IF L[v] = {} THEN L ELSE [L EXCEPT ![Least(L[v])] = @ \cup (L[v] \ {Least(L[v])})]

\* Eliminating v in the order of the vertices: its higher neighbours but the
\* lowest become neighbours of the lowest.
LEMMA Eliminating ==
  ASSUME Vertices \in SUBSET Nat, NEW L, PointsUp(L), NEW v \in Vertices,
         \A u \in Vertices : u < v => Inherits(L, u)
  PROVE  /\ PointsUp(Eliminated(L, v))
         /\ \A u \in Vertices : L[u] \subseteq Eliminated(L, v)[u] /\ (u <= v => Inherits(Eliminated(L, v), u))
<1>. DEFINE p == Least(L[v])
            M == Eliminated(L, v)
<1>1. CASE L[v] = {}
  <2>1. M = L
    BY <1>1 DEF Eliminated
  <2>2. Inherits(L, v)
    BY <1>1 DEF Inherits
  <2>3. \A u \in Vertices : u <= v => u < v \/ u = v
    OBVIOUS
  <2>. HIDE DEF M
  <2>4. PointsUp(M) /\ \A u \in Vertices : L[u] \subseteq M[u] /\ (u <= v => Inherits(M, u))
    BY <2>1, <2>2, <2>3
  <2>. QED  BY <2>4 DEF M
<1>2. CASE L[v] # {}
  <2>1. L[v] \in SUBSET Vertices /\ L[v] \in SUBSET Nat
    BY DEF PointsUp
  <2>2. p \in L[v] /\ p \in Vertices /\ v < p /\ \A w \in L[v] : p <= w
    BY <1>2, <2>1, LeastIs DEF PointsUp
  <2>3. M = [L EXCEPT ![p] = @ \cup (L[v] \ {p})]
    BY <1>2 DEF Eliminated
  <2>. HIDE DEF p
  <2>4. M \in [Vertices -> SUBSET Vertices] /\ M[p] = L[p] \cup (L[v] \ {p}) /\ \A u \in Vertices : u # p => M[u] = L[u]
    BY <2>1, <2>2, <2>3 DEF PointsUp
  <2>. HIDE DEF M
  <2>5. \A w \in L[v] \ {p} : p < w
    BY <2>1, <2>2
  <2>6. PointsUp(M)
    <3>1. ASSUME NEW u \in Vertices, NEW w \in M[u] PROVE u < w
      <4>1. CASE u # p
        BY <2>4, <3>1, <4>1 DEF PointsUp
      <4>2. CASE u = p
        BY <2>2, <2>4, <2>5, <3>1, <4>2 DEF PointsUp
      <4>. QED  BY <4>1, <4>2
    <3>. QED  BY <2>4, <3>1 DEF PointsUp
  <2>7. \A u \in Vertices : L[u] \subseteq M[u]
    BY <2>4
  <2>8. ASSUME NEW u \in Vertices, u <= v PROVE Inherits(M, u)
    <3>1. u # p /\ M[u] = L[u]
      BY <2>2, <2>4, <2>8
    <3>2. CASE u = v
      <4>1. Least(M[u]) = p /\ L[v] \ {p} \subseteq M[p]
        BY <2>4, <3>1, <3>2 DEF p
      <4>. QED  BY <3>1, <3>2, <4>1 DEF Inherits
    <3>3. CASE u # v
      <4>1. u < v /\ Inherits(L, u)
        BY <2>8, <3>3
      <4>2. SUFFICES ASSUME NEW w \in M[u], w # Least(M[u]) PROVE w \in M[Least(M[u])]
        BY DEF Inherits
      <4>3. w \in L[Least(L[u])] /\ L[u] # {}
        BY <3>1, <4>1, <4>2 DEF Inherits
      <4>4. Least(L[u]) \in Vertices
        <5>1. L[u] \in SUBSET Nat /\ L[u] \in SUBSET Vertices
          BY DEF PointsUp
        <5>. QED  BY <4>3, <5>1, LeastIs
      <4>. QED  BY <2>7, <3>1, <4>3, <4>4
    <3>. QED  BY <3>2, <3>3
  <2>. QED  BY <2>6, <2>7, <2>8 DEF M
<1>. QED  BY <1>1, <1>2

\* connect_graph: with an edge from the last vertex of each block to the next, the
\* factor is that of a connected graph.
LEMMA Connecting ==
  ASSUME Order \in Nat \ {0}, NEW L, PointsUp(L), \A v \in Vertices : Inherits(L, v)
  PROVE  /\ Factor(ConnectGraph(L, Order))
         /\ \A v \in Vertices : L[v] \subseteq ConnectGraph(L, Order)[v]
<1>. DEFINE M == ConnectGraph(L, Order)
<1>1. DOMAIN L = Vertices /\ Vertices \in SUBSET Nat
  BY DEF PointsUp, Vertices
<1>2. \A v \in Vertices : v # Order - 1 => v + 1 \in Vertices /\ v < v + 1
  BY DEF Vertices
<1>3. /\ M = [v \in Vertices |-> IF L[v] = {} /\ v # Order - 1 THEN {v + 1} ELSE L[v]]
      /\ \A v \in Vertices : M[v] = IF L[v] = {} /\ v # Order - 1 THEN {v + 1} ELSE L[v]
  BY <1>1 DEF ConnectGraph
<1>4. PointsUp(M)
  <2>1. \A v \in Vertices : M[v] \in SUBSET Vertices
    <3>1. \A v \in Vertices : L[v] \in SUBSET Vertices
      BY DEF PointsUp
    <3>. QED  BY <1>2, <1>3, <3>1
  <2>2. M \in [Vertices -> SUBSET Vertices]
    BY <1>3, <2>1
  <2>3. ASSUME NEW v \in Vertices, NEW w \in M[v] PROVE v < w
    <3>1. CASE L[v] = {} /\ v # Order - 1
      BY <1>2, <1>3, <2>3, <3>1
    <3>2. CASE ~ (L[v] = {} /\ v # Order - 1)
      BY <1>3, <2>3, <3>2 DEF PointsUp
    <3>. QED  BY <3>1, <3>2
  <2>. HIDE DEF M
  <2>. QED  BY <2>2, <2>3 DEF PointsUp
<1>5. ASSUME NEW v \in Vertices, v # Order - 1 PROVE M[v] # {}
  BY <1>3, <1>5
<1>6. ASSUME NEW v \in Vertices PROVE Inherits(M, v) /\ L[v] \subseteq M[v]
  <2>1. CASE L[v] = {} /\ v # Order - 1
    <3>1. M[v] = {v + 1} /\ M[v] \in SUBSET Nat
      BY <1>1, <1>3, <2>1
    <3>2. Least(M[v]) = v + 1
      BY <3>1, LeastIs
    <3>. HIDE DEF M
    <3>. QED  BY <2>1, <3>1, <3>2 DEF Inherits
  <2>2. CASE ~ (L[v] = {} /\ v # Order - 1)
    <3>1. M[v] = L[v]
      BY <1>3, <2>2
    <3>2. ASSUME NEW w \in L[v], w # Least(L[v]) PROVE w \in M[Least(L[v])]
      <4>1. w \in L[Least(L[v])]
        BY <3>2 DEF Inherits
      <4>2. Least(L[v]) \in Vertices
        <5>1. L[v] \in SUBSET Nat /\ L[v] \in SUBSET Vertices /\ L[v] # {}
          BY <1>1, <3>2 DEF PointsUp
        <5>. QED  BY <5>1, LeastIs
      <4>. QED  BY <1>3, <4>1, <4>2
    <3>. HIDE DEF M
    <3>. QED  BY <3>1, <3>2 DEF Inherits
  <2>. QED  BY <2>1, <2>2
<1>. HIDE DEF M
<1>7. Factor(M) /\ \A v \in Vertices : L[v] \subseteq M[v]
  BY <1>4, <1>5, <1>6 DEF Factor
<1>. QED  BY <1>7 DEF M

\* The symbolic factor of a graph contains its edges, and every vertex hands its
\* higher neighbours on to the lowest of them.
LEMMA HigherNeighborsIs ==
  ASSUME Order \in Nat \ {0}, NEW E, \A e \in E : e[1] \in Vertices /\ e[2] \in Vertices /\ e[1] < e[2]
  PROVE  /\ PointsUp(HigherNeighbors(E, Order))
         /\ \A v \in Vertices : Inherits(HigherNeighbors(E, Order), v)
         /\ \A v, w \in Vertices : <<v, w>> \in E => w \in HigherNeighbors(E, Order)[v]
<1>. DEFINE seq == [i \in 1..Order |-> i - 1]
<1>. DEFINE n == Len(seq)
            Op(L, v) == IF L[v] = {} THEN L ELSE [L EXCEPT ![Least(L[v])] = @ \cup (L[v] \ {Least(L[v])})]
            base == [v \in 0..(Order - 1) |-> {w \in (v + 1)..(Order - 1) : <<v, w>> \in E}]
            D == [Vertices -> SUBSET Vertices]
            I == [i \in 0..n |-> {L \in D : /\ PointsUp(L) /\ \A v \in Vertices : base[v] \subseteq L[v]
                                             /\ \A u \in Vertices : u < i => Inherits(L, u)}]
            Step(f, i) == CHOOSE r \in {Op(before, seq[i]) : before \in {f[i - 1]}} : TRUE
            IsFold(f) == f = [i \in 0..n |-> IF i = 0 THEN base ELSE Step(f, i)]
            G == [p \in D \X (1..n) |-> Op(p[1], seq[p[2]])]
            h == CHOOSE f : IsFold(f)
<1>1. HigherNeighbors(E, Order) = h[n]
  BY DEF HigherNeighbors, Fold
<1>2. n = Order /\ n \in Nat /\ (\A i \in 1..n : seq[i] = i - 1 /\ i - 1 \in Vertices) /\ Vertices \in SUBSET Nat
      /\ \A i \in 0..n : \A v \in Vertices : v < n
  BY DEF Vertices
<1>3. n \in Nat /\ base \in I[0] /\ \A i \in 0..n : I[i] \subseteq D
  <2>1. base \in D /\ PointsUp(base)
    BY DEF PointsUp, Vertices
  <2>. HIDE DEF base
  <2>. QED  BY <1>2, <2>1
<1>4. \A i \in 1..n : \A x \in I[i - 1] : Op(x, seq[i]) \in I[i]
  <2>. SUFFICES ASSUME NEW i \in 1..n, NEW x \in I[i - 1] PROVE Op(x, seq[i]) \in I[i]
    OBVIOUS
  <2>1. i - 1 \in 0..n /\ i \in 0..n /\ seq[i] = i - 1 /\ i - 1 \in Vertices /\ i \in Nat
    BY <1>2
  <2>2. PointsUp(x) /\ (\A v \in Vertices : base[v] \subseteq x[v]) /\ \A v \in Vertices : v < i - 1 => Inherits(x, v)
    BY <2>1
  <2>3. /\ PointsUp(Eliminated(x, i - 1))
        /\ \A u \in Vertices : x[u] \subseteq Eliminated(x, i - 1)[u] /\ (u <= i - 1 => Inherits(Eliminated(x, i - 1), u))
    BY <1>2, <2>1, <2>2, Eliminating
  <2>4. Op(x, seq[i]) = Eliminated(x, i - 1)
    BY <2>1 DEF Eliminated
  <2>5. Eliminated(x, i - 1) \in D
    BY <2>3 DEF PointsUp
  <2>6. \A u \in Vertices : u < i => u <= i - 1
    BY <1>2, <2>1
  <2>. DEFINE y == Eliminated(x, i - 1)
  <2>7. y \in D /\ PointsUp(y) /\ (\A v \in Vertices : base[v] \subseteq y[v]) /\ \A v \in Vertices : v < i => Inherits(y, v)
    <3>. HIDE DEF base, D
    <3>. QED  BY <2>2, <2>3, <2>5, <2>6
  <2>. HIDE DEF y, Op, seq, base, D
  <2>8. y \in I[i]
    BY <2>1, <2>7
  <2>. QED  BY <2>4, <2>8 DEF y
<1>5. h[n] \in I[n]
  <2>. HIDE DEF n, Op, base, D, I, seq
  <2>1. (\A f, i : Step(f, i) = Op(f[i - 1], seq[i])) /\ \A x \in D, i \in 1..n : G[<<x, i>>] = Op(x, seq[i])
    OBVIOUS
  <2>2. Invariant(D, I, base, n, G)
    <3>1. ASSUME NEW i \in 1..n, NEW x \in I[i - 1] PROVE G[<<x, i>>] \in I[i]
      <4>1. i - 1 \in 0..n
        BY <1>3
      <4>2. x \in D
        BY <1>3, <4>1
      <4>. QED  BY <1>4, <2>1, <4>2
    <3>. QED  BY <1>3, <3>1 DEF Invariant
  <2>. HIDE DEF Step, G
  <2>3. PICK g \in [0..n -> D] : /\ g[0] = base /\ \A i \in 1..n : g[i] = G[<<g[i - 1], i>>]
                                /\ \A i \in 0..n : g[i] \in I[i]
    <3>1. Folding(D, I, base, n, G)
      BY InvariantHolds
    <3>. QED  BY <2>2, <3>1 DEF Folding
  <2>4. \A i \in 1..n : g[i] = Step(g, i)
    <3>. TAKE i \in 1..n
    <3>1. i - 1 \in 0..n
      BY <1>3
    <3>. QED  BY <2>1, <2>3, <3>1
  <2>5. IsFold(g)
    <3>1. \A i \in 0..n : i = 0 \/ i \in 1..n
      BY <1>3
    <3>. QED  BY <2>3, <2>4, <3>1
  <2>6. IsFold(h)
    <3>. HIDE DEF IsFold
    <3>. QED  BY <2>5
  <2>. HIDE DEF h
  <2>7. h[0] = base /\ \A i \in 1..n : h[i] = Op(h[i - 1], seq[i])
    <3>1. \A i \in 0..n : h[i] = IF i = 0 THEN base ELSE Step(h, i)
      BY <2>6
    <3>2. 0 \in 0..n /\ \A i \in 1..n : i \in 0..n /\ i # 0
      BY <1>3
    <3>. QED  BY <2>1, <3>1, <3>2
  <2>8. Carried(n, {i \in 0..n : h[i] = g[i]})
    BY Induction
  <2>9. 0..n \subseteq {i \in 0..n : h[i] = g[i]}
    <3>1. ASSUME NEW i \in 1..n, h[i - 1] = g[i - 1] PROVE h[i] = g[i]
      <4>1. h[i] = Op(h[i - 1], seq[i]) /\ g[i] = Op(g[i - 1], seq[i])
        BY <2>1, <2>4, <2>7
      <4>. QED  BY <3>1, <4>1
    <3>2. 0 \in 0..n /\ \A i \in 1..n : i \in 0..n
      BY <1>3
    <3>. QED  BY <1>3, <2>3, <2>7, <2>8, <3>1, <3>2 DEF Carried
  <2>. QED  BY <1>3, <2>3, <2>9
<1>6. PointsUp(h[n]) /\ (\A v \in Vertices : base[v] \subseteq h[n][v]) /\ \A v \in Vertices : v < n => Inherits(h[n], v)
  <2>1. n \in 0..n
    BY <1>2
  <2>. HIDE DEF h, n, base, D
  <2>. QED  BY <1>5, <2>1
<1>7. \A v, w \in Vertices : <<v, w>> \in E => w \in base[v]
  <2>. SUFFICES ASSUME NEW v \in Vertices, NEW w \in Vertices, <<v, w>> \in E PROVE w \in base[v]
    OBVIOUS
  <2>1. v < w
    <3>. DEFINE e == <<v, w>>
    <3>1. e \in E /\ e[1] = v /\ e[2] = w
      OBVIOUS
    <3>. HIDE DEF e
    <3>. QED  BY <3>1
  <2>. QED  BY <2>1 DEF Vertices
<1>. HIDE DEF h, n, base
<1>. QED  BY <1>1, <1>2, <1>6, <1>7
Reordering(p) == p \in [Vertices -> Vertices] /\ \A v \in Vertices : \E i \in Vertices : p[i] = v

\* find_graph: the factor contains every entry of the mask, in the elimination order.
LEMMA FindGraphIs ==
  ASSUME OrderAssumption, NEW m, Coordinates(m), NEW ord, Reordering(ord)
  PROVE  /\ Factor(FindGraph(m, ord))
         /\ InversePerm(ord) \in [Vertices -> Vertices]
         /\ \A k \in m : LET v == InversePerm(ord)[IndexToCoord(k)[1]]  w == InversePerm(ord)[IndexToCoord(k)[2]] IN
                         /\ v \in Vertices /\ w \in Vertices
                         /\ v = w \/ w \in FindGraph(m, ord)[v] \/ v \in FindGraph(m, ord)[w]
<1>. DEFINE inv == InversePerm(ord)
            E == PermutedEdges(m, ord)
            M == HigherNeighbors(E, Order)
            L == ConnectGraph(M, Order)
<1>1. Order \in Nat \ {0} /\ Vertices \in SUBSET Nat
  BY DEF OrderAssumption, Vertices
<1>2. inv \in [Vertices -> Vertices]
  <2>1. DOMAIN ord = Vertices
    BY DEF Reordering
  <2>2. \A v \in Vertices : (CHOOSE i \in Vertices : ord[i] = v) \in Vertices
    BY DEF Reordering
  <2>. QED  BY <2>1, <2>2 DEF InversePerm
<1>. HIDE DEF inv
<1>3. \A k \in m : IndexToCoord(k)[1] \in Vertices /\ IndexToCoord(k)[2] \in Vertices
  <2>. TAKE k \in m
  <2>1. PICK i \in Vertices, j \in Vertices : IndexToCoord(k) = <<i, j>>
    BY DEF Coordinates
  <2>. QED  BY <2>1
<1>. DEFINE coords == {IndexToCoord(k) : k \in m}
            F == {<<inv[x[1]], inv[x[2]]>> : x \in coords}
            B == {<<y[2], y[1]>> : y \in F}
<1>4. E = {x \in F \cup B : x[1] < x[2]}
  BY DEF PermutedEdges, inv
<1>5. \A x \in F : x[1] \in Vertices /\ x[2] \in Vertices
  BY <1>2, <1>3
<1>6. \A x \in B : x[1] \in Vertices /\ x[2] \in Vertices
  <2>. HIDE DEF F
  <2>. QED  BY <1>5
<1>7. \A k \in m : <<inv[IndexToCoord(k)[1]], inv[IndexToCoord(k)[2]]>> \in F
  OBVIOUS
<1>8. \A v, w : <<v, w>> \in F => <<w, v>> \in B
  <2>. HIDE DEF F
  <2>. TAKE v, w
  <2>. HAVE <<v, w>> \in F
  <2>. DEFINE y == <<v, w>>
  <2>1. y \in F /\ <<w, v>> = <<y[2], y[1]>>
    OBVIOUS
  <2>. HIDE DEF y
  <2>. QED  BY <2>1
<1>. HIDE DEF F, B, E
<1>9. \A e \in E : e[1] \in Vertices /\ e[2] \in Vertices /\ e[1] < e[2]
  BY <1>4, <1>5, <1>6
<1>10. PointsUp(M) /\ (\A v \in Vertices : Inherits(M, v)) /\ \A v, w \in Vertices : <<v, w>> \in E => w \in M[v]
  BY <1>1, <1>9, HigherNeighborsIs
<1>. HIDE DEF M
<1>11. Factor(L) /\ \A v \in Vertices : M[v] \subseteq L[v]
  BY <1>1, <1>10, Connecting
<1>12. FindGraph(m, ord) = L
  BY DEF FindGraph, L, M, E
<1>. HIDE DEF L
<1>13. ASSUME NEW k \in m, NEW v, NEW w, v = inv[IndexToCoord(k)[1]], w = inv[IndexToCoord(k)[2]]
       PROVE  v \in Vertices /\ w \in Vertices /\ (v = w \/ w \in L[v] \/ v \in L[w])
  <2>1. v \in Vertices /\ w \in Vertices /\ v \in Nat /\ w \in Nat
    BY <1>1, <1>2, <1>3, <1>13
  <2>2. <<v, w>> \in F /\ <<w, v>> \in B
    BY <1>7, <1>8, <1>13
  <2>3. CASE v < w
    <3>1. <<v, w>> \in E
      <4>. DEFINE y == <<v, w>>
      <4>1. y \in F \cup B /\ y[1] < y[2]
        BY <2>2, <2>3
      <4>. HIDE DEF y
      <4>2. y \in E
        BY <1>4, <4>1
      <4>. QED  BY <4>2 DEF y
    <3>. QED  BY <1>10, <1>11, <2>1, <3>1
  <2>4. CASE w < v
    <3>1. <<w, v>> \in E
      <4>. DEFINE y == <<w, v>>
      <4>1. y \in F \cup B /\ y[1] < y[2]
        BY <2>2, <2>4
      <4>. HIDE DEF y
      <4>2. y \in E
        BY <1>4, <4>1
      <4>. QED  BY <4>2 DEF y
    <3>. QED  BY <1>10, <1>11, <2>1, <3>1
  <2>. QED  BY <2>1, <2>3, <2>4
<1>. QED  BY <1>2, <1>11, <1>12, <1>13 DEF inv

-----------------------------------------------------------------------------
(* Post orders                                                              *)

\* A stack without its top.
LEMMA Popped ==
  ASSUME NEW S, NEW s \in Seq(S), s # <<>>
  PROVE  LET t == SubSeq(s, 1, Len(s) - 1)  x == s[Len(s)] IN
         /\ t \in Seq(S) /\ x \in S /\ Elems(s) = Elems(t) \cup {x}
         /\ Distinct(s) => Distinct(t) /\ x \notin Elems(t)
<1>. DEFINE t == SubSeq(s, 1, Len(s) - 1)
            n == Len(s)
<1>1. n \in Nat /\ n >= 1 /\ DOMAIN s = 1..n /\ s[n] \in S
  OBVIOUS
<1>2. t \in Seq(S) /\ Len(t) = n - 1 /\ \A i \in 1..(n - 1) : t[i] = s[i]
  <2>1. \A i \in 1..(n - 1) : s[i] \in S
    BY <1>1
  <2>2. t = [i \in 1..(n - 1) |-> s[i]]
    <3>1. (n - 1) - 1 + 1 = n - 1 /\ \A i \in 1..(n - 1) : 1 + i - 1 = i
      BY <1>1
    <3>. HIDE DEF n
    <3>2. t = [i \in 1..((n - 1) - 1 + 1) |-> s[1 + i - 1]]
      BY DEF n
    <3>. QED  BY <3>1, <3>2
  <2>3. n - 1 \in Nat
    BY <1>1
  <2>. HIDE DEF t, n
  <2>. QED  BY <2>1, <2>2, <2>3
<1>3. DOMAIN t = 1..(n - 1)
  BY <1>1, <1>2
<1>4. \A i : i \in 1..n <=> i \in 1..(n - 1) \/ i = n
  BY <1>1
<1>. HIDE DEF t, n
<1>5. Elems(s) = Elems(t) \cup {s[n]}
  BY <1>1, <1>2, <1>3, <1>4 DEF Elems
<1>6. ASSUME Distinct(s) PROVE Distinct(t) /\ s[n] \notin Elems(t)
  <2>1. \A i \in 1..(n - 1) : i \in 1..n /\ i # n /\ n \in 1..n
    BY <1>1
  <2>. QED  BY <1>1, <1>2, <1>3, <1>6, <2>1 DEF Distinct, Elems
<1>. QED  BY <1>1, <1>2, <1>5, <1>6 DEF t, n

\* The post order of a tree: every node that hangs from the root, once, and
\* after it, its parent.
Hanging(K, parent, children, root, rank) ==
  /\ K \in SUBSET Nat /\ IsFiniteSet(K) /\ parent \in [K -> Int] /\ children \in [K -> Seq(K)]
  /\ \A p \in K : Elems(children[p]) = {v \in K : parent[v] = p}
  /\ root \in K /\ \A v \in K : parent[v] = NoParent <=> v = root
  /\ rank \in [K -> Nat]
  /\ \A v \in K : parent[v] \notin {NoParent, Inactive} =>
                    parent[v] \in K /\ parent[parent[v]] # Inactive /\ rank[parent[v]] < rank[v]
ParentsLater(parent, root, o) ==
  \A a \in 1..Len(o) : o[a] # root => \E b \in (a + 1)..Len(o) : o[b] = parent[o[a]]
Posted(K, parent, root, o) ==
  /\ o \in Seq(K) /\ Distinct(o) /\ Elems(o) = {v \in K : parent[v] # Inactive}
  /\ ParentsLater(parent, root, o)
Walked(K, parent, children, root, s, o) ==
  /\ s \in Seq(K) /\ o \in Seq(K) /\ Distinct(s) /\ Distinct(o) /\ Elems(s) \cap Elems(o) = {}
  /\ \A x \in Elems(s) \cup Elems(o) : parent[x] # Inactive /\ (x # root => parent[x] \in Elems(o))
  /\ root \in Elems(s) \cup Elems(o)
  /\ \A x \in Elems(o) : Elems(children[x]) \subseteq Elems(s) \cup Elems(o)
  /\ ParentsLater(parent, root, o)

\* One step of the walk in post_order: the last node of the stack is numbered, its
\* children are stacked.
LEMMA Visiting ==
  ASSUME NEW K, NEW parent, NEW children, NEW root, NEW rank, Hanging(K, parent, children, root, rank),
         NEW s, NEW o, Walked(K, parent, children, root, s, o), s # <<>>
  PROVE  LET v == s[Len(s)] IN
         /\ Walked(K, parent, children, root, SubSeq(s, 1, Len(s) - 1) \o Ascending(Elems(children[v])), <<v>> \o o)
         /\ Len(<<v>> \o o) = Len(o) + 1
<1>. DEFINE v == s[Len(s)]
            t == SubSeq(s, 1, Len(s) - 1)
            c == Ascending(Elems(children[v]))
            u == t \o c
            q == <<v>> \o o
<1>1. s \in Seq(K) /\ o \in Seq(K) /\ Distinct(s) /\ Distinct(o) /\ Elems(s) \cap Elems(o) = {}
  BY DEF Walked
<1>2. t \in Seq(K) /\ v \in K /\ Elems(s) = Elems(t) \cup {v} /\ Distinct(t) /\ v \notin Elems(t)
  BY <1>1, Popped
<1>. HIDE DEF t, v
<1>3. v \notin Elems(o) /\ v \in Elems(s)
  BY <1>1, <1>2
<1>4. Elems(children[v]) = {x \in K : parent[x] = v}
  BY <1>2 DEF Hanging
<1>5. Elems(children[v]) \in SUBSET Nat /\ IsFiniteSet(Elems(children[v])) /\ Elems(children[v]) \subseteq K
  <2>1. K \in SUBSET Nat /\ IsFiniteSet(K)
    BY DEF Hanging
  <2>2. {x \in K : parent[x] = v} \in SUBSET K
    OBVIOUS
  <2>3. IsFiniteSet({x \in K : parent[x] = v})
    BY <2>1, <2>2, FS_Subset
  <2>. QED  BY <1>4, <2>1, <2>3
<1>6. c \in Seq(K) /\ Elems(c) = {x \in K : parent[x] = v} /\ Distinct(c)
  <2>1. c \in Seq(Elems(children[v])) /\ Elems(c) = Elems(children[v]) /\ Distinct(c)
    BY <1>5, AscendingIs
  <2>2. c \in Seq(K)
    <3>. HIDE DEF c
    <3>. QED  BY <1>5, <2>1
  <2>. QED  BY <1>4, <2>1, <2>2
<1>. HIDE DEF c
<1>7. ASSUME NEW x \in Elems(c) PROVE x \notin Elems(s) /\ x \notin Elems(o) /\ x \in K /\ parent[x] = v /\ x # root /\ parent[x] # Inactive
  <2>1. x \in K /\ parent[x] = v /\ v \in Nat
    BY <1>2, <1>6, <1>7 DEF Hanging
  <2>2. x # root /\ parent[x] # Inactive
    BY <2>1 DEF Hanging, NoParent, Inactive
  <2>3. x \notin Elems(s) \cup Elems(o)
    BY <1>3, <2>1, <2>2 DEF Walked
  <2>. QED  BY <2>1, <2>2, <2>3
<1>8. u \in Seq(K) /\ Elems(u) = Elems(t) \cup Elems(c) /\ Distinct(u)
  <2>1. Elems(t) \cap Elems(c) = {}
    BY <1>2, <1>7
  <2>. QED  BY <1>2, <1>6, <2>1, ElemsOfConcat
<1>9. /\ q \in Seq(K) /\ Elems(q) = {v} \cup Elems(o) /\ Distinct(q) /\ Len(q) = Len(o) + 1
      /\ q[1] = v /\ \A i \in 1..Len(o) : q[i + 1] = o[i]
  BY <1>1, <1>2, <1>3, ElemsOfCons
<1>. HIDE DEF u, q
<1>10. Elems(u) \cap Elems(q) = {}
  BY <1>1, <1>2, <1>3, <1>7, <1>8, <1>9
<1>11. ASSUME NEW x \in Elems(u) \cup Elems(q) PROVE parent[x] # Inactive /\ (x # root => parent[x] \in Elems(q))
  <2>1. CASE x \in Elems(c)
    BY <1>7, <1>9, <2>1
  <2>2. CASE x \in Elems(s) \cup Elems(o)
    BY <1>9, <2>2 DEF Walked
  <2>. QED  BY <1>2, <1>8, <1>9, <1>11, <2>1, <2>2
<1>12. root \in Elems(u) \cup Elems(q)
  BY <1>2, <1>8, <1>9 DEF Walked
<1>13. ASSUME NEW x \in Elems(q) PROVE Elems(children[x]) \subseteq Elems(u) \cup Elems(q)
  <2>1. CASE x = v
    BY <1>4, <1>6, <1>8, <2>1
  <2>2. CASE x \in Elems(o)
    <3>1. Elems(children[x]) \subseteq Elems(s) \cup Elems(o)
      BY <2>2 DEF Walked
    <3>. QED  BY <1>2, <1>8, <1>9, <3>1
  <2>. QED  BY <1>9, <1>13, <2>1, <2>2
<1>14. ParentsLater(parent, root, q)
  <2>0. Len(o) \in Nat
    BY <1>1
  <2>. SUFFICES ASSUME NEW a \in 1..Len(q), q[a] # root PROVE \E b \in (a + 1)..Len(q) : q[b] = parent[q[a]]
    BY DEF ParentsLater
  <2>1. CASE a = 1
    <3>1. parent[v] \in Elems(o)
      BY <1>3, <1>9, <2>1 DEF Walked
    <3>2. PICK b \in 1..Len(o) : o[b] = parent[v]
      BY <1>1, <3>1, ElemsOfSeq
    <3>3. b + 1 \in (a + 1)..Len(q) /\ q[b + 1] = parent[q[a]]
      BY <1>9, <2>0, <2>1, <3>2
    <3>. QED  BY <3>3
  <2>2. CASE a # 1
    <3>1. a - 1 \in 1..Len(o) /\ (a - 1) + 1 = a
      BY <1>9, <2>0, <2>2
    <3>2. q[a] = o[a - 1]
      BY <1>9, <3>1
    <3>3. PICK b \in ((a - 1) + 1)..Len(o) : o[b] = parent[o[a - 1]]
      BY <3>1, <3>2 DEF Walked, ParentsLater
    <3>4. b \in 1..Len(o) /\ b + 1 \in (a + 1)..Len(q)
      BY <1>9, <2>0, <3>1, <3>3
    <3>. QED  BY <1>9, <3>2, <3>3, <3>4
  <2>. QED  BY <2>1, <2>2
<1>15. Walked(K, parent, children, root, u, q)
  BY <1>8, <1>9, <1>10, <1>11, <1>12, <1>13, <1>14 DEF Walked
<1>. QED  BY <1>9, <1>15 DEF u, q, v, t, c

\* The walk has numbered every node when the stack is empty, or when all nodes of
\* the tree are numbered.
LEMMA WalkEnds ==
  ASSUME NEW K, NEW parent, NEW children, NEW root, NEW rank, Hanging(K, parent, children, root, rank),
         NEW s, NEW o, Walked(K, parent, children, root, s, o), s = <<>> \/ Len(o) = Cardinality(K)
  PROVE  Posted(K, parent, root, o)
<1>1. s \in Seq(K) /\ o \in Seq(K) /\ Distinct(o) /\ Elems(o) \subseteq K /\ IsFiniteSet(K) /\ Elems(s) \subseteq K
  BY ElemsOfSeq DEF Walked, Hanging
<1>2. Elems(s) = {}
  <2>1. CASE s = <<>>
    BY <1>1, <2>1, ElemsOfSeq
  <2>2. CASE Len(o) = Cardinality(K)
    <3>1. Cardinality(Elems(o)) = Cardinality(K)
      BY <1>1, <2>2, DistinctLen
    <3>2. Elems(o) = K
      BY <1>1, <3>1, FS_Subset
    <3>. QED  BY <1>1, <3>2 DEF Walked
  <2>. QED  BY <2>1, <2>2
<1>3. ASSUME NEW x \in K, parent[x] # Inactive, x \notin Elems(o) PROVE FALSE
  <2>. DEFINE T == {n \in Nat : \E y \in K : parent[y] # Inactive /\ y \notin Elems(o) /\ rank[y] = n}
  <2>1. rank[x] \in T /\ T \in SUBSET Nat
    BY <1>3 DEF Hanging
  <2>2. PICK n \in T : \A k \in Nat : k < n => k \notin T
    <3>. HIDE DEF T
    <3>. QED  BY <2>1, LeastMember
  <2>3. PICK y \in K : parent[y] # Inactive /\ y \notin Elems(o) /\ rank[y] = n
    BY <2>2
  <2>4. y # root
    BY <1>2, <2>3 DEF Walked
  <2>5. parent[y] \in K /\ parent[parent[y]] # Inactive /\ rank[parent[y]] < n /\ rank[parent[y]] \in Nat
    <3>1. parent[y] # NoParent
      BY <2>4 DEF Hanging
    <3>. QED  BY <2>3, <3>1 DEF Hanging
  <2>6. parent[y] \in Elems(o)
    BY <2>2, <2>5
  <2>7. y \in Elems(children[parent[y]])
    BY <2>3, <2>5 DEF Hanging
  <2>. QED  BY <1>2, <2>3, <2>6, <2>7 DEF Walked
<1>4. \A x \in Elems(o) : parent[x] # Inactive
  BY DEF Walked
<1>5. Elems(o) = {v \in K : parent[v] # Inactive}
  BY <1>1, <1>3, <1>4
<1>. QED  BY <1>1, <1>5 DEF Posted, Walked

\* post_order lists the nodes that hang from the root, children before parents.
LEMMA PostOrderIs ==
  ASSUME NEW K, NEW parent, NEW children, NEW root, NEW rank, Hanging(K, parent, children, root, rank)
  PROVE  Posted(K, parent, root, PostOrder(parent, children))
<1>. DEFINE seq == [i \in 1..Cardinality(DOMAIN parent) |-> i]
            top == Least({v \in DOMAIN parent : parent[v] = NoParent})
            Fine(st, i) == /\ Walked(K, parent, children, root, st.stack, st.order)
                           /\ Len(st.order) = i \/ st.stack = <<>>
<1>. DEFINE n == Len(seq)
            Op(st, i) == IF st.stack = <<>> THEN st
                         ELSE LET v == st.stack[Len(st.stack)]
                              IN  [stack |-> SubSeq(st.stack, 1, Len(st.stack) - 1) \o Ascending(Elems(children[v])),
                                   order |-> <<v>> \o st.order]
            base == [stack |-> <<top>>, order |-> <<>>]
            D == [stack : Seq(K), order : Seq(K)]
            I == [i \in 0..n |-> {st \in D : Fine(st, i)}]
            Step(f, i) == CHOOSE r \in {Op(before, seq[i]) : before \in {f[i - 1]}} : TRUE
            IsFold(f) == f = [i \in 0..n |-> IF i = 0 THEN base ELSE Step(f, i)]
            G == [p \in D \X (1..n) |-> Op(p[1], seq[p[2]])]
            h == CHOOSE f : IsFold(f)
<1>1. PostOrder(parent, children) = h[n].order
  BY DEF PostOrder, Fold
<1>2. n = Cardinality(K) /\ n \in Nat
  <2>1. DOMAIN parent = K /\ Cardinality(K) \in Nat
    BY FS_CardinalityType DEF Hanging
  <2>. QED  BY <2>1
<1>. HIDE DEF n, seq
<1>3. n \in Nat /\ base \in I[0] /\ \A i \in 0..n : I[i] \subseteq D
  <2>1. top = root
    <3>1. {v \in DOMAIN parent : parent[v] = NoParent} = {root} /\ root \in Nat
      BY DEF Hanging
    <3>2. {root} \in SUBSET Nat /\ {root} # {}
      BY <3>1
    <3>3. Least({root}) = root
      BY <3>2, LeastIs
    <3>. QED  BY <3>1, <3>3
  <2>. HIDE DEF top
  <2>2. base \in D /\ base.stack = <<root>> /\ base.order = <<>> /\ Len(base.order) = 0
    BY <2>1 DEF Hanging
  <2>3. Walked(K, parent, children, root, <<root>>, <<>>)
    <3>1. root \in K /\ parent[root] = NoParent
      BY DEF Hanging
    <3>2. <<root>> \in Seq(K) /\ <<>> \in Seq(K) /\ Elems(<<root>>) = {root} /\ Elems(<<>>) = {}
          /\ Distinct(<<root>>) /\ Distinct(<<>>) /\ Len(<<>>) = 0
      BY <3>1 DEF Elems, Distinct
    <3>3. ParentsLater(parent, root, <<>>)
      BY <3>2 DEF ParentsLater
    <3>4. NoParent # Inactive
      BY DEF NoParent, Inactive
    <3>. QED  BY <3>1, <3>2, <3>3, <3>4 DEF Walked
  <2>. HIDE DEF base
  <2>. QED  BY <1>2, <2>2, <2>3
<1>4. \A i \in 1..n : \A x \in I[i - 1] : Op(x, seq[i]) \in I[i]
  <2>. SUFFICES ASSUME NEW i \in 1..n, NEW x \in I[i - 1] PROVE Op(x, seq[i]) \in I[i]
    OBVIOUS
  <2>1. i - 1 \in 0..n /\ i \in 0..n /\ i \in Nat
    BY <1>2
  <2>2. x \in D /\ Walked(K, parent, children, root, x.stack, x.order) /\ (Len(x.order) = i - 1 \/ x.stack = <<>>)
    <3>. HIDE DEF D, base, Op, Fine
    <3>1. x \in D /\ Fine(x, i - 1)
      BY <2>1
    <3>. HIDE DEF I
    <3>. QED  BY <3>1 DEF Fine
  <2>. DEFINE y == Op(x, seq[i])
  <2>3. y \in D /\ Walked(K, parent, children, root, y.stack, y.order) /\ (Len(y.order) = i \/ y.stack = <<>>)
    <3>1. CASE x.stack = <<>>
      <4>1. y = x
        BY <3>1
      <4>. HIDE DEF y, D
      <4>. QED  BY <2>2, <3>1, <4>1
    <3>2. CASE x.stack # <<>>
      <4>. DEFINE v == x.stack[Len(x.stack)]
                  a == SubSeq(x.stack, 1, Len(x.stack) - 1) \o Ascending(Elems(children[v]))
                  b == <<v>> \o x.order
      <4>1. y = [stack |-> a, order |-> b]
        BY <3>2
      <4>2. Walked(K, parent, children, root, a, b) /\ Len(b) = Len(x.order) + 1
        BY <2>2, <3>2, Visiting
      <4>. HIDE DEF y, a, b
      <4>3. y \in D /\ y.stack = a /\ y.order = b
        <5>1. a \in Seq(K) /\ b \in Seq(K)
          BY <4>2 DEF Walked
        <5>. QED  BY <4>1, <5>1
      <4>4. Len(y.order) = i
        BY <2>1, <2>2, <3>2, <4>2, <4>3
      <4>. QED  BY <4>2, <4>3, <4>4
    <3>. QED  BY <3>1, <3>2
  <2>. HIDE DEF y, D
  <2>4. y \in I[i]
    BY <2>1, <2>3
  <2>. QED  BY <2>4 DEF y
<1>5. h[n] \in I[n]
  <2>. HIDE DEF n, Op, base, D, I, seq, Fine
  <2>1. (\A f, i : Step(f, i) = Op(f[i - 1], seq[i])) /\ \A x \in D, i \in 1..n : G[<<x, i>>] = Op(x, seq[i])
    OBVIOUS
  <2>2. Invariant(D, I, base, n, G)
    <3>1. ASSUME NEW i \in 1..n, NEW x \in I[i - 1] PROVE G[<<x, i>>] \in I[i]
      <4>1. i - 1 \in 0..n
        BY <1>3
      <4>2. x \in D
        BY <1>3, <4>1
      <4>. QED  BY <1>4, <2>1, <4>2
    <3>. QED  BY <1>3, <3>1 DEF Invariant
  <2>. HIDE DEF Step, G
  <2>3. PICK g \in [0..n -> D] : /\ g[0] = base /\ \A i \in 1..n : g[i] = G[<<g[i - 1], i>>]
                                /\ \A i \in 0..n : g[i] \in I[i]
    <3>1. Folding(D, I, base, n, G)
      BY InvariantHolds
    <3>. QED  BY <2>2, <3>1 DEF Folding
  <2>4. \A i \in 1..n : g[i] = Step(g, i)
    <3>. TAKE i \in 1..n
    <3>1. i - 1 \in 0..n
      BY <1>3
    <3>. QED  BY <2>1, <2>3, <3>1
  <2>5. IsFold(g)
    <3>1. \A i \in 0..n : i = 0 \/ i \in 1..n
      BY <1>3
    <3>. QED  BY <2>3, <2>4, <3>1
  <2>6. IsFold(h)
    <3>. HIDE DEF IsFold
    <3>. QED  BY <2>5
  <2>. HIDE DEF h
  <2>7. h[0] = base /\ \A i \in 1..n : h[i] = Op(h[i - 1], seq[i])
    <3>1. \A i \in 0..n : h[i] = IF i = 0 THEN base ELSE Step(h, i)
      BY <2>6
    <3>2. 0 \in 0..n /\ \A i \in 1..n : i \in 0..n /\ i # 0
      BY <1>3
    <3>. QED  BY <2>1, <3>1, <3>2
  <2>8. Carried(n, {i \in 0..n : h[i] = g[i]})
    BY Induction
  <2>9. 0..n \subseteq {i \in 0..n : h[i] = g[i]}
    <3>1. ASSUME NEW i \in 1..n, h[i - 1] = g[i - 1] PROVE h[i] = g[i]
      <4>1. h[i] = Op(h[i - 1], seq[i]) /\ g[i] = Op(g[i - 1], seq[i])
        BY <2>1, <2>4, <2>7
      <4>. QED  BY <3>1, <4>1
    <3>2. 0 \in 0..n /\ \A i \in 1..n : i \in 0..n
      BY <1>3
    <3>. QED  BY <1>3, <2>3, <2>7, <2>8, <3>1, <3>2 DEF Carried
  <2>. QED  BY <1>3, <2>3, <2>9
<1>6. Walked(K, parent, children, root, h[n].stack, h[n].order) /\ (h[n].stack = <<>> \/ Len(h[n].order) = n)
  <2>1. n \in 0..n
    BY <1>2
  <2>. HIDE DEF h, n, base, D, Op
  <2>. HIDE DEF Fine
  <2>2. Fine(h[n], n)
    BY <1>5, <2>1
  <2>. HIDE DEF I
  <2>. QED  BY <2>2 DEF Fine
<1>. HIDE DEF h, n, base
<1>7. Posted(K, parent, root, h[n].order)
  BY <1>2, <1>6, WalkEnds
<1>. QED  BY <1>1, <1>7

-----------------------------------------------------------------------------
(* The elimination tree and its supernodes                                  *)

\* A list over a set is a list over any larger one.
LEMMA SeqGrows ==
  ASSUME NEW S, NEW T, S \subseteq T, NEW s \in Seq(S)
  PROVE  s \in Seq(T)
  OBVIOUS

\* The elimination tree of the factor, and when a column is its parent's with
\* one entry more.
ETree(L, parent) ==
  /\ Order \in Nat \ {0} /\ L \in [Vertices -> SUBSET Vertices] /\ L[Order - 1] = {}
  /\ parent \in [Vertices -> Int] /\ parent[Order - 1] = NoParent
  /\ \A v \in Vertices : \A w \in L[v] : v < w
  /\ \A v \in Vertices : v # Order - 1 =>
       /\ parent[v] \in Vertices /\ v < parent[v] /\ parent[v] \in L[v] /\ parent[v] # NoParent
       /\ \A w \in L[v] : parent[v] <= w /\ (w # parent[v] => w \in L[parent[v]])
Fits(L, parent, v) == parent[v] \in L[v] /\ L[parent[v]] \subseteq L[v]

\* parent_from_l, higher_degree: the parents are those of the elimination tree, and
\* the degrees of pothen_sun tell whether a column is its parent's with the parent.
LEMMA EliminationTree ==
  ASSUME Order \in Nat \ {0}, NEW L, Factor(L)
  PROVE  LET parent == ParentFromL(L, Order)  degree == HigherDegree(L, Order) IN
         /\ ETree(L, parent)
         /\ Posted(Vertices, parent, Order - 1, PostOrder(parent, ChildrenFromParent(parent)))
         /\ \A v \in Vertices : v # Order - 1 => (degree[v] - 1 = degree[parent[v]] <=> Fits(L, parent, v))
<1>. DEFINE parent == ParentFromL(L, Order)
            degree == HigherDegree(L, Order)
            top == Order - 1
            children == ChildrenFromParent(parent)
            rank == [v \in Vertices |-> top - v]
<1>1. /\ L \in [Vertices -> SUBSET Vertices] /\ DOMAIN L = Vertices /\ Vertices \in SUBSET Nat /\ top \in Vertices
      /\ \A v \in Vertices : v \in Nat /\ v <= top
  BY DEF Factor, PointsUp, Vertices
<1>2. L[top] = {}
  <2>. SUFFICES ASSUME NEW w \in L[top] PROVE FALSE
    OBVIOUS
  <2>1. w \in Vertices /\ top < w
    BY <1>1 DEF Factor, PointsUp
  <2>. QED  BY <1>1, <2>1
<1>3. /\ parent = [v \in Vertices |-> IF v = top THEN NoParent ELSE Least(L[v])] /\ parent[top] = NoParent
      /\ \A v \in Vertices : v # top => parent[v] = Least(L[v])
  BY <1>1 DEF ParentFromL
<1>4. \A v \in Vertices : degree[v] = Cardinality(L[v])
  BY <1>1, <1>2, FS_EmptySet DEF HigherDegree
<1>. HIDE DEF parent, degree
<1>5. ASSUME NEW v \in Vertices, v # top
      PROVE  /\ parent[v] \in Vertices /\ v < parent[v] /\ parent[v] \in L[v] /\ parent[v] # NoParent
             /\ \A w \in L[v] : parent[v] <= w /\ (w # parent[v] => w \in L[parent[v]])
  <2>1. L[v] # {} /\ L[v] \in SUBSET Nat /\ L[v] \in SUBSET Vertices
    BY <1>1, <1>5 DEF Factor
  <2>2. parent[v] = Least(L[v])
    BY <1>3, <1>5
  <2>3. parent[v] \in L[v] /\ parent[v] \in Vertices /\ \A w \in L[v] : parent[v] <= w
    BY <2>1, <2>2, LeastIs
  <2>4. v < parent[v] /\ parent[v] # NoParent
    <3>1. v < parent[v]
      BY <2>3 DEF Factor, PointsUp
    <3>2. parent[v] \in Nat
      BY <1>1, <2>3
    <3>. QED  BY <3>1, <3>2 DEF NoParent
  <2>5. \A w \in L[v] : w # parent[v] => w \in L[parent[v]]
    BY <2>2 DEF Factor, Inherits
  <2>. QED  BY <2>3, <2>4, <2>5
<1>6. parent \in [Vertices -> Int]
  <2>1. \A v \in Vertices : parent[v] \in Int
    <3>. TAKE v \in Vertices
    <3>1. CASE v = top
      BY <1>3, <3>1 DEF NoParent
    <3>2. CASE v # top
      <4>1. parent[v] \in Nat
        BY <1>1, <1>5, <3>2
      <4>. QED  BY <4>1
    <3>. QED  BY <3>1, <3>2
  <2>. QED  BY <1>3, <2>1
<1>7. ETree(L, parent)
  BY <1>1, <1>2, <1>3, <1>5, <1>6 DEF ETree, Factor, PointsUp
<1>8. Hanging(Vertices, parent, children, top, rank)
  <2>1. IsFiniteSet(Vertices)
    <3>1. 0 \in Int /\ top \in Int
      BY <1>1
    <3>. QED  BY <3>1, FS_Interval DEF Vertices
  <2>2. DOMAIN parent = Vertices /\ children = [p \in Vertices |-> Ascending({v \in Vertices : parent[v] = p})]
    BY <1>6 DEF ChildrenFromParent
  <2>3. ASSUME NEW p \in Vertices PROVE children[p] \in Seq(Vertices) /\ Elems(children[p]) = {v \in Vertices : parent[v] = p}
    <3>. DEFINE C == {v \in Vertices : parent[v] = p}
    <3>1. C \in SUBSET Vertices /\ C \in SUBSET Nat
      BY <1>1
    <3>2. IsFiniteSet(C)
      BY <2>1, <3>1, FS_Subset
    <3>3. children[p] = Ascending(C)
      BY <2>2
    <3>. HIDE DEF C, children
    <3>4. children[p] \in Seq(C) /\ Elems(children[p]) = C
      BY <3>1, <3>2, <3>3, AscendingIs
    <3>5. children[p] \in Seq(Vertices)
      BY <3>1, <3>4, SeqGrows
    <3>. QED  BY <3>4, <3>5 DEF C
  <2>4. children \in [Vertices -> Seq(Vertices)]
    <3>1. \A p \in Vertices : children[p] \in Seq(Vertices)
      BY <2>3
    <3>2. children = [p \in Vertices |-> children[p]]
      BY <2>2
    <3>. HIDE DEF children
    <3>. QED  BY <3>1, <3>2
  <2>5. \A v \in Vertices : parent[v] = NoParent <=> v = top
    BY <1>3, <1>5
  <2>6. rank \in [Vertices -> Nat]
    BY <1>1
  <2>7. ASSUME NEW v \in Vertices, parent[v] \notin {NoParent, Inactive}
        PROVE parent[v] \in Vertices /\ parent[parent[v]] # Inactive /\ rank[parent[v]] < rank[v]
    <3>1. v # top
      BY <1>3, <2>7
    <3>2. parent[v] \in Vertices /\ v < parent[v]
      BY <1>5, <3>1
    <3>3. parent[parent[v]] # Inactive
      <4>1. CASE parent[v] = top
        BY <1>3, <4>1 DEF NoParent, Inactive
      <4>2. CASE parent[v] # top
        <5>1. parent[parent[v]] \in Nat
          BY <1>1, <1>5, <3>2, <4>2
        <5>. QED  BY <5>1 DEF Inactive
      <4>. QED  BY <4>1, <4>2
    <3>4. rank[parent[v]] = top - parent[v] /\ rank[v] = top - v
      BY <3>2
    <3>5. top \in Nat /\ v \in Nat /\ parent[v] \in Nat
      BY <1>1, <3>2
    <3>. HIDE DEF rank, top
    <3>. QED  BY <3>2, <3>3, <3>4, <3>5
  <2>. HIDE DEF children, rank, top
  <2>. QED  BY <1>1, <1>6, <2>1, <2>3, <2>4, <2>5, <2>6, <2>7 DEF Hanging
<1>9. Posted(Vertices, parent, top, PostOrder(parent, children))
  <2>. HIDE DEF children, rank, top
  <2>. QED  BY <1>8, PostOrderIs
<1>10. ASSUME NEW v \in Vertices, v # top
       PROVE  degree[v] - 1 = degree[parent[v]] <=> Fits(L, parent, v)
  <2>. DEFINE p == parent[v]
              M == L[v] \ {p}
  <2>1. p \in Vertices /\ p \in L[v] /\ \A w \in L[v] : p <= w /\ (w # p => w \in L[p])
    BY <1>5, <1>10
  <2>2. IsFiniteSet(L[v]) /\ IsFiniteSet(L[p]) /\ IsFiniteSet(M)
    <3>1. IsFiniteSet(Vertices)
      <4>1. 0 \in Int /\ top \in Int
        BY <1>1
      <4>. QED  BY <4>1, FS_Interval DEF Vertices
    <3>2. L[v] \in SUBSET Vertices /\ L[p] \in SUBSET Vertices /\ M \in SUBSET Vertices
      BY <1>1, <2>1
    <3>. HIDE DEF M, p
    <3>. QED  BY <3>1, <3>2, FS_Subset
  <2>3. Cardinality(M) = Cardinality(L[v]) - 1 /\ Cardinality(L[v]) \in Nat /\ Cardinality(L[p]) \in Nat
    BY <2>1, <2>2, FS_RemoveElement, FS_CardinalityType
  <2>4. M \subseteq L[p]
    BY <2>1
  <2>5. p \notin L[p]
    <3>1. \A w \in L[p] : p < w
      BY <2>1 DEF Factor, PointsUp
    <3>2. p \in Nat
      BY <1>1, <2>1
    <3>. HIDE DEF p
    <3>. QED  BY <3>1, <3>2
  <2>6. degree[v] = Cardinality(L[v]) /\ degree[p] = Cardinality(L[p])
    BY <1>4, <2>1
  <2>7. ASSUME degree[v] - 1 = degree[p] PROVE L[p] \subseteq L[v]
    <3>1. Cardinality(M) = Cardinality(L[p])
      BY <2>3, <2>6, <2>7
    <3>2. M = L[p]
      BY <2>2, <2>4, <3>1, FS_Subset
    <3>. QED  BY <3>2
  <2>8. ASSUME L[p] \subseteq L[v] PROVE degree[v] - 1 = degree[p]
    <3>1. M = L[p]
      BY <2>4, <2>5, <2>8
    <3>. QED  BY <2>3, <2>6, <3>1
  <2>. QED  BY <2>1, <2>7, <2>8 DEF Fits
<1>. QED  BY <1>7, <1>9, <1>10 DEF parent, degree

-----------------------------------------------------------------------------
(* The supernodes.                                                           *)

Closed(parent, done) ==
  done \in SUBSET Vertices /\ \A x \in Vertices : x # Order - 1 /\ parent[x] \in done => x \in done
\* What the index of a vertex absorbed says of its column.
Absorbed(L, parent, done, ix, v) ==
  /\ ix[v] \in Vertices /\ ix[ix[v]] < -1 /\ ix[v] < v /\ v \in L[ix[v]] /\ L[v] \subseteq L[ix[v]]
  /\ \A z \in L[ix[v]] : z \in L[v] \/ (z <= v /\ Representative(ix, z) = ix[v])
  /\ \E w \in done : w # Order - 1 /\ parent[w] = v /\ Representative(ix, w) = ix[v]
Chained(parent, ix) ==
  \A y, z \in Vertices : Representative(ix, y) = Representative(ix, z) /\ z < y =>
     Representative(ix, parent[z]) = Representative(ix, z) /\ parent[z] <= y
Leaves(parent, ix, w) == w # Order - 1 /\ Representative(ix, parent[w]) # Representative(ix, w)
Grouped(L, parent, done, seen, ix, pr) ==
  /\ ix \in [Vertices -> Int] /\ pr \in [Vertices -> Int]
  /\ \A v \in Vertices : ix[v] >= 0 => Absorbed(L, parent, seen, ix, v)
  /\ Chained(parent, ix)
  /\ \A w \in seen : Leaves(parent, ix, w) => ~ Fits(L, parent, w) \/ ix[parent[w]] >= 0
  /\ \A w \in Vertices : ix[w] < -1 => w \in seen
  /\ \A w \in Vertices : Leaves(parent, ix, w) /\ parent[w] \in done =>
                           pr[Representative(ix, w)] = Representative(ix, parent[w])
  /\ \A x \in Vertices : pr[x] # NoParent => \E w \in seen : Leaves(parent, ix, w) /\ Representative(ix, w) = x

\* The representative of a vertex, as pothen_sun stores it.
LEMMA RepresentativeIs ==
  ASSUME NEW ix \in [Vertices -> Int], NEW v \in Vertices, ix[v] >= 0 => ix[v] \in Vertices /\ ix[v] < v, Vertices \in SUBSET Nat
  PROVE  /\ Representative(ix, v) \in Vertices /\ Representative(ix, v) <= v
         /\ (ix[v] < 0 <=> Representative(ix, v) = v)
         /\ (ix[v] >= 0 => Representative(ix, v) = ix[v])
<1>1. v \in Nat /\ ix[v] \in Int
  OBVIOUS
<1>2. CASE ix[v] < 0
  BY <1>1, <1>2 DEF Representative
<1>3. CASE ix[v] >= 0
  BY <1>1, <1>3 DEF Representative
<1>. QED  BY <1>1, <1>2, <1>3
\* A supernode is left from one vertex only.
LEMMA LeavesOnce ==
  ASSUME NEW parent, NEW ix, Chained(parent, ix), Vertices \in SUBSET Nat,
         NEW v \in Vertices, NEW w \in Vertices, Leaves(parent, ix, v), Leaves(parent, ix, w),
         Representative(ix, v) = Representative(ix, w)
  PROVE  v = w
<1>1. v < w \/ w < v \/ v = w
  OBVIOUS
<1>2. CASE v < w
  BY <1>2 DEF Chained, Leaves
<1>3. CASE w < v
  BY <1>3 DEF Chained, Leaves
<1>. QED  BY <1>1, <1>2, <1>3

\* What the steps of the supernode search share: v comes next.
Coming(L, parent, done, v) ==
  ETree(L, parent) /\ v \in Vertices /\ v \notin done /\ Closed(parent, done) /\ Closed(parent, done \cup {v})

\* The parent of the vertex that comes next in the post order is still to come.
LEMMA ParentIsLater ==
  ASSUME NEW L, NEW parent, NEW done, NEW v, Coming(L, parent, done, v), v # Order - 1
  PROVE  /\ parent[v] \in Vertices /\ v < parent[v] /\ parent[v] \notin done /\ parent[v] # v
         /\ parent[v] # Order - 1 => parent[parent[v]] \notin done \cup {v}
<1>1. parent[v] \in Vertices /\ v < parent[v] /\ v \in Nat
  BY DEF Coming, ETree, Vertices
<1>2. parent[v] \notin done
  BY <1>1 DEF Coming, Closed
<1>3. ASSUME parent[v] # Order - 1, parent[parent[v]] \in done \cup {v} PROVE FALSE
  <2>1. parent[v] \in done \cup {v}
    BY <1>1, <1>3 DEF Coming, Closed
  <2>. QED  BY <1>1, <1>2, <2>1
<1>. QED  BY <1>1, <1>2, <1>3

\* The vertices are numbers, the root the last of them.
LEMMA Naturals ==
  ASSUME NEW L, NEW parent, ETree(L, parent)
  PROVE  Vertices \in SUBSET Nat /\ Order - 1 \in Vertices /\ \A v \in Vertices : v <= Order - 1
  BY DEF ETree, Vertices

\* Representatives represent themselves and come first in their supernode.
LEMMA RepresentativesOf ==
  ASSUME NEW L, NEW parent, NEW done, NEW seen, NEW ix, NEW pr, ETree(L, parent), Grouped(L, parent, done, seen, ix, pr),
         NEW v \in Vertices
  PROVE  /\ Representative(ix, v) \in Vertices /\ Representative(ix, v) <= v
         /\ (ix[v] < 0 <=> Representative(ix, v) = v)
         /\ (ix[v] >= 0 => Representative(ix, v) = ix[v] /\ ix[ix[v]] < -1)
         /\ ix[Representative(ix, v)] < 0
<1>1. ix \in [Vertices -> Int] /\ (ix[v] >= 0 => ix[v] \in Vertices /\ ix[v] < v /\ ix[ix[v]] < -1)
  BY DEF Grouped, Absorbed
<1>2. Vertices \in SUBSET Nat
  BY Naturals
<1>3. /\ Representative(ix, v) \in Vertices /\ Representative(ix, v) <= v
      /\ (ix[v] < 0 <=> Representative(ix, v) = v)
      /\ (ix[v] >= 0 => Representative(ix, v) = ix[v])
  BY <1>1, <1>2, RepresentativeIs
<1>4. ix[v] \in Int /\ (ix[v] < 0 \/ ix[v] >= 0)
  BY <1>1
<1>. QED  BY <1>1, <1>3, <1>4

\* pothen_sun at the root, which has no parent to be merged with.
LEMMA RootSeen ==
  ASSUME NEW L, NEW parent, NEW done, NEW v, NEW ix, NEW pr, Coming(L, parent, done, v),
         Grouped(L, parent, done, done, ix, pr), v = Order - 1
  PROVE  Grouped(L, parent, done, done \cup {v}, ix, pr)
<1>1. ~ Leaves(parent, ix, v)
  BY DEF Leaves
<1>2. \A w \in Vertices : ix[w] >= 0 => Absorbed(L, parent, done \cup {v}, ix, w)
  BY DEF Grouped, Absorbed
<1>. QED  BY <1>1, <1>2 DEF Grouped
\* v is the last vertex of its supernode.
LEMMA Separate ==
  ASSUME NEW L, NEW parent, NEW done, NEW v, NEW ix, NEW pr, Coming(L, parent, done, v),
         Grouped(L, parent, done, done, ix, pr), v # Order - 1
  PROVE  Leaves(parent, ix, v)
<1>. DEFINE p == parent[v]
            r == Representative(ix, v)
<1>1. p \in Vertices /\ v < p /\ p \notin done /\ v \in Vertices /\ v \notin done /\ Vertices \in SUBSET Nat /\ ETree(L, parent)
  BY ParentIsLater, Naturals DEF Coming
<1>2. SUFFICES ASSUME Representative(ix, p) = r PROVE FALSE
  BY DEF Leaves
<1>3. r \in Vertices /\ r <= v
  BY <1>1, RepresentativesOf
<1>. HIDE DEF p, r
<1>4. ix[p] >= 0 /\ ix[p] = r
  <2>1. (ix[p] < 0 <=> Representative(ix, p) = p) /\ (ix[p] >= 0 => Representative(ix, p) = ix[p])
    BY <1>1, RepresentativesOf
  <2>3. ix[p] \in Int
    BY <1>1 DEF Grouped
  <2>2. r # p
    BY <1>1, <1>3
  <2>. QED  BY <1>2, <2>1, <2>2, <2>3
<1>5. PICK w \in done : w # Order - 1 /\ parent[w] = p /\ Representative(ix, w) = r
  BY <1>1, <1>4 DEF Grouped, Absorbed
<1>6. w \in Vertices /\ w # v
  BY <1>1 DEF Coming, Closed
<1>7. w < p
  BY <1>5, <1>6, <1>1 DEF ETree
<1>8. w < v \/ v < w
  BY <1>1, <1>6
<1>9. CASE w < v
  <2>1. parent[w] <= v
    BY <1>1, <1>5, <1>6, <1>9 DEF Grouped, Chained, r
  <2>. QED  BY <1>1, <1>5, <2>1
<1>10. CASE v < w
  <2>1. parent[v] <= w
    BY <1>1, <1>5, <1>6, <1>10 DEF Grouped, Chained, r
  <2>2. p <= w
    BY <2>1 DEF p
  <2>3. p \in Nat /\ w \in Nat
    BY <1>1, <1>6
  <2>. QED  BY <1>7, <2>2, <2>3
<1>. QED  BY <1>8, <1>9, <1>10

\* pothen_sun where a vertex starts a supernode below the one of its parent.
LEMMA NotAbsorbing ==
  ASSUME NEW L, NEW parent, NEW done, NEW v, NEW ix, NEW pr, Coming(L, parent, done, v),
         Grouped(L, parent, done, done, ix, pr), v # Order - 1,
         ~ (Fits(L, parent, v) /\ ix[parent[v]] = -1)
  PROVE  Grouped(L, parent, done, done \cup {v}, ix, [pr EXCEPT ![Representative(ix, v)] = Representative(ix, v)])
<1>. DEFINE p == parent[v]
            r == Representative(ix, v)
            qr == [pr EXCEPT ![r] = r]
            seen == done \cup {v}
<1>1. p \in Vertices /\ v < p /\ p \notin seen /\ v \in Vertices /\ v \notin done /\ Vertices \in SUBSET Nat /\ ETree(L, parent)
  BY ParentIsLater, Naturals DEF Coming
<1>2. Leaves(parent, ix, v) /\ r \in Vertices /\ r \in Int
  <2>1. Leaves(parent, ix, v)
    BY Separate
  <2>2. r \in Vertices
    BY <1>1, RepresentativesOf
  <2>. HIDE DEF r, p, qr, seen
  <2>. QED  BY <1>1, <2>1, <2>2
<1>3. qr \in [Vertices -> Int] /\ qr[r] = r /\ \A x \in Vertices : x # r => qr[x] = pr[x]
  BY <1>2 DEF Grouped
<1>. HIDE DEF qr
<1>4. \A w \in Vertices : ix[w] >= 0 => Absorbed(L, parent, seen, ix, w)
  BY DEF Grouped, Absorbed
<1>5. ~ Fits(L, parent, v) \/ ix[parent[v]] >= 0
  <2>1. p \notin done /\ ix[p] \in Int
    BY <1>1 DEF Grouped
  <2>2. ~ (ix[p] < -1)
    BY <1>1, <2>1 DEF Grouped
  <2>. QED  BY <2>1, <2>2
<1>6. \A w \in seen : Leaves(parent, ix, w) => ~ Fits(L, parent, w) \/ ix[parent[w]] >= 0
  BY <1>5 DEF Grouped
<1>7. ASSUME NEW w \in Vertices, Leaves(parent, ix, w), parent[w] \in done
      PROVE  qr[Representative(ix, w)] = Representative(ix, parent[w])
  <2>1. w # v
    BY <1>1, <1>7
  <2>2. Representative(ix, w) # r
    BY <1>1, <1>2, <1>7, <2>1, LeavesOnce DEF Grouped
  <2>3. Representative(ix, w) \in Vertices
    BY <1>1, RepresentativesOf
  <2>. QED  BY <1>3, <1>7, <2>2, <2>3 DEF Grouped
<1>8. ASSUME NEW x \in Vertices, qr[x] # NoParent
      PROVE  \E w \in seen : Leaves(parent, ix, w) /\ Representative(ix, w) = x
  <2>1. CASE x = r
    BY <1>2, <2>1
  <2>2. CASE x # r
    BY <1>3, <1>8, <2>2 DEF Grouped
  <2>. QED  BY <2>1, <2>2
<1>9. Grouped(L, parent, done, seen, ix, qr)
  BY <1>3, <1>4, <1>6, <1>7, <1>8 DEF Grouped
<1>. QED  BY <1>9 DEF qr, r, seen
\* The parents of the supernodes below v are set.
LEMMA ParentsSet ==
  ASSUME NEW L, NEW parent, NEW done, NEW v, NEW ix, NEW pr, NEW qr, Coming(L, parent, done, v),
         Grouped(L, parent, done, done \cup {v}, ix, pr),
         qr = [l \in Vertices |-> IF l \in {Representative(ix, w) : w \in {u \in Vertices : parent[u] = v}} \ {Representative(ix, v)}
                                  THEN Representative(ix, v) ELSE pr[l]]
  PROVE  Grouped(L, parent, done \cup {v}, done \cup {v}, ix, qr)
<1>. DEFINE k == Representative(ix, v)
            below == {Representative(ix, w) : w \in {u \in Vertices : parent[u] = v}}
            seen == done \cup {v}
<1>1. v \in Vertices /\ v \notin done /\ Vertices \in SUBSET Nat /\ ETree(L, parent) /\ Closed(parent, seen)
  BY Naturals DEF Coming
<1>2. k \in Vertices /\ k \in Int /\ pr \in [Vertices -> Int]
  <2>1. k \in Vertices
    BY <1>1, RepresentativesOf
  <2>. QED  BY <1>1, <2>1 DEF Grouped
<1>3. \A l \in Vertices : qr[l] = IF l \in below \ {k} THEN k ELSE pr[l]
  OBVIOUS
<1>4. qr \in [Vertices -> Int]
  <2>1. \A l \in Vertices : (IF l \in below \ {k} THEN k ELSE pr[l]) \in Int
    BY <1>2
  <2>. QED  BY <2>1
<1>5. ASSUME NEW l \in below \ {k}
      PROVE  \E w \in seen : w \in Vertices /\ parent[w] = v /\ Leaves(parent, ix, w) /\ Representative(ix, w) = l
  <2>1. PICK w \in Vertices : parent[w] = v /\ l = Representative(ix, w)
    BY <1>5
  <2>2. w # Order - 1
    BY <1>1, <2>1 DEF ETree, NoParent
  <2>3. w \in seen
    BY <1>1, <2>1, <2>2 DEF Closed
  <2>. QED  BY <1>5, <2>1, <2>2, <2>3 DEF Leaves
<1>. HIDE DEF below, k
<1>6. ASSUME NEW w \in Vertices, Leaves(parent, ix, w), parent[w] \in seen
      PROVE  qr[Representative(ix, w)] = Representative(ix, parent[w])
  <2>. DEFINE x == Representative(ix, w)
  <2>1. x \in Vertices
    BY <1>1, RepresentativesOf
  <2>2. CASE parent[w] = v
    <3>1. x \in below /\ x # k
      BY <1>6, <2>2 DEF below, k, Leaves
    <3>. QED  BY <1>3, <2>1, <2>2, <3>1 DEF k
  <2>3. CASE parent[w] # v
    <3>1. x \notin below \ {k}
      <4>. SUFFICES ASSUME x \in below \ {k} PROVE FALSE
        OBVIOUS
      <4>1. PICK y \in Vertices : parent[y] = v /\ Leaves(parent, ix, y) /\ Representative(ix, y) = x
        BY <1>5
      <4>2. y = w
        BY <1>1, <1>6, <4>1, LeavesOnce DEF Grouped
      <4>. QED  BY <2>3, <4>1, <4>2
    <3>2. parent[w] \in done
      BY <1>6, <2>3
    <3>3. pr[x] = Representative(ix, parent[w])
      BY <1>6, <3>2 DEF Grouped
    <3>. QED  BY <1>3, <2>1, <3>1, <3>3
  <2>. QED  BY <2>2, <2>3
<1>7. ASSUME NEW x \in Vertices, qr[x] # NoParent
      PROVE  \E w \in seen : Leaves(parent, ix, w) /\ Representative(ix, w) = x
  <2>1. CASE x \in below \ {k}
    BY <1>5, <2>1
  <2>2. CASE x \notin below \ {k}
    BY <1>3, <1>7, <2>2 DEF Grouped
  <2>. QED  BY <2>1, <2>2
<1>. QED  BY <1>4, <1>6, <1>7 DEF Grouped

\* The parent of v joins the supernode of v.
LEMMA Absorbing ==
  ASSUME NEW L, NEW parent, NEW done, NEW v, NEW ix, NEW pr, Coming(L, parent, done, v),
         Grouped(L, parent, done, done, ix, pr), v # Order - 1,
         Fits(L, parent, v), ix[parent[v]] = -1,
         NEW jx, jx = [ix EXCEPT ![parent[v]] = Representative(ix, v), ![Representative(ix, v)] = @ - 1]
  PROVE  Grouped(L, parent, done, done \cup {v}, jx, pr)
<1>. DEFINE p == parent[v]
            r == Representative(ix, v)
            seen == done \cup {v}
            R(x) == Representative(ix, x)
            Q(x) == Representative(jx, x)
<1>1. p \in Vertices /\ v < p /\ p \notin done /\ p # v /\ (p # Order - 1 => parent[p] \notin done)
  BY ParentIsLater
<1>2. v \in Vertices /\ v \notin done /\ Vertices \in SUBSET Nat /\ ETree(L, parent) /\ Closed(parent, done)
  BY Naturals DEF Coming
<1>3. ix \in [Vertices -> Int] /\ pr \in [Vertices -> Int] /\ ix[p] = -1
  BY DEF Grouped
<1>4. ASSUME NEW x \in Vertices
      PROVE  /\ R(x) \in Vertices /\ R(x) <= x /\ (ix[x] < 0 <=> R(x) = x)
             /\ (ix[x] >= 0 => R(x) = ix[x] /\ ix[ix[x]] < -1) /\ ix[R(x)] < 0
  BY <1>2, RepresentativesOf
<1>5. r \in Vertices /\ r <= v /\ r # p /\ r \in Nat /\ ix[r] < 0 /\ r < p
  <2>1. r \in Vertices /\ r <= v /\ ix[r] < 0
    BY <1>2, <1>4
  <2>2. r \in Nat /\ v \in Nat /\ p \in Nat
    BY <1>1, <1>2, <2>1
  <2>. HIDE DEF r, p
  <2>. QED  BY <1>1, <2>1, <2>2
<1>. HIDE DEF p, r, R, Q, seen
<1>6. jx = [ix EXCEPT ![p] = r, ![r] = @ - 1]
  BY DEF p, r
<1>7. /\ jx \in [Vertices -> Int] /\ jx[p] = r /\ jx[r] = ix[r] - 1
      /\ \A x \in Vertices : x # p /\ x # r => jx[x] = ix[x]
  BY <1>1, <1>3, <1>5, <1>6
<1>8. R(p) = p
  BY <1>1, <1>3, <1>4
<1>9. \A x \in Vertices : R(x) = p => x = p
  <2>. TAKE x \in Vertices
  <2>. HAVE R(x) = p
  <2>1. CASE ix[x] >= 0
    BY <1>3, <1>4, <2>1
  <2>2. CASE ix[x] < 0
    BY <1>4, <2>2
  <2>. QED  BY <1>3, <2>1, <2>2
<1>10. Q(p) = r /\ \A x \in Vertices : x # p => Q(x) = R(x)
  <2>1. Q(p) = r
    BY <1>5, <1>7 DEF Q, Representative
  <2>2. ASSUME NEW x \in Vertices, x # p PROVE Q(x) = R(x)
    <3>1. CASE x = r
      <4>1. ix[x] < 0 /\ jx[x] < 0
        BY <1>3, <1>5, <1>7, <3>1
      <4>. QED  BY <4>1 DEF Q, R, Representative
    <3>2. CASE x # r
      BY <1>7, <2>2, <3>2 DEF Q, R, Representative
    <3>. QED  BY <3>1, <3>2
  <2>. QED  BY <2>1, <2>2
<1>11. R(v) = r
  BY DEF R, r
<1>12. \A y, z \in Vertices : R(y) = R(z) /\ z < y => R(parent[z]) = R(z) /\ parent[z] <= y
  BY DEF Grouped, Chained, R
<1>13. \A x \in Vertices : x # Order - 1 => parent[x] \in Vertices /\ x < parent[x]
  BY <1>2 DEF ETree
<1>14. \A x \in Vertices : x <= Order - 1
  BY <1>2, Naturals
\* The supernode of v ends with v.
<1>15. ASSUME NEW z \in Vertices, R(z) = r, z # v PROVE z < v /\ R(parent[z]) = r /\ parent[z] <= v
  <2>1. z \in Nat /\ v \in Nat
    BY <1>2
  <2>2. CASE v < z
    BY <1>2, <1>5, <1>8, <1>11, <1>12, <1>15, <2>2 DEF p
  <2>3. CASE z < v
    BY <1>2, <1>11, <1>12, <1>15, <2>3
  <2>. QED  BY <1>15, <2>1, <2>2, <2>3
<1>16. jx[r] < -1
  BY <1>3, <1>5, <1>7
<1>17. ASSUME NEW y \in Vertices, jx[y] >= 0 PROVE Absorbed(L, parent, seen, jx, y)
  <2>1. CASE y = p
    <3>1. p \in L[v] /\ L[p] \subseteq L[v] /\ \A z \in L[v] : z = p \/ z \in L[p]
      BY <1>2 DEF Fits, ETree, p
    <3>2. ASSUME v # r PROVE ix[v] = r /\ v \in L[r] /\ L[v] \subseteq L[r] /\ \A z \in L[r] : z \in L[v] \/ (z <= v /\ R(z) = r)
      <4>1. ix[v] >= 0 /\ ix[v] = r
        BY <1>2, <1>3, <1>4, <1>11, <3>2
      <4>. QED  BY <1>2, <4>1 DEF Grouped, Absorbed, R
    <3>3. p \in L[r] /\ L[p] \subseteq L[r]
      BY <3>1, <3>2
    <3>4. ASSUME NEW z \in L[r] PROVE z \in L[p] \/ (z <= p /\ Q(z) = r)
      <4>1. z \in L[v] \/ (z <= v /\ R(z) = r)
        BY <3>2
      <4>2. z \in Vertices /\ z \in Nat /\ p \in Nat /\ v \in Nat
        BY <1>1, <1>2, <1>5 DEF ETree
      <4>3. CASE z \in L[v]
        BY <1>10, <3>1, <4>2, <4>3
      <4>4. CASE z <= v /\ R(z) = r
        BY <1>1, <1>10, <4>2, <4>4
      <4>. QED  BY <4>1, <4>3, <4>4
    <3>5. v \in seen /\ parent[v] = p /\ Q(v) = r
      BY <1>1, <1>2, <1>10, <1>11 DEF seen, p
    <3>. QED  BY <1>5, <1>7, <1>16, <2>1, <3>3, <3>4, <3>5 DEF Absorbed, Q
  <2>2. CASE y # p
    <3>1. y # r
      BY <1>3, <1>7, <1>16, <1>17
    <3>. DEFINE u == ix[y]
    <3>2. jx[y] = u /\ Absorbed(L, parent, done, ix, y) /\ u >= 0
      BY <1>7, <1>17, <2>2, <3>1 DEF Grouped
    <3>3. u \in Vertices /\ ix[u] < -1 /\ u # p /\ u < y /\ y \in L[u] /\ L[y] \subseteq L[u]
      BY <1>3, <3>2 DEF Absorbed
    <3>4. jx[u] < -1
      BY <1>7, <1>16, <3>3
    <3>5. ASSUME NEW z \in L[u] PROVE z \in L[y] \/ (z <= y /\ Q(z) = u)
      <4>1. z \in L[y] \/ (z <= y /\ R(z) = u)
        BY <3>2 DEF Absorbed, R
      <4>2. z \in Vertices
        BY <1>2, <3>3 DEF ETree
      <4>. QED  BY <1>8, <1>10, <3>3, <4>1, <4>2
    <3>6. \E w \in seen : w # Order - 1 /\ parent[w] = y /\ Q(w) = u
      <4>1. PICK w \in done : w # Order - 1 /\ parent[w] = y /\ R(w) = u
        BY <3>2 DEF Absorbed, R
      <4>2. w \in Vertices /\ w # p
        BY <1>1, <1>2 DEF Closed
      <4>. QED  BY <1>10, <4>1, <4>2 DEF seen
    <3>. HIDE DEF u
    <3>. QED  BY <3>2, <3>3, <3>4, <3>5, <3>6 DEF Absorbed, Q
  <2>. QED  BY <2>1, <2>2
<1>18. ASSUME NEW y \in Vertices, NEW z \in Vertices, Q(y) = Q(z), z < y
       PROVE  Q(parent[z]) = Q(z) /\ parent[z] <= y
  <2>0. z # Order - 1 /\ parent[z] \in Vertices /\ z < parent[z]
    <3>1. z \in Nat /\ y \in Nat /\ y <= Order - 1 /\ Order - 1 \in Nat
      BY <1>2, <1>14, Naturals
    <3>. QED  BY <1>13, <1>18, <3>1
  <2>1. CASE y = p
    <3>1. z # p /\ R(z) = r /\ Q(z) = r
      BY <1>1, <1>2, <1>10, <1>18, <2>1
    <3>2. CASE z = v
      BY <1>1, <1>2, <1>10, <2>1, <3>1, <3>2 DEF p
    <3>3. CASE z # v
      <4>1. R(parent[z]) = r /\ parent[z] <= v
        BY <1>15, <3>1, <3>3
      <4>2. parent[z] # p /\ parent[z] <= p
        <5>1. parent[z] \in Nat /\ v \in Nat /\ p \in Nat
          BY <1>1, <1>2, <2>0
        <5>. QED  BY <1>1, <4>1, <5>1
      <4>. QED  BY <1>10, <2>0, <2>1, <3>1, <4>1, <4>2
    <3>. QED  BY <3>2, <3>3
  <2>2. CASE z = p
    <3>1. y # p /\ R(y) = r
      BY <1>1, <1>2, <1>10, <1>18, <2>2
    <3>2. y # v /\ v \in Nat /\ y \in Nat /\ p \in Nat
      BY <1>1, <1>2, <1>18, <2>2
    <3>3. y < v
      BY <1>15, <3>1, <3>2
    <3>. QED  BY <1>1, <1>18, <2>2, <3>2, <3>3
  <2>3. CASE y # p /\ z # p
    <3>1. R(y) = R(z) /\ Q(z) = R(z)
      BY <1>10, <1>18, <2>3
    <3>2. R(parent[z]) = R(z) /\ parent[z] <= y
      BY <1>12, <1>18, <3>1
    <3>3. parent[z] # p
      BY <1>8, <1>9, <2>3, <3>2
    <3>. QED  BY <1>10, <2>0, <3>1, <3>2, <3>3
  <2>. QED  BY <2>1, <2>2, <2>3
<1>19. \A w \in seen : w \in Vertices /\ w # p
  BY <1>1, <1>2 DEF seen, Closed
<1>20. ASSUME NEW w \in seen, Leaves(parent, jx, w) PROVE ~ Fits(L, parent, w) \/ jx[parent[w]] >= 0
  <2>1. w \in Vertices /\ w # p /\ w # Order - 1 /\ Q(parent[w]) # Q(w) /\ Q(w) = R(w) /\ parent[w] \in Vertices
    BY <1>10, <1>13, <1>19, <1>20 DEF Leaves, Q
  <2>2. CASE parent[w] = p
    BY <1>5, <1>7, <2>2
  <2>3. CASE parent[w] # p
    <3>1. w # v
      BY <2>3 DEF p
    <3>2. w \in done /\ Leaves(parent, ix, w)
      BY <1>10, <2>1, <2>3, <3>1 DEF seen, Leaves, R
    <3>3. ~ Fits(L, parent, w) \/ ix[parent[w]] >= 0
      BY <3>2 DEF Grouped
    <3>4. ix[parent[w]] >= 0 => parent[w] # r
      BY <1>3, <1>5
    <3>. QED  BY <1>7, <2>1, <2>3, <3>3, <3>4
  <2>. QED  BY <2>2, <2>3
<1>21. ASSUME NEW w \in Vertices, jx[w] < -1 PROVE w \in seen
  <2>1. CASE w = r
    <3>1. CASE ix[v] >= 0
      <4>1. ix[r] < -1
        BY <1>2, <1>4, <1>11, <3>1
      <4>. QED  BY <1>5, <2>1, <4>1 DEF Grouped, seen
    <3>2. CASE ix[v] < 0
      BY <1>2, <1>4, <1>11, <2>1, <3>2 DEF seen
    <3>. QED  BY <1>2, <1>3, <3>1, <3>2
  <2>2. CASE w # r
    <3>1. w # p
      BY <1>5, <1>7, <1>21
    <3>. QED  BY <1>7, <1>21, <2>2, <3>1 DEF Grouped, seen
  <2>. QED  BY <2>1, <2>2
<1>22. ASSUME NEW w \in Vertices, Leaves(parent, jx, w), parent[w] \in done
       PROVE  pr[Q(w)] = Q(parent[w])
  <2>1. w # Order - 1 /\ Q(parent[w]) # Q(w) /\ parent[w] \in Vertices /\ parent[w] # p
    BY <1>1, <1>13, <1>22 DEF Leaves, Q
  <2>2. w # p
    BY <1>1, <1>22, <2>1
  <2>3. Leaves(parent, ix, w)
    BY <1>10, <2>1, <2>2 DEF Leaves, R
  <2>4. pr[R(w)] = R(parent[w])
    BY <1>22, <2>3 DEF Grouped, R
  <2>. QED  BY <1>10, <2>1, <2>2, <2>4
<1>23. ASSUME NEW x \in Vertices, pr[x] # NoParent PROVE \E w \in seen : Leaves(parent, jx, w) /\ Q(w) = x
  <2>1. PICK w \in done : Leaves(parent, ix, w) /\ R(w) = x
    BY <1>23 DEF Grouped, R
  <2>2. w \in Vertices /\ w # p /\ w \in seen /\ w # v /\ w # Order - 1 /\ R(parent[w]) # x /\ parent[w] \in Vertices /\ w < parent[w]
    BY <1>2, <1>13, <1>19, <2>1 DEF seen, Leaves, R
  <2>3. Q(w) = x
    BY <1>10, <2>1, <2>2
  <2>4. Q(parent[w]) # x
    <3>1. CASE parent[w] # p
      BY <1>10, <2>2, <3>1
    <3>2. CASE parent[w] = p
      <4>. SUFFICES ASSUME x = r PROVE FALSE
        BY <1>10, <3>2
      <4>1. parent[w] <= v
        BY <1>15, <2>1, <2>2
      <4>. QED  BY <1>1, <1>2, <3>2, <4>1
    <3>. QED  BY <3>1, <3>2
  <2>. QED  BY <2>2, <2>3, <2>4 DEF Leaves, Q
<1>. QED  BY <1>3, <1>7, <1>17, <1>18, <1>20, <1>21, <1>22, <1>23 DEF Grouped, Chained, Q, seen

\* Along a post order, every vertex comes after its descendants.
LEMMA PostOrderComes ==
  ASSUME NEW L, NEW parent, ETree(L, parent), NEW post, Posted(Vertices, parent, Order - 1, post)
  PROVE  /\ {post[j] : j \in 1..Len(post)} = Vertices /\ post \in Seq(Vertices)
         /\ \A i \in 1..Len(post) : Coming(L, parent, {post[j] : j \in 1..(i - 1)}, post[i])
<1>. DEFINE n == Len(post)
            Prefix(i) == {post[j] : j \in 1..i}
<1>1. post \in Seq(Vertices) /\ Distinct(post) /\ n \in Nat /\ DOMAIN post = 1..n /\ \A i \in 1..n : post[i] \in Vertices
  BY DEF Posted
<1>2. \A v \in Vertices : parent[v] # Inactive
  BY DEF ETree, NoParent, Inactive, Vertices
<1>3. Prefix(n) = Vertices
  BY <1>1, <1>2 DEF Posted, Elems
<1>4. ASSUME NEW i \in 0..n PROVE Closed(parent, Prefix(i))
  <2>1. Prefix(i) \in SUBSET Vertices
    BY <1>1
  <2>2. ASSUME NEW x \in Vertices, x # Order - 1, parent[x] \in Prefix(i) PROVE x \in Prefix(i)
    <3>1. PICK a \in 1..n : post[a] = x
      BY <1>3
    <3>2. PICK c \in 1..i : post[c] = parent[x]
      BY <2>2
    <3>3. PICK b \in (a + 1)..n : post[b] = parent[x]
      BY <2>2, <3>1 DEF Posted, ParentsLater
    <3>4. b \in 1..n /\ c \in 1..n /\ b = c
      <4>1. b \in 1..n /\ c \in 1..n
        BY <1>1, <3>1
      <4>. QED  BY <1>1, <3>2, <3>3, <4>1 DEF Distinct
    <3>5. a \in 1..i
      BY <1>1, <3>4
    <3>. QED  BY <3>1, <3>5
  <2>. HIDE DEF Prefix
  <2>. QED  BY <2>1, <2>2 DEF Closed
<1>5. ASSUME NEW i \in 1..n PROVE Coming(L, parent, Prefix(i - 1), post[i])
  <2>1. i - 1 \in 0..n /\ i \in 0..n
    BY <1>1
  <2>2. Prefix(i - 1) \cup {post[i]} = Prefix(i) /\ post[i] \notin Prefix(i - 1)
    BY <1>1, Prefixes
  <2>3. Closed(parent, Prefix(i - 1)) /\ Closed(parent, Prefix(i))
    BY <1>4, <2>1
  <2>. HIDE DEF Prefix
  <2>. QED  BY <1>1, <2>2, <2>3 DEF Coming
<1>. QED  BY <1>1, <1>3, <1>5

\* One vertex of pothen_sun.
LEMMA SupernodeStep ==
  ASSUME NEW L, NEW parent, NEW degree, NEW done, NEW v, Coming(L, parent, done, v),
         \A u \in Vertices : u # Order - 1 => (degree[u] - 1 = degree[parent[u]] <=> Fits(L, parent, u)),
         NEW st \in [index : [Vertices -> Int], par : [Vertices -> Int]], Grouped(L, parent, done, done, st.index, st.par)
  PROVE  LET new == PothenSunVertex(st, parent, degree, v) IN
         /\ new \in [index : [Vertices -> Int], par : [Vertices -> Int]]
         /\ Grouped(L, parent, done \cup {v}, done \cup {v}, new.index, new.par)
<1>. DEFINE rep == Representative(st.index, v)
            st1 == IF parent[v] = NoParent THEN st
                   ELSE IF Absorbs(st, parent, degree, v)
                   THEN [st EXCEPT !.index = [st.index EXCEPT ![parent[v]] = rep, ![rep] = @ - 1]]
                   ELSE [st EXCEPT !.par[rep] = rep]
            k == Representative(st1.index, v)
            below == {Representative(st1.index, w) : w \in {u \in DOMAIN parent : parent[u] = v}}
            new == [st1 EXCEPT !.par = [l \in DOMAIN parent |-> IF l \in below \ {k} THEN k ELSE @[l]]]
            seen == done \cup {v}
            D == [index : [Vertices -> Int], par : [Vertices -> Int]]
<1>1. PothenSunVertex(st, parent, degree, v) = new
  BY DEF PothenSunVertex
<1>2. v \in Vertices /\ ETree(L, parent) /\ DOMAIN parent = Vertices
  BY DEF Coming, ETree
<1>3. st1 \in D /\ Grouped(L, parent, done, seen, st1.index, st1.par)
  <2>1. CASE v = Order - 1
    <3>1. parent[v] = NoParent
      BY <1>2, <2>1 DEF ETree
    <3>2. st1 = st
      BY <3>1
    <3>3. Grouped(L, parent, done, seen, st.index, st.par)
      BY <2>1, RootSeen
    <3>. HIDE DEF st1, seen
    <3>. QED  BY <3>2, <3>3
  <2>2. CASE v # Order - 1
    <3>0. parent[v] # NoParent /\ parent[v] \in Vertices
      BY <1>2, <2>2 DEF ETree
    <3>1. CASE Absorbs(st, parent, degree, v)
      <4>. DEFINE jx == [st.index EXCEPT ![parent[v]] = rep, ![rep] = @ - 1]
      <4>1. st1 = [st EXCEPT !.index = jx]
        <5>1. st1 = [st EXCEPT !.index = [st.index EXCEPT ![parent[v]] = rep, ![rep] = @ - 1]]
          BY <3>0, <3>1
        <5>2. [st EXCEPT !.index = [st.index EXCEPT ![parent[v]] = rep, ![rep] = @ - 1]] = [st EXCEPT !.index = jx]
          OBVIOUS
        <5>. HIDE DEF st1, jx, rep
        <5>. QED  BY <5>1, <5>2
      <4>2. Fits(L, parent, v) /\ st.index[parent[v]] = -1
        BY <1>2, <2>2, <3>1 DEF Absorbs
      <4>3. Grouped(L, parent, done, seen, jx, st.par)
        BY <2>2, <4>2, Absorbing
      <4>4. jx \in [Vertices -> Int]
        BY <4>3 DEF Grouped
      <4>. HIDE DEF st1, seen, jx
      <4>5. st1 \in D /\ st1.index = jx /\ st1.par = st.par
        BY <4>1, <4>4
      <4>. QED  BY <4>3, <4>5
    <3>2. CASE ~ Absorbs(st, parent, degree, v)
      <4>. DEFINE qr == [st.par EXCEPT ![rep] = rep]
      <4>1. st1 = [st EXCEPT !.par = qr]
        BY <3>0, <3>2
      <4>2. ~ (Fits(L, parent, v) /\ st.index[parent[v]] = -1)
        BY <1>2, <2>2, <3>2 DEF Absorbs
      <4>3. Grouped(L, parent, done, seen, st.index, qr)
        BY <2>2, <4>2, NotAbsorbing
      <4>4. qr \in [Vertices -> Int]
        BY <4>3 DEF Grouped
      <4>. HIDE DEF st1, seen, qr
      <4>5. st1 \in D /\ st1.index = st.index /\ st1.par = qr
        BY <4>1, <4>4
      <4>. QED  BY <4>3, <4>5
    <3>. QED  BY <3>1, <3>2
  <2>. QED  BY <2>1, <2>2
<1>. HIDE DEF st1
<1>4. new.index = st1.index /\ new.par = [l \in Vertices |-> IF l \in below \ {k} THEN k ELSE st1.par[l]]
      /\ new = [index |-> new.index, par |-> new.par]
  BY <1>2, <1>3
<1>5. new.par = [l \in Vertices |-> IF l \in {Representative(st1.index, w) : w \in {u \in Vertices : parent[u] = v}} \ {Representative(st1.index, v)}
                                    THEN Representative(st1.index, v) ELSE st1.par[l]]
  BY <1>2, <1>4
<1>. HIDE DEF new, below, k
<1>6. Grouped(L, parent, seen, seen, st1.index, new.par)
  <2>. DEFINE qr == new.par
              ix == st1.index
              pr == st1.par
  <2>1. Grouped(L, parent, done, seen, ix, pr)
    BY <1>3
  <2>2. qr = [l \in Vertices |-> IF l \in {Representative(ix, w) : w \in {u \in Vertices : parent[u] = v}} \ {Representative(ix, v)}
                                 THEN Representative(ix, v) ELSE pr[l]]
    BY <1>5
  <2>. HIDE DEF qr, ix, pr
  <2>3. Grouped(L, parent, seen, seen, ix, qr)
    BY <2>1, <2>2, ParentsSet
  <2>. QED  BY <2>3 DEF qr, ix
<1>7. new.par \in [Vertices -> Int]
  BY <1>6 DEF Grouped
<1>8. st1.index \in [Vertices -> Int]
  BY <1>3
<1>9. new \in D
  BY <1>4, <1>7, <1>8
<1>. QED  BY <1>1, <1>4, <1>6, <1>9

\* pothen_sun: the supernodes are chains of the elimination tree whose columns nest,
\* each with the supernode its last vertex hangs from.
LEMMA PothenSunIs ==
  ASSUME NEW L, NEW parent, NEW degree, ETree(L, parent), NEW post, Posted(Vertices, parent, Order - 1, post),
         \A u \in Vertices : u # Order - 1 => (degree[u] - 1 = degree[parent[u]] <=> Fits(L, parent, u))
  PROVE  LET ps == PothenSun(parent, post, degree) IN Grouped(L, parent, Vertices, Vertices, ps.index, ps.par)
<1>. DEFINE Prefix(i) == {post[j] : j \in 1..i}
            Fine(st, i) == Grouped(L, parent, Prefix(i), Prefix(i), st.index, st.par)
<1>. DEFINE n == Len(post)
            Op(st, v) == PothenSunVertex(st, parent, degree, v)
            base == [index |-> [v \in DOMAIN parent |-> -1], par |-> [v \in DOMAIN parent |-> NoParent]]
            D == [index : [Vertices -> Int], par : [Vertices -> Int]]
            I == [i \in 0..n |-> {st \in D : Fine(st, i)}]
            Step(f, i) == CHOOSE r \in {Op(before, post[i]) : before \in {f[i - 1]}} : TRUE
            IsFold(f) == f = [i \in 0..n |-> IF i = 0 THEN base ELSE Step(f, i)]
            G == [p \in D \X (1..n) |-> Op(p[1], post[p[2]])]
            h == CHOOSE f : IsFold(f)
<1>1. PothenSun(parent, post, degree) = h[n]
  BY DEF PothenSun, Fold
<1>2. /\ Prefix(n) = Vertices /\ post \in Seq(Vertices)
      /\ \A i \in 1..n : Coming(L, parent, Prefix(i - 1), post[i]) /\ Prefix(i - 1) \cup {post[i]} = Prefix(i)
  <2>1. /\ Prefix(n) = Vertices /\ post \in Seq(Vertices)
        /\ \A i \in 1..n : Coming(L, parent, Prefix(i - 1), post[i])
    BY PostOrderComes
  <2>2. \A i \in 1..n : Prefix(i - 1) \cup {post[i]} = Prefix(i)
    BY <2>1, Prefixes
  <2>. HIDE DEF Prefix
  <2>. QED  BY <2>1, <2>2
<1>3. n \in Nat /\ base \in I[0] /\ \A i \in 0..n : I[i] \subseteq D
  <2>1. n \in Nat
    BY <1>2
  <2>. DEFINE ix == [v \in Vertices |-> -1]
              pr == [v \in Vertices |-> NoParent]
  <2>2. base = [index |-> ix, par |-> pr]
    BY DEF ETree
  <2>3. ix \in [Vertices -> Int] /\ pr \in [Vertices -> Int] /\ (\A v \in Vertices : ix[v] = -1 /\ pr[v] = NoParent)
    BY DEF NoParent
  <2>. HIDE DEF ix, pr
  <2>4. \A v \in Vertices : Representative(ix, v) = v
    BY <2>3 DEF Representative
  <2>5. Vertices \in SUBSET Nat /\ Prefix(0) = {}
    BY Naturals
  <2>6. Chained(parent, ix)
    BY <2>4, <2>5 DEF Chained
  <2>7. Grouped(L, parent, {}, {}, ix, pr)
    BY <2>3, <2>4, <2>6 DEF Grouped, ETree
  <2>. HIDE DEF n, base
  <2>8. base \in D /\ base.index = ix /\ base.par = pr
    BY <2>2, <2>3
  <2>9. Fine(base, 0)
    BY <2>5, <2>7, <2>8
  <2>. HIDE DEF Fine, D
  <2>. QED  BY <2>1, <2>8, <2>9
<1>4. \A i \in 1..n : \A x \in I[i - 1] : Op(x, post[i]) \in I[i]
  <2>. SUFFICES ASSUME NEW i \in 1..n, NEW x \in I[i - 1] PROVE Op(x, post[i]) \in I[i]
    OBVIOUS
  <2>1. i - 1 \in 0..n /\ i \in 0..n
    BY <1>3
  <2>2. x \in D /\ Fine(x, i - 1)
    <3>. HIDE DEF D, base, Op, Fine, n
    <3>. QED  BY <2>1
  <2>3. Prefix(i - 1) \cup {post[i]} = Prefix(i)
    BY <1>2
  <2>4. Op(x, post[i]) \in D /\ Fine(Op(x, post[i]), i)
    <3>. DEFINE done == Prefix(i - 1)
                v == post[i]
                new == PothenSunVertex(x, parent, degree, v)
    <3>1. Coming(L, parent, done, v) /\ Grouped(L, parent, done, done, x.index, x.par)
      BY <1>2, <2>2
    <3>. HIDE DEF done, v
    <3>2. new \in D /\ Grouped(L, parent, done \cup {v}, done \cup {v}, new.index, new.par)
      BY <2>2, <3>1, SupernodeStep
    <3>. HIDE DEF D, Prefix, new
    <3>. QED  BY <2>3, <3>2 DEF done, v, new
  <2>. HIDE DEF D, base, Op, Fine, n
  <2>. QED  BY <2>1, <2>4
<1>5. h[n] \in I[n]
  <2>. HIDE DEF n, Op, base, D, I, Fine, Prefix
  <2>1. (\A f, i : Step(f, i) = Op(f[i - 1], post[i])) /\ \A x \in D, i \in 1..n : G[<<x, i>>] = Op(x, post[i])
    OBVIOUS
  <2>2. Invariant(D, I, base, n, G)
    <3>1. ASSUME NEW i \in 1..n, NEW x \in I[i - 1] PROVE G[<<x, i>>] \in I[i]
      <4>1. i - 1 \in 0..n
        BY <1>3
      <4>2. x \in D
        BY <1>3, <4>1
      <4>. QED  BY <1>4, <2>1, <4>2
    <3>. QED  BY <1>3, <3>1 DEF Invariant
  <2>. HIDE DEF Step, G
  <2>3. PICK g \in [0..n -> D] : /\ g[0] = base /\ \A i \in 1..n : g[i] = G[<<g[i - 1], i>>]
                                /\ \A i \in 0..n : g[i] \in I[i]
    <3>1. Folding(D, I, base, n, G)
      BY InvariantHolds
    <3>. QED  BY <2>2, <3>1 DEF Folding
  <2>4. \A i \in 1..n : g[i] = Step(g, i)
    <3>. TAKE i \in 1..n
    <3>1. i - 1 \in 0..n
      BY <1>3
    <3>. QED  BY <2>1, <2>3, <3>1
  <2>5. IsFold(g)
    <3>1. \A i \in 0..n : i = 0 \/ i \in 1..n
      BY <1>3
    <3>. QED  BY <2>3, <2>4, <3>1
  <2>6. IsFold(h)
    <3>. HIDE DEF IsFold
    <3>. QED  BY <2>5
  <2>. HIDE DEF h
  <2>7. h[0] = base /\ \A i \in 1..n : h[i] = Op(h[i - 1], post[i])
    <3>1. \A i \in 0..n : h[i] = IF i = 0 THEN base ELSE Step(h, i)
      BY <2>6
    <3>2. 0 \in 0..n /\ \A i \in 1..n : i \in 0..n /\ i # 0
      BY <1>3
    <3>. QED  BY <2>1, <3>1, <3>2
  <2>8. Carried(n, {i \in 0..n : h[i] = g[i]})
    BY Induction
  <2>9. 0..n \subseteq {i \in 0..n : h[i] = g[i]}
    <3>1. ASSUME NEW i \in 1..n, h[i - 1] = g[i - 1] PROVE h[i] = g[i]
      <4>1. h[i] = Op(h[i - 1], post[i]) /\ g[i] = Op(g[i - 1], post[i])
        BY <2>1, <2>4, <2>7
      <4>. QED  BY <3>1, <4>1
    <3>2. 0 \in 0..n /\ \A i \in 1..n : i \in 0..n
      BY <1>3
    <3>. QED  BY <1>3, <2>3, <2>7, <2>8, <3>1, <3>2 DEF Carried
  <2>. QED  BY <1>3, <2>3, <2>9
<1>6. Fine(h[n], n)
  <2>1. n \in 0..n
    BY <1>3
  <2>. HIDE DEF h, n, base, D, Op, Fine
  <2>. QED  BY <1>5, <2>1
<1>. HIDE DEF h, n, base
<1>. QED  BY <1>1, <1>2, <1>6

\* A supernode, its last vertex, and the column of that vertex, which is the
\* separator and lies in the clique of the parent.
Node(ix, u) == {v \in Vertices : Representative(ix, v) = u}
Leaving(L, parent, ix, pr, u, m) ==
  /\ m \in Node(ix, u) /\ u \in Node(ix, u) /\ \A x \in Node(ix, u) : u <= x /\ x <= m
  /\ L[u] \ Node(ix, u) = L[m]
  /\ m = Order - 1 => pr[u] = NoParent
  /\ m # Order - 1 =>
       LET p == parent[m]  q == Representative(ix, p) IN
       /\ q \in Vertices /\ q # u /\ pr[u] = q /\ ix[q] < 0 /\ m < p /\ p \in Node(ix, q)
       /\ L[m] \subseteq Node(ix, q) \cup L[q]
       /\ ~ (Node(ix, q) \cup L[q] \subseteq L[m])

\* A supernode, seen from its representative: its separator is the column of its
\* last vertex, and lies in the clique of the parent but is not all of it.
LEMMA SupernodeIs ==
  ASSUME NEW L, NEW parent, ETree(L, parent), NEW ix, NEW pr, Grouped(L, parent, Vertices, Vertices, ix, pr),
         NEW u \in Vertices, ix[u] < 0
  PROVE  \E m \in Vertices : Leaving(L, parent, ix, pr, u, m)
<1>. DEFINE R(x) == Representative(ix, x)
            S == Node(ix, u)
            m == Greatest(S)
<1>0. Vertices \in SUBSET Nat /\ Order - 1 \in Vertices /\ \A v \in Vertices : v <= Order - 1
  BY Naturals
<1>1. ASSUME NEW x \in Vertices
      PROVE  /\ R(x) \in Vertices /\ R(x) <= x /\ (ix[x] < 0 <=> R(x) = x)
             /\ (ix[x] >= 0 => R(x) = ix[x] /\ ix[ix[x]] < -1) /\ ix[R(x)] < 0 /\ ix[x] \in Int
  <2>1. ix[x] \in Int
    BY DEF Grouped
  <2>. QED  BY <2>1, RepresentativesOf
<1>2. u \in S /\ S \in SUBSET Vertices /\ \A x \in S : u <= x /\ R(x) = u
  BY <1>1 DEF Node
<1>3. m \in S /\ \A x \in S : x <= m
  <2>1. S \in SUBSET (0..(Order - 1)) /\ S # {} /\ Order - 1 \in Nat
    BY <1>0, <1>2 DEF Vertices
  <2>. HIDE DEF S
  <2>. QED  BY <2>1, GreatestIs
<1>. HIDE DEF m
<1>4. m \in Vertices /\ R(m) = u /\ m \in Nat
  BY <1>0, <1>2, <1>3
<1>5. ASSUME m # u
      PROVE  L[m] \subseteq L[u] /\ \A z \in L[u] : z \in L[m] \/ (z <= m /\ R(z) = u)
  <2>1. ix[m] >= 0 /\ ix[m] = u
    BY <1>1, <1>4, <1>5
  <2>. QED  BY <1>4, <2>1 DEF Grouped, Absorbed
<1>6. L[u] \ S = L[m]
  <2>1. \A z \in L[m] : z \in Vertices /\ m < z /\ z \notin S
    <3>. TAKE z \in L[m]
    <3>1. z \in Vertices /\ m < z
      BY <1>4 DEF ETree
    <3>. QED  BY <1>0, <1>3, <1>4, <3>1
  <2>2. ASSUME NEW z \in L[u], z \notin S PROVE z \in L[m]
    <3>1. z \in Vertices /\ R(z) # u
      BY <2>2 DEF ETree, Node
    <3>. QED  BY <1>5, <3>1
  <2>3. L[m] \subseteq L[u]
    BY <1>5
  <2>. QED  BY <2>1, <2>2, <2>3
<1>7. ASSUME NEW w \in Vertices, Leaves(parent, ix, w), R(w) = u PROVE w = m
  <2>1. w \in S /\ w # Order - 1 /\ w <= m /\ w \in Nat
    BY <1>0, <1>3, <1>7 DEF Leaves, Node
  <2>2. CASE w < m
    <3>1. R(parent[w]) = R(w)
      BY <1>4, <1>7, <2>2 DEF Grouped, Chained
    <3>. QED  BY <1>7, <3>1 DEF Leaves
  <2>. QED  BY <1>4, <2>1, <2>2
<1>8. ASSUME m = Order - 1 PROVE pr[u] = NoParent
  <2>. SUFFICES ASSUME pr[u] # NoParent PROVE FALSE
    OBVIOUS
  <2>1. PICK w \in Vertices : Leaves(parent, ix, w) /\ R(w) = u
    BY DEF Grouped
  <2>. QED  BY <1>7, <1>8, <2>1 DEF Leaves
<1>. DEFINE p == parent[m]
            q == R(p)
<1>9. ASSUME m # Order - 1
      PROVE  /\ q \in Vertices /\ q # u /\ pr[u] = q /\ ix[q] < 0 /\ m < p /\ p \in Node(ix, q)
             /\ L[m] \subseteq Node(ix, q) \cup L[q]
             /\ ~ (Node(ix, q) \cup L[q] \subseteq L[m])
  <2>1. p \in Vertices /\ m < p /\ p \in L[m] /\ p \in Nat /\ \A w \in L[m] : p <= w /\ (w # p => w \in L[p])
    BY <1>0, <1>4, <1>9 DEF ETree
  <2>2. q \in Vertices /\ q <= p /\ ix[q] < 0 /\ R(q) = q
    BY <1>1, <2>1
  <2>3. p \in Node(ix, q)
    BY <2>1 DEF Node
  <2>4. q # u
    <3>. SUFFICES ASSUME q = u PROVE FALSE
      OBVIOUS
    <3>1. p \in S /\ p <= m
      BY <1>3, <2>3
    <3>. QED  BY <1>4, <2>1, <3>1
  <2>5. Leaves(parent, ix, m)
    BY <1>4, <1>9, <2>4 DEF Leaves
  <2>6. pr[u] = q
    BY <1>4, <2>1, <2>5 DEF Grouped
  <2>7. L[p] \subseteq L[q]
    <3>1. CASE ix[p] < 0
      BY <1>1, <2>1, <3>1
    <3>2. CASE ix[p] >= 0
      <4>1. Absorbed(L, parent, Vertices, ix, p) /\ q = ix[p]
        BY <1>1, <2>1, <3>2 DEF Grouped
      <4>. QED  BY <4>1 DEF Absorbed
    <3>. QED  BY <1>1, <2>1, <3>1, <3>2
  <2>8. L[m] \subseteq Node(ix, q) \cup L[q]
    BY <2>1, <2>3, <2>7
  <2>9. ASSUME Node(ix, q) \cup L[q] \subseteq L[m] PROVE FALSE
    <3>1. q \in L[m]
      BY <2>2, <2>9 DEF Node
    <3>2. q = p
      <4>1. p <= q /\ q <= p /\ q \in Nat
        BY <1>0, <2>1, <2>2, <3>1
      <4>. QED  BY <2>1, <4>1
    <3>3. Fits(L, parent, m)
      BY <2>1, <2>9, <3>2 DEF Fits
    <3>4. ix[p] >= 0
      BY <1>4, <2>5, <3>3 DEF Grouped
    <3>. QED  BY <1>1, <2>1, <2>2, <3>2, <3>4
  <2>. QED  BY <2>1, <2>2, <2>3, <2>4, <2>6, <2>8, <2>9
<1>10. Leaving(L, parent, ix, pr, u, m)
  BY <1>2, <1>3, <1>6, <1>8, <1>9 DEF Leaving
<1>. QED  BY <1>4, <1>10

-----------------------------------------------------------------------------
(* Junction trees                                                           *)

Junction(K, S, P, up) ==
  /\ Order \in Nat \ {0} /\ K \in SUBSET Nat /\ IsFiniteSet(K)
  /\ S \in [K -> SUBSET Vertices] /\ P \in [K -> SUBSET Vertices] /\ up \in [K -> Int]
  /\ \A v \in Vertices : \E c \in K : v \in S[c]
  /\ \A c, d \in K : c # d => S[c] \cap S[d] = {}
  /\ \E r \in K : \A c \in K : up[c] = NoParent <=> c = r
  /\ \A c \in K : /\ up[c] = Inactive <=> S[c] = {}
                  /\ up[c] \in {NoParent, Inactive} => P[c] = {}
                  /\ \A x \in S[c], y \in P[c] : x < y
                  /\ up[c] \notin {NoParent, Inactive} =>
                       /\ up[c] \in K /\ up[up[c]] # Inactive
                       /\ P[c] \subseteq S[up[c]] \cup P[up[c]]
                       /\ ~ (S[up[c]] \cup P[up[c]] \subseteq P[c])
                       /\ \A v \in S[c] : \E w \in S[up[c]] : v < w

\* The numbers of the cliques shrink towards the root.
LEMMA Ranked ==
  ASSUME NEW K, NEW S, NEW P, NEW up, Junction(K, S, P, up)
  PROVE  \E rank \in [K -> Nat] : \A c \in K : up[c] \notin {NoParent, Inactive} => up[c] \in K /\ rank[up[c]] < rank[c]
<1>. DEFINE top(c) == Greatest(S[c])
            rank == [c \in K |-> IF S[c] = {} THEN 0 ELSE Order - top(c)]
<1>1. ASSUME NEW c \in K, S[c] # {} PROVE top(c) \in S[c] /\ top(c) \in 0..(Order - 1) /\ \A x \in S[c] : x <= top(c)
  <2>1. S[c] \in SUBSET (0..(Order - 1)) /\ Order - 1 \in Nat
    BY DEF Junction, Vertices
  <2>. HIDE DEF top
  <2>2. top(c) \in S[c] /\ \A x \in S[c] : x <= top(c)
    BY <1>1, <2>1, GreatestIs DEF top
  <2>. QED  BY <2>1, <2>2
<1>. HIDE DEF top
<1>2. rank \in [K -> Nat] /\ \A c \in K : S[c] # {} => rank[c] = Order - top(c)
  <2>1. \A c \in K : S[c] # {} => Order - top(c) \in Nat
    BY <1>1 DEF Junction
  <2>. QED  BY <2>1
<1>3. ASSUME NEW c \in K, up[c] \notin {NoParent, Inactive}
      PROVE  up[c] \in K /\ rank[up[c]] < rank[c]
  <2>. DEFINE p == up[c]
  <2>1. p \in K /\ S[p] # {} /\ S[c] # {} /\ \A v \in S[c] : \E w \in S[p] : v < w
    BY <1>3 DEF Junction
  <2>2. PICK w \in S[p] : top(c) < w
    BY <1>1, <2>1
  <2>3. w <= top(p) /\ top(p) \in Int /\ top(c) \in Int /\ w \in Int
    BY <1>1, <2>1 DEF Junction, Vertices
  <2>. HIDE DEF p, rank
  <2>4. rank[p] < rank[c]
    BY <1>2, <2>1, <2>2, <2>3 DEF Junction
  <2>. QED  BY <2>1, <2>4 DEF p
<1>. HIDE DEF rank
<1>. QED  BY <1>2, <1>3

\* Among some cliques there is one whose parent is not among them.
LEMMA Topmost ==
  ASSUME NEW K, NEW S, NEW P, NEW up, Junction(K, S, P, up), NEW B \in SUBSET K, B # {}
  PROVE  \E b \in B : up[b] \notin B
<1>1. PICK rank \in [K -> Nat] : \A c \in K : up[c] \notin {NoParent, Inactive} => up[c] \in K /\ rank[up[c]] < rank[c]
  BY Ranked
<1>. DEFINE T == {rank[b] : b \in B}
<1>2. T \in SUBSET Nat /\ T # {}
  BY <1>1
<1>3. PICK m \in T : \A k \in Nat : k < m => k \notin T
  <2>. HIDE DEF T
  <2>. QED  BY <1>2, LeastMember
<1>4. PICK b \in B : m = rank[b]
  BY <1>3
<1>5. ASSUME up[b] \in B PROVE FALSE
  <2>1. up[b] \notin {NoParent, Inactive}
    BY <1>5 DEF NoParent, Inactive, Junction
  <2>2. rank[up[b]] < rank[b] /\ rank[up[b]] \in T /\ rank[up[b]] \in Nat
    BY <1>1, <1>5, <2>1
  <2>. QED  BY <1>3, <1>4, <2>2
<1>. QED  BY <1>4, <1>5

\* The parent of a clique that has the vertex of another's supernode.
LEMMA Shared ==
  ASSUME NEW K, NEW S, NEW P, NEW up, Junction(K, S, P, up), NEW c \in K, NEW d \in K, c # d,
         NEW x \in S[c], x \in S[d] \cup P[d]
  PROVE  /\ x \in P[d] /\ up[d] \in K /\ up[d] \notin {NoParent, Inactive} /\ S[d] # {}
         /\ P[d] \subseteq S[up[d]] \cup P[up[d]]
         /\ \A y \in S[d] : y < x
<1>1. x \in P[d]
  BY DEF Junction
<1>2. up[d] \notin {NoParent, Inactive}
  BY <1>1 DEF Junction
<1>. QED  BY <1>1, <1>2 DEF Junction

\* What a clique shares with its parent.
LEMMA SeparatorIs ==
  ASSUME NEW K, NEW S, NEW P, NEW up, Junction(K, S, P, up), NEW c \in K, up[c] \notin {NoParent, Inactive}
  PROVE  /\ up[c] \in K /\ up[c] # c
         /\ P[c] = (S[c] \cup P[c]) \cap (S[up[c]] \cup P[up[c]])
         /\ P[c] \cap S[c] = {}
<1>. DEFINE p == up[c]
<1>0. p \in K /\ P[c] \subseteq S[p] \cup P[p] /\ \A v \in S[c] : \E w \in S[p] : v < w
  BY DEF Junction
<1>1. p # c
  <2>1. PICK rank \in [K -> Nat] : \A d \in K : up[d] \notin {NoParent, Inactive} => up[d] \in K /\ rank[up[d]] < rank[d]
    BY Ranked
  <2>. QED  BY <2>1
<1>2. \A d \in K : S[d] \in SUBSET Nat /\ P[d] \in SUBSET Nat /\ \A x \in S[d], y \in P[d] : x < y
  BY DEF Junction, Vertices
<1>. HIDE DEF p
<1>3. ASSUME NEW x \in S[c], x \in S[p] \cup P[p] PROVE FALSE
  <2>1. x \in P[p]
    BY <1>0, <1>1, <1>3 DEF Junction
  <2>2. PICK w \in S[p] : x < w
    BY <1>0
  <2>3. w < x /\ w \in Nat /\ x \in Nat
    BY <1>0, <1>2, <2>1
  <2>. QED  BY <2>2, <2>3
<1>4. P[c] \cap S[c] = {}
  BY <1>2
<1>. QED  BY <1>0, <1>1, <1>3, <1>4 DEF p

\* Cliques that share two vertices share them with the supernode of the lower one.
LEMMA Between ==
  ASSUME NEW K, NEW S, NEW P, NEW up, Junction(K, S, P, up), NEW c \in K, NEW d \in K,
         NEW x \in S[c], NEW e, x < e, {x, e} \subseteq S[d] \cup P[d]
  PROVE  e \in S[c] \cup P[c]
<1>. DEFINE B == {b \in K : {x, e} \subseteq S[b] \cup P[b]}
<1>1. d \in B /\ B \in SUBSET K
  OBVIOUS
<1>2. PICK b \in B : up[b] \notin B
  <2>. HIDE DEF B
  <2>. QED  BY <1>1, Topmost
<1>3. ASSUME b # c PROVE FALSE
  <2>1. /\ x \in P[b] /\ up[b] \in K /\ P[b] \subseteq S[up[b]] \cup P[up[b]] /\ \A y \in S[b] : y < x
    BY <1>2, <1>3, Shared
  <2>2. e \notin S[b]
    <3>1. x \in Nat /\ e \in Nat
      BY <1>2 DEF Junction, Vertices
    <3>. QED  BY <2>1, <3>1
  <2>3. e \in P[b]
    BY <1>2, <2>2
  <2>. QED  BY <1>2, <2>1, <2>3
<1>. QED  BY <1>2, <1>3

\* No clique is part of another.
LEMMA Maximal ==
  ASSUME NEW K, NEW S, NEW P, NEW up, Junction(K, S, P, up), NEW a \in K, NEW d \in K,
         S[a] # {}, S[a] \cup P[a] \subseteq S[d] \cup P[d]
  PROVE  a = d
<1>. SUFFICES ASSUME a # d PROVE FALSE
  OBVIOUS
<1>. DEFINE B == {b \in K \ {a} : S[a] \cup P[a] \subseteq S[b] \cup P[b]}
<1>1. d \in B /\ B \in SUBSET K
  OBVIOUS
<1>2. PICK b \in B : up[b] \notin B
  <2>. HIDE DEF B
  <2>. QED  BY <1>1, Topmost
<1>3. PICK x : x \in S[a]
  OBVIOUS
<1>4. /\ up[b] \in K /\ up[b] \notin {NoParent, Inactive}
      /\ P[b] \subseteq S[up[b]] \cup P[up[b]] /\ \A y \in S[b] : y < x
  BY <1>2, <1>3, Shared
<1>5. S[a] \subseteq P[b]
  BY <1>2, Shared
<1>6. P[a] \subseteq P[b]
  <2>. SUFFICES ASSUME NEW y \in P[a], y \in S[b] PROVE FALSE
    BY <1>2
  <2>1. x < y
    BY <1>3 DEF Junction
  <2>2. y < x /\ x \in Nat /\ y \in Nat
    BY <1>2, <1>3, <1>4 DEF Junction, Vertices
  <2>. QED  BY <2>1, <2>2
<1>7. up[b] = a
  BY <1>2, <1>4, <1>5, <1>6
<1>8. ~ (S[a] \cup P[a] \subseteq P[b])
  BY <1>2, <1>4, <1>7 DEF Junction
<1>. QED  BY <1>5, <1>6, <1>8

-----------------------------------------------------------------------------
(* The first clique tree                                                    *)

\* A walk of the clique tree visits every clique before its parent.
LEMMA JunctionPosted ==
  ASSUME NEW K, NEW S, NEW P, NEW up, Junction(K, S, P, up), NEW children \in [K -> Seq(K)],
         \A p \in K : Elems(children[p]) = {c \in K : up[c] = p}
  PROVE  \E r \in K : up[r] = NoParent /\ Posted(K, up, r, PostOrder(up, children))
<1>1. PICK rank \in [K -> Nat] : \A c \in K : up[c] \notin {NoParent, Inactive} => up[c] \in K /\ rank[up[c]] < rank[c]
  BY Ranked
<1>2. PICK r \in K : \A c \in K : up[c] = NoParent <=> c = r
  BY DEF Junction
<1>3. Hanging(K, up, children, r, rank)
  BY <1>1, <1>2 DEF Hanging, Junction
<1>4. Posted(K, up, r, PostOrder(up, children))
  BY <1>3, PostOrderIs
<1>. QED  BY <1>2, <1>4

Trees(K) ==
  [snode : [K -> Seq(Vertices)], parent : [K -> Int], children : [K -> Seq(K)], snodePost : Seq(K),
   post : Seq(Vertices), separators : [K -> Seq(Vertices)], nCliques : Nat, nblk : Seq(Nat)]
Members(f) == [c \in DOMAIN f |-> Elems(f[c])]
Well(t) ==
  /\ t \in Trees(DOMAIN t.snode)
  /\ Junction(DOMAIN t.snode, Members(t.snode), Members(t.separators), t.parent)
  /\ \A c \in DOMAIN t.snode : Distinct(t.snode[c]) /\ Distinct(t.separators[c])
  /\ \A p \in DOMAIN t.snode : Elems(t.children[p]) = {c \in DOMAIN t.snode : t.parent[c] = p}
  /\ t.nCliques = Cardinality({c \in DOMAIN t.snode : t.snode[c] # <<>>})
InPostOrder(t) ==
  \E r \in DOMAIN t.snode : t.parent[r] = NoParent /\ Posted(DOMAIN t.snode, t.parent, r, t.snodePost)
Together(t, v, w) ==
  \E c \in DOMAIN t.snode : t.snode[c] # <<>> /\ {v, w} \subseteq Elems(t.snode[c]) \cup Elems(t.separators[c])

\* The vertices of the cone.
LEMMA FiniteVertices ==
  ASSUME Order \in Nat \ {0}
  PROVE  IsFiniteSet(Vertices) /\ Cardinality(Vertices) = Order /\ Vertices \in SUBSET Nat
         /\ \A X \in SUBSET Vertices : IsFiniteSet(X) /\ X \in SUBSET Nat
<1>1. IsFiniteSet(Vertices) /\ Cardinality(Vertices) = Order
  <2>1. Order - 1 \in Int /\ 0 \in Int /\ Order - 1 - 0 + 1 = Order /\ ~ (0 > Order - 1)
    OBVIOUS
  <2>2. IsFiniteSet(0..(Order - 1)) /\ Cardinality(0..(Order - 1)) = Order - 1 - 0 + 1
    BY <2>1, FS_Interval
  <2>. QED  BY <2>1, <2>2 DEF Vertices
<1>2. Vertices \in SUBSET Nat
  BY DEF Vertices
<1>. QED  BY <1>1, <1>2, FS_Subset

\* Supernodes K, numbered by their representatives reps.
Numbered(L, parent, ix, pr, reps, K, S, P, up) ==
  /\ ETree(L, parent) /\ Grouped(L, parent, Vertices, Vertices, ix, pr)
  /\ reps \in Seq(Vertices) /\ Distinct(reps) /\ Elems(reps) = {v \in Vertices : ix[v] < 0}
  /\ K = 0..(Len(reps) - 1)
  /\ S \in [K -> SUBSET Vertices] /\ P \in [K -> SUBSET Vertices] /\ up \in [K -> Int]
  /\ \A c \in K : S[c] = Node(ix, reps[c + 1]) /\ P[c] = L[reps[c + 1]] \ Node(ix, reps[c + 1])
  /\ \A c \in K : \/ pr[reps[c + 1]] = NoParent /\ up[c] = NoParent
                  \/ up[c] \in K /\ reps[up[c] + 1] = pr[reps[c + 1]]
\* All of them are active, and the factor lies within them.
Complete(L, K, S, P, up) ==
  /\ Junction(K, S, P, up)
  /\ \A c \in K : S[c] # {} /\ up[c] # Inactive
  /\ \A v \in Vertices : \A w \in L[v] \cup {v} : \E c \in K : {v, w} \subseteq S[c] \cup P[c]

\* The parts of the first tree.
LEMMA FirstJunction ==
  ASSUME NEW L, NEW parent, NEW ix, NEW pr, NEW reps, NEW K, NEW S, NEW P, NEW up,
         Numbered(L, parent, ix, pr, reps, K, S, P, up)
  PROVE  Complete(L, K, S, P, up)
<1>. ETree(L, parent) /\ Grouped(L, parent, Vertices, Vertices, ix, pr)
  BY DEF Numbered
<1>. /\ reps \in Seq(Vertices) /\ Distinct(reps) /\ Elems(reps) = {v \in Vertices : ix[v] < 0}
     /\ K = 0..(Len(reps) - 1)
     /\ S \in [K -> SUBSET Vertices] /\ P \in [K -> SUBSET Vertices] /\ up \in [K -> Int]
     /\ \A c \in K : S[c] = Node(ix, reps[c + 1]) /\ P[c] = L[reps[c + 1]] \ Node(ix, reps[c + 1])
     /\ \A c \in K : \/ pr[reps[c + 1]] = NoParent /\ up[c] = NoParent
                     \/ up[c] \in K /\ reps[up[c] + 1] = pr[reps[c + 1]]
  BY DEF Numbered
<1>0. /\ Order \in Nat \ {0} /\ Vertices \in SUBSET Nat /\ Order - 1 \in Vertices
      /\ L \in [Vertices -> SUBSET Vertices] /\ ix \in [Vertices -> Int]
  <2>1. Vertices \in SUBSET Nat /\ Order - 1 \in Vertices
    BY Naturals
  <2>. QED  BY <2>1 DEF ETree, Grouped
<1>1. /\ K \in SUBSET Nat /\ IsFiniteSet(K) /\ Len(reps) \in Nat
      /\ \A c \in K : c + 1 \in 1..Len(reps) /\ reps[c + 1] \in Vertices /\ ix[reps[c + 1]] < 0
  <2>1. Len(reps) \in Nat /\ DOMAIN reps = 1..Len(reps)
    OBVIOUS
  <2>2. IsFiniteSet(0..(Len(reps) - 1))
    BY <2>1, FS_Interval
  <2>3. \A c \in K : c + 1 \in 1..Len(reps)
    BY <2>1
  <2>4. \A c \in K : reps[c + 1] \in Elems(reps)
    BY <2>1, <2>3 DEF Elems
  <2>. QED  BY <2>1, <2>2, <2>3, <2>4
<1>2. ASSUME NEW u \in Vertices, ix[u] < 0 PROVE \E c \in K : reps[c + 1] = u
  <2>0. u \in Elems(reps) /\ DOMAIN reps = 1..Len(reps)
    BY <1>2
  <2>1. PICK i \in 1..Len(reps) : reps[i] = u
    BY <2>0 DEF Elems
  <2>2. i - 1 \in K /\ (i - 1) + 1 = i
    BY <1>1, <2>1
  <2>. QED  BY <2>1, <2>2
<1>3. \A c, d \in K : reps[c + 1] = reps[d + 1] => c = d
  <2>. SUFFICES ASSUME NEW c \in K, NEW d \in K, reps[c + 1] = reps[d + 1] PROVE c = d
    OBVIOUS
  <2>1. c + 1 \in DOMAIN reps /\ d + 1 \in DOMAIN reps
    BY <1>1
  <2>2. c + 1 = d + 1
    BY <2>1 DEF Distinct
  <2>. QED  BY <1>1, <2>2
<1>4. ASSUME NEW c \in K
      PROVE  /\ S[c] \in SUBSET Vertices /\ P[c] \in SUBSET Vertices /\ reps[c + 1] \in S[c]
             /\ S[c] = Node(ix, reps[c + 1]) /\ S[c] \cup P[c] = Node(ix, reps[c + 1]) \cup L[reps[c + 1]]
             /\ \E m \in Vertices : Leaving(L, parent, ix, pr, reps[c + 1], m) /\ P[c] = L[m]
  <2>1. PICK m \in Vertices : Leaving(L, parent, ix, pr, reps[c + 1], m)
    BY <1>1, SupernodeIs
  <2>. QED  BY <1>0, <1>1, <2>1 DEF Leaving, Node
<1>5. ASSUME NEW v \in Vertices
      PROVE  \E c \in K : reps[c + 1] = Representative(ix, v) /\ v \in S[c]
  <2>1. Representative(ix, v) \in Vertices /\ ix[Representative(ix, v)] < 0
    BY RepresentativesOf
  <2>2. PICK c \in K : reps[c + 1] = Representative(ix, v)
    BY <1>2, <2>1
  <2>. QED  BY <1>4, <2>2 DEF Node
<1>6. \A c, d \in K : c # d => S[c] \cap S[d] = {}
  BY <1>3, <1>4 DEF Node
<1>7. ASSUME NEW c \in K, NEW m \in Vertices, Leaving(L, parent, ix, pr, reps[c + 1], m), P[c] = L[m]
      PROVE  /\ up[c] = NoParent <=> m = Order - 1
             /\ up[c] # NoParent =>
                  /\ up[c] \in K /\ m < parent[m] /\ parent[m] \in S[up[c]]
                  /\ P[c] \subseteq S[up[c]] \cup P[up[c]] /\ ~ (S[up[c]] \cup P[up[c]] \subseteq P[c])
  <2>1. CASE m = Order - 1
    <3>1. pr[reps[c + 1]] = NoParent
      BY <1>7, <2>1 DEF Leaving
    <3>2. ~ (up[c] \in K /\ reps[up[c] + 1] = NoParent)
      BY <1>0, <1>1 DEF NoParent
    <3>. QED  BY <2>1, <3>1, <3>2
  <2>2. CASE m # Order - 1
    <3>. DEFINE p == parent[m]
                q == Representative(ix, p)
    <3>1. /\ q \in Vertices /\ pr[reps[c + 1]] = q /\ m < p /\ p \in Node(ix, q)
          /\ L[m] \subseteq Node(ix, q) \cup L[q] /\ ~ (Node(ix, q) \cup L[q] \subseteq L[m])
      BY <1>7, <2>2 DEF Leaving
    <3>. HIDE DEF p, q
    <3>2. q # NoParent
      BY <1>0, <3>1 DEF NoParent
    <3>3. up[c] \in K /\ reps[up[c] + 1] = q /\ up[c] # NoParent
      <4>1. up[c] \in K /\ reps[up[c] + 1] = q
        BY <3>1, <3>2 DEF Numbered
      <4>. QED  BY <1>1, <4>1 DEF NoParent
    <3>4. S[up[c]] = Node(ix, q) /\ S[up[c]] \cup P[up[c]] = Node(ix, q) \cup L[q]
      BY <1>4, <3>3
    <3>. QED  BY <1>7, <2>2, <3>1, <3>3, <3>4 DEF p, q
  <2>. QED  BY <2>1, <2>2
<1>8. ASSUME NEW c \in K
      PROVE  /\ up[c] # Inactive /\ S[c] # {}
             /\ up[c] = NoParent => P[c] = {} /\ Order - 1 \in S[c]
             /\ up[c] # NoParent => Order - 1 \notin S[c]
             /\ \A x \in S[c], y \in P[c] : x < y
             /\ up[c] # NoParent =>
                  /\ up[c] \in K
                  /\ P[c] \subseteq S[up[c]] \cup P[up[c]]
                  /\ ~ (S[up[c]] \cup P[up[c]] \subseteq P[c])
                  /\ \A v \in S[c] : \E w \in S[up[c]] : v < w
  <2>1. PICK m \in Vertices : Leaving(L, parent, ix, pr, reps[c + 1], m) /\ P[c] = L[m]
    BY <1>4
  <2>2. /\ up[c] = NoParent <=> m = Order - 1
        /\ up[c] # NoParent =>
             /\ up[c] \in K /\ m < parent[m] /\ parent[m] \in S[up[c]]
             /\ P[c] \subseteq S[up[c]] \cup P[up[c]] /\ ~ (S[up[c]] \cup P[up[c]] \subseteq P[c])
    BY <1>7, <2>1
  <2>3. m \in S[c] /\ (\A x \in S[c] : x \in Nat /\ x <= m) /\ m \in Nat
    BY <1>0, <1>4, <2>1 DEF Leaving
  <2>4. \A y \in P[c] : m < y /\ y \in Nat
    BY <1>0, <2>1 DEF ETree
  <2>5. \A x \in S[c], y \in P[c] : x < y
    BY <2>3, <2>4
  <2>6. up[c] # Inactive
    BY <1>1, <2>2 DEF NoParent, Inactive
  <2>7. up[c] = NoParent => P[c] = {} /\ Order - 1 \in S[c]
    BY <2>1, <2>2, <2>3 DEF ETree
  <2>8. up[c] # NoParent => Order - 1 \notin S[c]
    <3>1. \A x \in Vertices : x <= Order - 1
      BY Naturals
    <3>2. ASSUME Order - 1 \in S[c] PROVE m = Order - 1
      BY <1>0, <2>3, <3>1, <3>2
    <3>. QED  BY <2>2, <3>2
  <2>9. up[c] # NoParent => \A v \in S[c] : v < parent[m] /\ parent[m] \in S[up[c]]
    <3>1. up[c] # NoParent => parent[m] \in Nat
      BY <1>0, <1>4, <2>2
    <3>. QED  BY <2>2, <2>3, <3>1
  <2>. QED  BY <2>2, <2>3, <2>5, <2>6, <2>7, <2>8, <2>9
<1>9. \E r \in K : \A c \in K : up[c] = NoParent <=> c = r
  <2>1. PICK r \in K : Order - 1 \in S[r]
    BY <1>0, <1>5
  <2>2. \A c \in K : Order - 1 \in S[c] => c = r
    BY <1>6, <2>1
  <2>. QED  BY <1>8, <2>1, <2>2
<1>10. Junction(K, S, P, up)
  <2>1. S \in [K -> SUBSET Vertices] /\ P \in [K -> SUBSET Vertices]
    BY <1>4
  <2>2. \A v \in Vertices : \E c \in K : v \in S[c]
    BY <1>5
  <2>3. \A c \in K : /\ up[c] = Inactive <=> S[c] = {}
                     /\ up[c] \in {NoParent, Inactive} => P[c] = {}
    BY <1>8
  <2>4. \A c \in K : up[c] \notin {NoParent, Inactive} => up[up[c]] # Inactive
    BY <1>8
  <2>. QED  BY <1>0, <1>1, <1>6, <1>8, <1>9, <2>1, <2>2, <2>3, <2>4 DEF Junction
<1>11. ASSUME NEW v \in Vertices, NEW w \in L[v] \cup {v}
       PROVE  \E c \in K : {v, w} \subseteq S[c] \cup P[c]
  <2>1. PICK c \in K : reps[c + 1] = Representative(ix, v) /\ v \in S[c]
    BY <1>5
  <2>2. L[v] \subseteq L[reps[c + 1]]
    <3>1. /\ (ix[v] < 0 <=> Representative(ix, v) = v)
          /\ (ix[v] >= 0 => Representative(ix, v) = ix[v])
      BY RepresentativesOf
    <3>2. CASE ix[v] < 0
      BY <2>1, <3>1, <3>2
    <3>3. CASE ix[v] >= 0
      BY <2>1, <3>1, <3>3 DEF Grouped, Absorbed
    <3>. QED  BY <1>0, <3>2, <3>3
  <2>. QED  BY <1>4, <2>1, <2>2
<1>. QED  BY <1>8, <1>10, <1>11 DEF Complete

\* SuperNodeTree::new: from an elimination tree and its supernodes, a clique tree
\* in post order, in which every entry of the factor lies in one clique.
LEMMA NewTreeIs ==
  ASSUME NEW L, NEW parent, ETree(L, parent), NEW ps, Grouped(L, parent, Vertices, Vertices, ps.index, ps.par),
         NEW post \in Seq(Vertices)
  PROVE  LET t == NewTree(L, post, ps) IN
         /\ Well(t) /\ InPostOrder(t) /\ \A c \in DOMAIN t.snode : t.snode[c] # <<>>
         /\ \A v \in Vertices : \A w \in L[v] \cup {v} : Together(t, v, w)
<1>. DEFINE ix == ps.index
            pr == ps.par
            R == {v \in DOMAIN L : ps.index[v] < 0}
            reps == Ascending(R)
            K == 0..(Len(reps) - 1)
            Number(v) == CHOOSE i \in K : reps[i + 1] = v
            snode == [c \in K |-> Ascending({v \in DOMAIN L : Representative(ps.index, v) = reps[c + 1]})]
            up == [c \in K |-> IF Has(reps, ps.par[reps[c + 1]]) THEN Number(ps.par[reps[c + 1]]) ELSE NoParent]
            children == ChildrenFromParent(up)
            seps == [c \in K |-> Ascending(L[Least(Elems(snode[c]))] \ Elems(snode[c]))]
            t == [snode |-> snode, parent |-> up, children |-> children,
                  snodePost |-> PostOrder(up, children), post |-> post,
                  separators |-> seps, nCliques |-> Len(reps), nblk |-> <<>>]
            S == [c \in K |-> Node(ix, reps[c + 1])]
            P == [c \in K |-> L[reps[c + 1]] \ Node(ix, reps[c + 1])]
<1>0. NewTree(L, post, ps) = t
  BY DEF NewTree
<1>1. /\ Order \in Nat \ {0} /\ DOMAIN L = Vertices /\ L \in [Vertices -> SUBSET Vertices]
      /\ ix \in [Vertices -> Int]
  BY DEF ETree, Grouped
<1>2. Vertices \in SUBSET Nat /\ \A X \in SUBSET Vertices : IsFiniteSet(X) /\ X \in SUBSET Nat
  BY <1>1, FiniteVertices
<1>. HIDE DEF pr
<1>3. /\ reps \in Seq(Vertices) /\ Distinct(reps) /\ Elems(reps) = {v \in Vertices : ix[v] < 0}
      /\ Len(reps) \in Nat /\ DOMAIN reps = 1..Len(reps)
  <2>1. R \in SUBSET Vertices
    BY <1>1
  <2>2. R \in SUBSET Nat /\ IsFiniteSet(R)
    BY <1>2, <2>1
  <2>3. R = {v \in Vertices : ix[v] < 0}
    BY <1>1
  <2>. HIDE DEF R, ix
  <2>4. reps \in Seq(R) /\ Elems(reps) = R /\ Distinct(reps)
    BY <2>2, AscendingIs
  <2>. HIDE DEF reps
  <2>5. reps \in Seq(Vertices)
    BY <2>1, <2>4, SeqGrows
  <2>. QED  BY <2>3, <2>4, <2>5
<1>. HIDE DEF reps
<1>4. \A c \in K : c + 1 \in 1..Len(reps) /\ reps[c + 1] \in Vertices /\ ix[reps[c + 1]] < 0
  <2>1. \A c \in K : c + 1 \in 1..Len(reps)
    BY <1>3
  <2>. QED  BY <1>3, <2>1 DEF Elems
<1>5. ASSUME NEW u \in Elems(reps) PROVE Number(u) \in K /\ reps[Number(u) + 1] = u
  <2>1. PICK i \in 1..Len(reps) : reps[i] = u
    BY <1>3 DEF Elems
  <2>2. i - 1 \in K /\ (i - 1) + 1 = i
    BY <1>3, <2>1
  <2>3. \E j \in K : reps[j + 1] = u
    BY <2>1, <2>2
  <2>. HIDE DEF K
  <2>. QED  BY <2>3
<1>6. ASSUME NEW c \in K
      PROVE  \/ pr[reps[c + 1]] = NoParent /\ up[c] = NoParent
             \/ up[c] \in K /\ reps[up[c] + 1] = pr[reps[c + 1]]
  <2>. DEFINE u == reps[c + 1]
  <2>1. CASE Has(reps, pr[u])
    <3>1. pr[u] \in Elems(reps) /\ up[c] = Number(pr[u])
      BY <2>1 DEF Has, pr
    <3>. HIDE DEF Number, up, u, K
    <3>2. up[c] \in K /\ reps[up[c] + 1] = pr[u]
      BY <1>5, <3>1
    <3>. QED  BY <3>2 DEF u
  <2>2. CASE ~ Has(reps, pr[u])
    <3>1. up[c] = NoParent
      BY <2>2 DEF pr
    <3>2. PICK m \in Vertices : Leaving(L, parent, ix, pr, u, m)
      BY <1>4, SupernodeIs DEF pr
    <3>3. pr[u] = NoParent
      <4>. SUFFICES ASSUME m # Order - 1 PROVE FALSE
        BY <3>2 DEF Leaving
      <4>1. pr[u] \in Vertices /\ ix[pr[u]] < 0
        BY <3>2 DEF Leaving
      <4>. QED  BY <1>3, <2>2, <4>1 DEF Has
    <3>. QED  BY <3>1, <3>3
  <2>. QED  BY <2>1, <2>2
<1>7. up \in [K -> Int]
  <2>1. DOMAIN up = K /\ up = [c \in K |-> up[c]]
    OBVIOUS
  <2>2. \A c \in K : up[c] \in Int
    <3>. TAKE c \in K
    <3>1. up[c] = NoParent \/ up[c] \in K
      BY <1>6
    <3>. HIDE DEF up
    <3>. QED  BY <3>1 DEF NoParent
  <2>. HIDE DEF up, K
  <2>. QED  BY <2>1, <2>2
<1>8. ASSUME NEW c \in K
      PROVE  snode[c] \in Seq(Vertices) /\ Elems(snode[c]) = S[c] /\ Distinct(snode[c])
             /\ seps[c] \in Seq(Vertices) /\ Elems(seps[c]) = P[c] /\ Distinct(seps[c])
  <2>. DEFINE u == reps[c + 1]
  <2>1. Node(ix, u) \in SUBSET Vertices /\ Node(ix, u) = {v \in DOMAIN L : Representative(ps.index, v) = u}
    BY <1>1 DEF Node
  <2>2. snode[c] = Ascending(Node(ix, u))
    BY <2>1
  <2>3. snode[c] \in Seq(Node(ix, u)) /\ Elems(snode[c]) = Node(ix, u) /\ Distinct(snode[c])
    <3>1. Node(ix, u) \in SUBSET Nat /\ IsFiniteSet(Node(ix, u))
      BY <1>2, <2>1
    <3>. HIDE DEF snode, u, ix
    <3>. QED  BY <2>2, <3>1, AscendingIs
  <2>4. Least(Node(ix, u)) = u
    <3>1. u \in Node(ix, u) /\ \A x \in Node(ix, u) : u <= x
      <4>1. PICK m \in Vertices : Leaving(L, parent, ix, pr, u, m)
        BY <1>4, SupernodeIs DEF pr
      <4>. QED  BY <4>1 DEF Leaving
    <3>. HIDE DEF ix, u
    <3>2. Node(ix, u) \in SUBSET Nat /\ Node(ix, u) # {}
      BY <1>2, <2>1, <3>1
    <3>3. Least(Node(ix, u)) \in Node(ix, u) /\ \A x \in Node(ix, u) : Least(Node(ix, u)) <= x
      BY <3>2, LeastIs
    <3>4. Least(Node(ix, u)) <= u /\ u <= Least(Node(ix, u)) /\ u \in Nat /\ Least(Node(ix, u)) \in Nat
      BY <3>1, <3>2, <3>3
    <3>. QED  BY <3>4
  <2>5. seps[c] = Ascending(L[u] \ Node(ix, u))
    <3>1. seps[c] = Ascending(L[Least(Elems(snode[c]))] \ Elems(snode[c]))
      OBVIOUS
    <3>. HIDE DEF seps, snode, u, ix
    <3>. QED  BY <2>3, <2>4, <3>1
  <2>6. L[u] \ Node(ix, u) \in SUBSET Vertices
    BY <1>1, <1>4
  <2>7. seps[c] \in Seq(L[u] \ Node(ix, u)) /\ Elems(seps[c]) = L[u] \ Node(ix, u) /\ Distinct(seps[c])
    <3>1. L[u] \ Node(ix, u) \in SUBSET Nat /\ IsFiniteSet(L[u] \ Node(ix, u))
      BY <1>2, <2>6
    <3>. HIDE DEF seps, u, ix
    <3>. QED  BY <2>5, <3>1, AscendingIs
  <2>8. S[c] = Node(ix, u) /\ P[c] = L[u] \ Node(ix, u)
    OBVIOUS
  <2>. HIDE DEF seps, snode, u, ix, S, P
  <2>. QED  BY <2>1, <2>3, <2>6, <2>7, <2>8, SeqGrows
<1>9. /\ Junction(K, S, P, up)
      /\ \A c \in K : S[c] # {} /\ up[c] # Inactive
      /\ \A v \in Vertices : \A w \in L[v] \cup {v} : \E c \in K : {v, w} \subseteq S[c] \cup P[c]
  <2>1. /\ S \in [K -> SUBSET Vertices] /\ P \in [K -> SUBSET Vertices]
        /\ \A c \in K : S[c] = Node(ix, reps[c + 1]) /\ P[c] = L[reps[c + 1]] \ Node(ix, reps[c + 1])
    <3>1. \A u \in Vertices : L[u] \in SUBSET Vertices /\ Node(ix, u) \in SUBSET Vertices
      BY <1>1 DEF Node
    <3>. HIDE DEF K, ix
    <3>. QED  BY <1>4, <3>1
  <2>3. K = 0..(Len(reps) - 1)
    OBVIOUS
  <2>2. Grouped(L, parent, Vertices, Vertices, ix, pr)
    BY DEF pr
  <2>. HIDE DEF S, P, K, ix, up
  <2>4. Numbered(L, parent, ix, pr, reps, K, S, P, up)
    BY <1>3, <1>6, <1>7, <2>1, <2>2, <2>3 DEF Numbered
  <2>5. Complete(L, K, S, P, up)
    BY <2>4, FirstJunction
  <2>. QED  BY <2>5 DEF Complete
<1>10. children \in [K -> Seq(K)] /\ \A p \in K : Elems(children[p]) = {c \in K : up[c] = p}
  <2>1. DOMAIN up = K /\ K \in SUBSET Nat /\ IsFiniteSet(K)
    BY <1>9 DEF Junction
  <2>2. children = [p \in K |-> Ascending({v \in K : up[v] = p})]
    <3>. HIDE DEF up, K
    <3>. QED  BY <2>1 DEF ChildrenFromParent
  <2>. HIDE DEF children, up, K
  <2>3. ASSUME NEW p \in K PROVE children[p] \in Seq(K) /\ Elems(children[p]) = {c \in K : up[c] = p}
    <3>. DEFINE C == {c \in K : up[c] = p}
    <3>1. C \in SUBSET K /\ C \in SUBSET Nat /\ IsFiniteSet(C) /\ children[p] = Ascending(C)
      BY <2>1, <2>2, FS_Subset
    <3>. HIDE DEF C
    <3>2. children[p] \in Seq(C) /\ Elems(children[p]) = C
      BY <3>1, AscendingIs
    <3>3. children[p] \in Seq(K)
      BY <3>1, <3>2, SeqGrows
    <3>. QED  BY <3>2, <3>3 DEF C
  <2>. QED  BY <2>2, <2>3
<1>. HIDE DEF S, P, ix
<1>11. PICK r \in K : up[r] = NoParent /\ Posted(K, up, r, PostOrder(up, children))
  <2>. HIDE DEF K, up, children
  <2>. QED  BY <1>9, <1>10, JunctionPosted
<1>12. /\ DOMAIN t.snode = K /\ t.snode = snode /\ t.parent = up /\ t.children = children /\ t.separators = seps
       /\ t.snodePost = PostOrder(up, children) /\ t.nCliques = Len(reps)
  OBVIOUS
<1>13. t \in Trees(K)
  <2>1. PostOrder(up, children) \in Seq(K)
    BY <1>11 DEF Posted
  <2>2. snode \in [K -> Seq(Vertices)] /\ seps \in [K -> Seq(Vertices)]
    <3>1. DOMAIN snode = K /\ snode = [c \in K |-> snode[c]] /\ DOMAIN seps = K /\ seps = [c \in K |-> seps[c]]
      OBVIOUS
    <3>. HIDE DEF K, snode, seps
    <3>. QED  BY <1>8, <3>1
  <2>3. <<>> \in Seq(Nat)
    OBVIOUS
  <2>. HIDE DEF K, snode, seps, up, children
  <2>. QED  BY <1>3, <1>7, <1>10, <2>1, <2>2, <2>3 DEF Trees
<1>14. Members(t.snode) = S /\ Members(t.separators) = P
  <2>1. DOMAIN snode = K /\ DOMAIN seps = K
    OBVIOUS
  <2>. HIDE DEF K, snode, seps
  <2>. QED  BY <1>8, <1>12, <2>1 DEF Members, S, P
<1>15. \A c \in K : snode[c] # <<>>
  <2>. TAKE c \in K
  <2>1. snode[c] \in Seq(Vertices) /\ Elems(snode[c]) # {}
    BY <1>8, <1>9
  <2>. HIDE DEF snode, K
  <2>. QED  BY <2>1, ElemsOfSeq
<1>16. Len(reps) = Cardinality({c \in K : snode[c] # <<>>})
  <2>1. {c \in K : snode[c] # <<>>} = K
    BY <1>15
  <2>2. Cardinality(0..(Len(reps) - 1)) = Len(reps)
    <3>1. 0 \in Int /\ Len(reps) - 1 \in Int /\ Len(reps) - 1 - 0 + 1 = Len(reps)
      BY <1>3
    <3>2. Cardinality(0..(Len(reps) - 1)) = IF 0 > Len(reps) - 1 THEN 0 ELSE Len(reps) - 1 - 0 + 1
      BY <3>1, FS_Interval
    <3>. QED  BY <1>3, <3>1, <3>2
  <2>. QED  BY <2>1, <2>2
<1>. HIDE DEF t, K, snode, seps, up, children
<1>17. Well(t)
  BY <1>8, <1>9, <1>10, <1>12, <1>13, <1>14, <1>16 DEF Well
<1>18. InPostOrder(t)
  BY <1>11, <1>12 DEF InPostOrder
<1>19. \A v \in Vertices : \A w \in L[v] \cup {v} : Together(t, v, w)
  <2>. SUFFICES ASSUME NEW v \in Vertices, NEW w \in L[v] \cup {v} PROVE Together(t, v, w)
    OBVIOUS
  <2>1. PICK c \in K : {v, w} \subseteq S[c] \cup P[c]
    BY <1>9
  <2>2. Elems(snode[c]) = S[c] /\ Elems(seps[c]) = P[c] /\ snode[c] # <<>>
    BY <1>8, <1>15
  <2>. QED  BY <1>12, <2>1, <2>2 DEF Together
<1>20. \A c \in DOMAIN t.snode : t.snode[c] # <<>>
  BY <1>12, <1>15
<1>. QED  BY <1>0, <1>17, <1>18, <1>19, <1>20 DEF t

-----------------------------------------------------------------------------
(* The parent-child strategy                                                *)

\* T, Q and vp are the cliques S, P and up after clique c has gone into its parent.
Joined(K, S, P, up, c, T, Q, vp) ==
  /\ T \in [K -> SUBSET Vertices] /\ Q \in [K -> SUBSET Vertices] /\ vp \in [K -> Int]
  /\ T[c] = {} /\ Q[c] = {} /\ vp[c] = Inactive
  /\ T[up[c]] = S[up[c]] \cup S[c]
  /\ \A d \in K \ {c} : /\ d # up[c] => T[d] = S[d]
                        /\ Q[d] = P[d] /\ vp[d] = IF up[d] = c THEN up[c] ELSE up[d]

\* A clique that is joined with its parent leaves a junction tree.
LEMMA JoinedJunction ==
  ASSUME NEW K, NEW S, NEW P, NEW up, Junction(K, S, P, up), NEW c \in K, up[c] \notin {NoParent, Inactive},
         NEW T, NEW Q, NEW vp, Joined(K, S, P, up, c, T, Q, vp)
  PROVE  /\ Junction(K, T, Q, vp)
         /\ \A d \in K \ {c} : T[d] = {} <=> S[d] = {}
         /\ \A d \in K : \E b \in K \ {c} : S[d] # {} => T[b] # {} /\ S[d] \cup P[d] \subseteq T[b] \cup Q[b]
<1>. DEFINE p == up[c]
<1>1. /\ p \in K /\ p # c /\ p # NoParent /\ p # Inactive
  BY SeparatorIs
<1>2. /\ up[p] # Inactive /\ P[c] \subseteq S[p] \cup P[p] /\ S[p] # {} /\ S[c] # {}
      /\ \A v \in S[c] : \E w \in S[p] : v < w
  BY <1>1 DEF Junction
<1>3. /\ Order \in Nat \ {0} /\ K \in SUBSET Nat /\ IsFiniteSet(K) /\ Vertices \in SUBSET Nat
      /\ S \in [K -> SUBSET Vertices] /\ P \in [K -> SUBSET Vertices]
  <2>1. Order \in Nat \ {0}
    BY DEF Junction
  <2>. QED  BY <2>1, FiniteVertices DEF Junction
<1>4. /\ T[c] = {} /\ Q[c] = {} /\ vp[c] = Inactive /\ T[p] = S[p] \cup S[c] /\ Q[p] = P[p]
      /\ vp[p] = IF up[p] = c THEN p ELSE up[p]
      /\ \A d \in K \ {c} : /\ d # p => T[d] = S[d]
                            /\ Q[d] = P[d] /\ vp[d] = IF up[d] = c THEN p ELSE up[d]
  BY <1>1 DEF Joined
<1>5. up[p] # c
  <2>1. PICK rank \in [K -> Nat] : \A d \in K : up[d] \notin {NoParent, Inactive} => up[d] \in K /\ rank[up[d]] < rank[d]
    BY Ranked
  <2>2. rank[p] < rank[c] /\ rank[p] \in Nat /\ rank[c] \in Nat
    BY <1>1, <2>1
  <2>3. ASSUME up[p] = c PROVE rank[c] < rank[p]
    <3>1. up[p] \notin {NoParent, Inactive}
      BY <1>2, <1>3, <2>3 DEF NoParent
    <3>. QED  BY <1>1, <2>1, <2>3, <3>1
  <2>. QED  BY <2>2, <2>3
<1>. HIDE DEF p
<1>6. ASSUME NEW d \in K \ {c}
      PROVE  S[d] \subseteq T[d] /\ (T[d] = {} <=> S[d] = {}) /\ Q[d] = P[d]
             /\ (vp[d] = Inactive <=> up[d] = Inactive) /\ (vp[d] = NoParent <=> up[d] = NoParent)
  <2>1. vp[d] = up[d] \/ (up[d] = c /\ vp[d] = p)
    BY <1>4
  <2>2. c # NoParent /\ c # Inactive
    BY <1>3 DEF NoParent, Inactive
  <2>3. S[d] \subseteq T[d] /\ (T[d] = {} <=> S[d] = {})
    BY <1>2, <1>4
  <2>. QED  BY <1>1, <1>4, <2>1, <2>2, <2>3 DEF p
<1>7. \A d \in K : \E b \in K \ {c} : S[d] \subseteq T[b] /\ (S[d] # {} => T[b] # {} /\ S[d] \cup P[d] \subseteq T[b] \cup Q[b])
  <2>. TAKE d \in K
  <2>1. CASE d = c
    BY <1>1, <1>2, <1>4, <2>1
  <2>2. CASE d # c
    BY <1>6, <2>2
  <2>. QED  BY <2>1, <2>2
<1>8. \A v \in Vertices : \E b \in K : v \in T[b]
  <2>. TAKE v \in Vertices
  <2>1. PICK d \in K : v \in S[d]
    BY DEF Junction
  <2>. QED  BY <1>7, <2>1
<1>9. \A d, e \in K : d # e => T[d] \cap T[e] = {}
  <2>1. \A d, e \in K : d # e => S[d] \cap S[e] = {}
    BY DEF Junction
  <2>. QED  BY <1>1, <1>4, <2>1
<1>10. \E r \in K : \A d \in K : vp[d] = NoParent <=> d = r
  <2>1. PICK r \in K : \A d \in K : up[d] = NoParent <=> d = r
    BY DEF Junction
  <2>2. r # c
    BY <1>1, <2>1 DEF p
  <2>3. vp[c] # NoParent
    BY <1>4 DEF NoParent, Inactive
  <2>. QED  BY <1>6, <2>1, <2>2, <2>3
<1>11. ASSUME NEW d \in K
       PROVE  /\ vp[d] = Inactive <=> T[d] = {}
              /\ vp[d] \in {NoParent, Inactive} => Q[d] = {}
  <2>1. CASE d = c
    BY <1>4, <2>1
  <2>2. CASE d # c
    <3>1. (up[d] = Inactive <=> S[d] = {}) /\ (up[d] \in {NoParent, Inactive} => P[d] = {})
      BY DEF Junction
    <3>. QED  BY <1>6, <2>2, <3>1
  <2>. QED  BY <2>1, <2>2
<1>12. ASSUME NEW d \in K, NEW x \in T[d], NEW y \in Q[d] PROVE x < y
  <2>1. d # c /\ y \in P[d]
    BY <1>4
  <2>2. \A z \in S[d] : z < y
    BY <2>1 DEF Junction
  <2>3. CASE x \in S[d]
    BY <2>2, <2>3
  <2>4. CASE x \notin S[d]
    <3>1. d = p /\ x \in S[c]
      BY <1>4, <2>1, <2>4
    <3>2. PICK w \in S[p] : x < w
      BY <1>2, <3>1
    <3>3. w < y /\ w \in Nat /\ x \in Nat /\ y \in Nat
      BY <1>1, <1>3, <2>1, <2>2, <3>1, <3>2
    <3>. QED  BY <3>2, <3>3
  <2>. QED  BY <2>3, <2>4
<1>13. ASSUME NEW d \in K, vp[d] \notin {NoParent, Inactive}
       PROVE  /\ vp[d] \in K /\ vp[vp[d]] # Inactive
              /\ Q[d] \subseteq T[vp[d]] \cup Q[vp[d]]
              /\ ~ (T[vp[d]] \cup Q[vp[d]] \subseteq Q[d])
              /\ \A v \in T[d] : \E w \in T[vp[d]] : v < w
  <2>1. d # c /\ up[d] \notin {NoParent, Inactive}
    BY <1>4, <1>6, <1>13
  <2>2. /\ up[d] \in K /\ up[up[d]] # Inactive
        /\ P[d] \subseteq S[up[d]] \cup P[up[d]]
        /\ ~ (S[up[d]] \cup P[up[d]] \subseteq P[d])
        /\ \A v \in S[d] : \E w \in S[up[d]] : v < w
    BY <2>1 DEF Junction
  <2>3. CASE up[d] = c
    <3>1. vp[d] = p /\ d # p /\ T[d] = S[d] /\ Q[d] = P[d]
      BY <1>4, <1>5, <2>1, <2>3
    <3>2. T[p] \cup Q[p] = S[p] \cup S[c] \cup P[p]
      BY <1>4
    <3>3. S[c] \cup P[c] \subseteq T[p] \cup Q[p]
      BY <1>2, <3>2
    <3>4. vp[p] # Inactive
      BY <1>1, <1>2, <1>6
    <3>. QED  BY <1>1, <1>4, <2>2, <2>3, <3>1, <3>3, <3>4
  <2>4. CASE up[d] # c
    <3>. DEFINE q == up[d]
    <3>1. vp[d] = q /\ Q[d] = P[d] /\ q \in K \ {c} /\ vp[q] # Inactive /\ S[q] \subseteq T[q] /\ Q[q] = P[q]
      BY <1>4, <1>6, <2>1, <2>2, <2>4
    <3>2. \A v \in T[d] : \E w \in S[q] : v < w
      <4>. TAKE v \in T[d]
      <4>1. CASE v \in S[d]
        BY <2>2, <4>1
      <4>2. CASE v \notin S[d]
        <5>1. d = p /\ v \in S[c]
          BY <1>4, <2>1, <4>2
        <5>2. PICK x \in S[p] : v < x
          BY <1>2, <5>1
        <5>3. PICK w \in S[q] : x < w
          BY <2>2, <5>1, <5>2
        <5>4. v \in Nat /\ x \in Nat /\ w \in Nat
          BY <1>1, <1>3, <2>2, <5>1, <5>2, <5>3
        <5>. QED  BY <5>2, <5>3, <5>4
      <4>. QED  BY <4>1, <4>2
    <3>3. P[d] \subseteq S[q] \cup P[q] /\ ~ (S[q] \cup P[q] \subseteq P[d])
      BY <2>2
    <3>. HIDE DEF q
    <3>4. Q[d] \subseteq T[q] \cup Q[q] /\ ~ (T[q] \cup Q[q] \subseteq Q[d]) /\ \A v \in T[d] : \E w \in T[q] : v < w
      BY <3>1, <3>2, <3>3
    <3>. QED  BY <3>1, <3>4
  <2>. QED  BY <2>3, <2>4
<1>14. Junction(K, T, Q, vp)
  <2>1. T \in [K -> SUBSET Vertices] /\ Q \in [K -> SUBSET Vertices] /\ vp \in [K -> Int]
    BY DEF Joined
  <2>. QED  BY <1>3, <1>8, <1>9, <1>10, <1>11, <1>12, <1>13, <2>1 DEF Junction
<1>. QED  BY <1>6, <1>7, <1>14

\* merge_two_cliques of the parent-child strategy: a clique tree with one clique
\* less, in which what was in one clique still is.
LEMMA MergeIs ==
  ASSUME NEW t, Well(t), NEW c \in DOMAIN t.snode, t.parent[c] \notin {NoParent, Inactive}
  PROVE  LET u == MergeIntoParent(t, t.parent[c], c) IN
         /\ Well(u) /\ DOMAIN u.snode = DOMAIN t.snode /\ u.snodePost = t.snodePost /\ u.nCliques = t.nCliques - 1
         /\ u.parent[c] = Inactive
         /\ \A d \in DOMAIN t.snode \ {c} : u.parent[d] = IF t.parent[d] = c THEN t.parent[c] ELSE t.parent[d]
         /\ \A v, w \in Vertices : Together(t, v, w) => Together(u, v, w)
<1>. DEFINE K == DOMAIN t.snode
            S == Members(t.snode)
            P == Members(t.separators)
            up == t.parent
            p == up[c]
            snode == [t.snode EXCEPT ![p] = OrderedUnion(t.snode[p], t.snode[c]), ![c] = <<>>]
            seps == [t.separators EXCEPT ![c] = <<>>]
            vp == [g \in K |-> IF g = c THEN Inactive ELSE IF Has(t.children[c], g) THEN p ELSE up[g]]
            children == [t.children EXCEPT ![p] = OrderedUnion(ShiftRemove(t.children[p], c), t.children[c]), ![c] = <<>>]
            u == MergeIntoParent(t, p, c)
            T == Members(snode)
            Q == Members(seps)
<1>1. /\ t \in Trees(K) /\ Junction(K, S, P, up)
      /\ \A d \in K : Distinct(t.snode[d]) /\ Distinct(t.separators[d]) /\ Elems(t.children[d]) = {e \in K : up[e] = d}
      /\ t.nCliques = Cardinality({d \in K : t.snode[d] # <<>>})
  BY DEF Well
<1>2. /\ t.snode \in [K -> Seq(Vertices)] /\ t.separators \in [K -> Seq(Vertices)] /\ up \in [K -> Int]
      /\ t.children \in [K -> Seq(K)] /\ t.nCliques \in Nat
  BY <1>1 DEF Trees
<1>3. p \in K /\ p # c /\ IsFiniteSet(K) /\ K \in SUBSET Nat
  <2>0. c \in K /\ up[c] \notin {NoParent, Inactive}
    OBVIOUS
  <2>. HIDE DEF K, S, P, up
  <2>1. up[c] \in K /\ up[c] # c
    BY <1>1, <2>0, SeparatorIs
  <2>. QED  BY <1>1, <2>1 DEF Junction
<1>4. \A d \in K : S[d] = Elems(t.snode[d]) /\ P[d] = Elems(t.separators[d])
  BY <1>2 DEF Members
<1>5. u = [t EXCEPT !.snode = snode, !.separators = seps, !.parent = vp, !.children = children, !.nCliques = t.nCliques - 1]
  <2>1. DOMAIN t.parent = K
    BY <1>2
  <2>. QED  BY <1>3, <2>1 DEF MergeIntoParent
<1>. HIDE DEF K, S, P, up
<1>6. /\ OrderedUnion(t.snode[p], t.snode[c]) \in Seq(Vertices)
      /\ Elems(OrderedUnion(t.snode[p], t.snode[c])) = S[p] \cup S[c]
      /\ Distinct(OrderedUnion(t.snode[p], t.snode[c]))
  <2>1. t.snode[p] \in Seq(Vertices) /\ t.snode[c] \in Seq(Vertices) /\ Distinct(t.snode[p])
    BY <1>1, <1>2, <1>3 DEF K
  <2>. HIDE DEF p
  <2>2. /\ OrderedUnion(t.snode[p], t.snode[c]) \in Seq(Vertices)
        /\ Elems(OrderedUnion(t.snode[p], t.snode[c])) = Elems(t.snode[p]) \cup Elems(t.snode[c])
        /\ Distinct(OrderedUnion(t.snode[p], t.snode[c]))
    BY <2>1, OrderedUnionIs
  <2>. QED  BY <1>3, <1>4, <2>2 DEF K
<1>7. /\ OrderedUnion(ShiftRemove(t.children[p], c), t.children[c]) \in Seq(K)
      /\ Elems(OrderedUnion(ShiftRemove(t.children[p], c), t.children[c])) = (Elems(t.children[p]) \ {c}) \cup Elems(t.children[c])
  <2>1. t.children[p] \in Seq(K) /\ t.children[c] \in Seq(K)
    BY <1>2, <1>3 DEF K
  <2>. HIDE DEF p
  <2>2. ShiftRemove(t.children[p], c) \in Seq(K) /\ Elems(ShiftRemove(t.children[p], c)) = Elems(t.children[p]) \ {c}
    <3>1. ShiftRemove(t.children[p], c) = Only(t.children[p], Elems(t.children[p]) \ {c})
      BY DEF ShiftRemove
    <3>2. /\ Only(t.children[p], Elems(t.children[p]) \ {c}) \in Seq(K)
          /\ Elems(Only(t.children[p], Elems(t.children[p]) \ {c})) = Elems(t.children[p]) \cap (Elems(t.children[p]) \ {c})
      BY <2>1, OnlyIs
    <3>. QED  BY <3>1, <3>2
  <2>. QED  BY <2>1, <2>2, OrderedUnionIs
<1>8. /\ snode \in [K -> Seq(Vertices)] /\ snode[c] = <<>> /\ snode[p] = OrderedUnion(t.snode[p], t.snode[c])
      /\ \A d \in K \ {c, p} : snode[d] = t.snode[d]
  <2>1. <<>> \in Seq(Vertices)
    OBVIOUS
  <2>. HIDE DEF p
  <2>. QED  BY <1>2, <1>3, <1>6, <2>1 DEF K
<1>9. /\ seps \in [K -> Seq(Vertices)] /\ seps[c] = <<>> /\ \A d \in K \ {c} : seps[d] = t.separators[d]
  <2>1. <<>> \in Seq(Vertices)
    OBVIOUS
  <2>. QED  BY <1>2, <2>1 DEF K
<1>10. /\ children \in [K -> Seq(K)] /\ children[c] = <<>>
       /\ children[p] = OrderedUnion(ShiftRemove(t.children[p], c), t.children[c])
       /\ \A d \in K \ {c, p} : children[d] = t.children[d]
  <2>1. <<>> \in Seq(K)
    OBVIOUS
  <2>. HIDE DEF p
  <2>. QED  BY <1>2, <1>3, <1>7, <2>1 DEF K
<1>11. /\ vp \in [K -> Int] /\ vp[c] = Inactive /\ \A d \in K \ {c} : vp[d] = IF up[d] = c THEN p ELSE up[d]
  <2>1. \A d \in K : Has(t.children[c], d) <=> up[d] = c
    BY <1>1 DEF Has, K
  <2>2. p \in Int /\ c \in K
    BY <1>3 DEF K
  <2>. HIDE DEF p
  <2>. QED  BY <1>2, <2>1, <2>2 DEF Inactive
<1>12. u.snode = snode /\ u.separators = seps /\ u.parent = vp /\ u.children = children /\ u.nCliques = t.nCliques - 1
       /\ u.snodePost = t.snodePost /\ u.post = t.post /\ u.nblk = t.nblk
       /\ DOMAIN u = {"snode", "parent", "children", "snodePost", "post", "separators", "nCliques", "nblk"}
       /\ u = [snode |-> snode, parent |-> vp, children |-> children, snodePost |-> t.snodePost, post |-> t.post,
               separators |-> seps, nCliques |-> t.nCliques - 1, nblk |-> t.nblk]
  <2>. HIDE DEF snode, seps, vp, children, p, u
  <2>1. t = [snode |-> t.snode, parent |-> t.parent, children |-> t.children, snodePost |-> t.snodePost, post |-> t.post,
             separators |-> t.separators, nCliques |-> t.nCliques, nblk |-> t.nblk]
    BY <1>1 DEF Trees
  <2>. QED  BY <1>5, <2>1
<1>. HIDE DEF snode, seps, vp, children, u
<1>13. Elems(<<>>) = {} /\ Distinct(<<>>)
  BY DEF Elems, Distinct
<1>14. /\ \A d \in K : T[d] = Elems(snode[d]) /\ Q[d] = Elems(seps[d])
       /\ T \in [K -> SUBSET Vertices] /\ Q \in [K -> SUBSET Vertices]
  <2>1. \A d \in K : Elems(snode[d]) \in SUBSET Vertices /\ Elems(seps[d]) \in SUBSET Vertices
    <3>. TAKE d \in K
    <3>1. snode[d] \in Seq(Vertices) /\ seps[d] \in Seq(Vertices)
      BY <1>8, <1>9
    <3>. QED  BY <3>1, ElemsOfSeq
  <2>. QED  BY <1>8, <1>9, <2>1 DEF Members
<1>15. Joined(K, S, P, up, c, T, Q, vp)
  <2>1. c \in K
    BY DEF K
  <2>2. T[c] = {} /\ Q[c] = {} /\ T[p] = S[p] \cup S[c]
    BY <1>3, <1>6, <1>8, <1>9, <1>13, <1>14, <2>1
  <2>3. \A d \in K \ {c} : (d # p => T[d] = S[d]) /\ Q[d] = P[d]
    <3>. HIDE DEF T, Q, p
    <3>. QED  BY <1>4, <1>8, <1>9, <1>14
  <2>. HIDE DEF T, Q
  <2>. QED  BY <1>11, <1>14, <2>2, <2>3 DEF Joined, p
<1>. HIDE DEF T, Q
<1>16. /\ Junction(K, T, Q, vp)
       /\ \A d \in K \ {c} : T[d] = {} <=> S[d] = {}
       /\ \A d \in K : \E b \in K \ {c} : S[d] # {} => T[b] # {} /\ S[d] \cup P[d] \subseteq T[b] \cup Q[b]
  <2>1. up[c] \notin {NoParent, Inactive} /\ c \in K
    BY DEF up, K
  <2>. QED  BY <1>1, <1>15, <2>1, JoinedJunction
<1>17. \A d \in K : (t.snode[d] # <<>> <=> S[d] # {}) /\ (snode[d] # <<>> <=> T[d] # {})
  <2>. TAKE d \in K
  <2>1. t.snode[d] \in Seq(Vertices) /\ snode[d] \in Seq(Vertices)
    BY <1>2, <1>8
  <2>2. (t.snode[d] = <<>> <=> Elems(t.snode[d]) = {}) /\ (snode[d] = <<>> <=> Elems(snode[d]) = {})
    BY <2>1, ElemsOfSeq
  <2>. QED  BY <1>4, <1>14, <2>2
<1>18. t.nCliques - 1 = Cardinality({d \in K : snode[d] # <<>>}) /\ t.nCliques - 1 \in Nat
  <2>. DEFINE A == {d \in K : t.snode[d] # <<>>}
  <2>1. c \in K /\ snode[c] = <<>>
    BY <1>8 DEF K
  <2>2. S[c] # {}
    BY <1>1, <2>1 DEF Junction, up
  <2>3. {d \in K : snode[d] # <<>>} = A \ {c}
    BY <1>16, <1>17, <2>1
  <2>4. c \in A /\ A \in SUBSET K
    BY <1>17, <2>1, <2>2
  <2>. HIDE DEF A
  <2>5. IsFiniteSet(A)
    BY <1>3, <2>4, FS_Subset
  <2>6. Cardinality(A \ {c}) = Cardinality(A) - 1 /\ IsFiniteSet(A \ {c})
    BY <2>4, <2>5, FS_RemoveElement
  <2>7. Cardinality(A \ {c}) \in Nat
    BY <2>6, FS_CardinalityType
  <2>. QED  BY <1>1, <2>3, <2>6, <2>7 DEF A
<1>19. DOMAIN u.snode = K
  BY <1>8, <1>12
<1>20. u \in Trees(K)
  <2>1. t.snodePost \in Seq(K) /\ t.post \in Seq(Vertices) /\ t.nblk \in Seq(Nat)
    BY <1>1 DEF Trees
  <2>. QED  BY <1>8, <1>9, <1>10, <1>11, <1>12, <1>18, <2>1 DEF Trees
<1>21. ASSUME NEW d \in K PROVE Distinct(snode[d]) /\ Distinct(seps[d])
  <2>1. d = c \/ d = p \/ d \in K \ {c, p}
    OBVIOUS
  <2>2. Distinct(seps[d])
    BY <1>1, <1>9, <1>13
  <2>. HIDE DEF p
  <2>. QED  BY <1>1, <1>6, <1>8, <1>13, <2>1, <2>2
<1>22. ASSUME NEW d \in K PROVE Elems(children[d]) = {e \in K : vp[e] = d}
  <2>0. c \in K /\ up[c] = p /\ c # Inactive /\ p # Inactive /\ d # Inactive
    BY <1>3 DEF K, Inactive
  <2>1. CASE d = c
    <3>1. \A e \in K : vp[e] # c
      BY <1>3, <1>11, <2>0
    <3>. QED  BY <1>10, <1>13, <2>1, <3>1
  <2>2. CASE d = p
    <3>1. Elems(children[p]) = ({e \in K : up[e] = p} \ {c}) \cup {e \in K : up[e] = c}
      BY <1>1, <1>3, <1>7, <1>10, <2>0
    <3>2. up[c] # c
      BY <1>3, <2>0
    <3>. HIDE DEF p
    <3>. QED  BY <1>3, <1>11, <2>0, <2>2, <3>1, <3>2
  <2>3. CASE d \in K \ {c, p}
    <3>1. Elems(children[d]) = {e \in K : up[e] = d}
      BY <1>1, <1>10, <2>3
    <3>. HIDE DEF p
    <3>. QED  BY <1>11, <2>0, <2>3, <3>1
  <2>. QED  BY <2>1, <2>2, <2>3
<1>23. Well(u)
  <2>1. Members(u.snode) = T /\ Members(u.separators) = Q
    BY <1>12 DEF T, Q
  <2>. QED  BY <1>12, <1>16, <1>18, <1>19, <1>20, <1>21, <1>22, <2>1 DEF Well
<1>24. ASSUME NEW v \in Vertices, NEW w \in Vertices, Together(t, v, w) PROVE Together(u, v, w)
  <2>1. PICK d \in K : t.snode[d] # <<>> /\ {v, w} \subseteq S[d] \cup P[d]
    BY <1>4, <1>24 DEF Together, K
  <2>2. PICK b \in K : T[b] # {} /\ S[d] \cup P[d] \subseteq T[b] \cup Q[b]
    BY <1>16, <1>17, <2>1
  <2>3. snode[b] # <<>> /\ {v, w} \subseteq Elems(snode[b]) \cup Elems(seps[b])
    BY <1>14, <1>17, <2>1, <2>2
  <2>. QED  BY <1>12, <1>19, <2>3 DEF Together
<1>. QED  BY <1>11, <1>12, <1>19, <1>23, <1>24 DEF K, up, p, u

\* post_process_merge of the parent-child strategy puts the tree in post order.
LEMMA PostProcessTreeIs ==
  ASSUME NEW t, Well(t)
  PROVE  LET u == PostProcessTree(t) IN
         /\ Well(u) /\ InPostOrder(u) /\ u.nCliques = t.nCliques
         /\ \A v, w \in Vertices : Together(t, v, w) => Together(u, v, w)
<1>. DEFINE K == DOMAIN t.snode
            o == PostOrder(t.parent, t.children)
            u == [t EXCEPT !.snodePost = o]
            S == Members(t.snode)
            P == Members(t.separators)
<1>1. t \in Trees(K) /\ Junction(K, S, P, t.parent)
      /\ \A p \in K : Elems(t.children[p]) = {c \in K : t.parent[c] = p}
  BY DEF Well
<1>2. t.children \in [K -> Seq(K)]
  BY <1>1 DEF Trees
<1>. HIDE DEF o
<1>3. PICK r \in K : t.parent[r] = NoParent /\ Posted(K, t.parent, r, o)
  <2>. DEFINE up == t.parent
              ch == t.children
  <2>1. Junction(K, S, P, up) /\ ch \in [K -> Seq(K)] /\ \A p \in K : Elems(ch[p]) = {c \in K : up[c] = p}
    BY <1>1, <1>2
  <2>. HIDE DEF K, S, P, up, ch
  <2>2. \E r \in K : up[r] = NoParent /\ Posted(K, up, r, PostOrder(up, ch))
    BY <2>1, JunctionPosted
  <2>. QED  BY <2>2 DEF up, ch, o
<1>4. o \in Seq(K)
  BY <1>3 DEF Posted
<1>5. /\ u.snode = t.snode /\ u.parent = t.parent /\ u.children = t.children /\ u.separators = t.separators
      /\ u.nCliques = t.nCliques /\ u.snodePost = o /\ u \in Trees(K)
  <2>. HIDE DEF K
  <2>. QED  BY <1>1, <1>4 DEF Trees
<1>. HIDE DEF u
<1>6. Well(u)
  BY <1>5 DEF Well
<1>7. InPostOrder(u)
  BY <1>3, <1>5 DEF InPostOrder
<1>8. \A v, w \in Vertices : Together(t, v, w) => Together(u, v, w)
  BY <1>5 DEF Together
<1>9. PostProcessTree(t) = u
  BY DEF PostProcessTree, u, o
<1>. QED  BY <1>5, <1>6, <1>7, <1>8, <1>9

\* The cliques that the parent-child strategy has yet to look at hang below others.
Waiting(t, k) ==
  /\ Distinct(t.snodePost) /\ k < Len(t.snodePost)
  /\ \A i \in 1..k : t.parent[t.snodePost[i]] \notin {NoParent, Inactive}

\* Only the root, which comes last, has no parent.
LEMMA RootIsLast ==
  ASSUME NEW K, NEW parent, NEW r, NEW o, Posted(K, parent, r, o), r \in K, parent[r] # Inactive,
         \A c \in K : parent[c] = NoParent => c = r
  PROVE  /\ Len(o) \in Nat \ {0} /\ o[Len(o)] = r
         /\ \A i \in 1..(Len(o) - 1) : o[i] \in K /\ o[i] # r /\ parent[o[i]] \notin {NoParent, Inactive}
<1>. DEFINE n == Len(o)
<1>1. o \in Seq(K) /\ Distinct(o) /\ n \in Nat /\ DOMAIN o = 1..n
      /\ \A i \in 1..n : o[i] \in K /\ o[i] \in {v \in K : parent[v] # Inactive}
  BY DEF Posted, Elems
<1>2. PICK j \in 1..n : o[j] = r
  BY <1>1 DEF Posted, Elems
<1>. HIDE DEF n
<1>3. n # 0 /\ n \in 1..n
  BY <1>1, <1>2
<1>4. o[n] = r
  <2>. SUFFICES ASSUME o[n] # r PROVE FALSE
    OBVIOUS
  <2>1. PICK b \in (n + 1)..n : TRUE
    BY <1>3 DEF Posted, ParentsLater, n
  <2>. QED  BY <1>1, <2>1
<1>5. ASSUME NEW i \in 1..(n - 1) PROVE o[i] \in K /\ o[i] # r /\ parent[o[i]] \notin {NoParent, Inactive}
  <2>1. i \in 1..n /\ i # n
    BY <1>1
  <2>2. o[i] # r
    BY <1>1, <1>3, <1>4, <2>1 DEF Distinct
  <2>. QED  BY <1>1, <2>1, <2>2
<1>. QED  BY <1>1, <1>3, <1>4, <1>5 DEF n

\* With the tree in post order, every clique but the last has a parent to merge with.
LEMMA WaitingFirst ==
  ASSUME NEW t, Well(t), InPostOrder(t)
  PROVE  /\ Waiting(t, Len(t.snodePost) - 1) /\ Len(t.snodePost) = t.nCliques
         /\ Elems(t.snodePost) = {c \in DOMAIN t.snode : t.snode[c] # <<>>}
<1>. DEFINE K == DOMAIN t.snode
            o == t.snodePost
            up == t.parent
            S == Members(t.snode)
            P == Members(t.separators)
<1>1. Junction(K, S, P, up) /\ t.snode \in [K -> Seq(Vertices)] /\ t.nCliques = Cardinality({c \in K : t.snode[c] # <<>>})
  BY DEF Well, Trees
<1>2. PICK r \in K : up[r] = NoParent /\ Posted(K, up, r, o)
  BY DEF InPostOrder
<1>3. \A c \in K : S[c] = Elems(t.snode[c])
  BY <1>1 DEF Members
<1>. HIDE DEF K, S, P, o, up
<1>4. up[r] # Inactive /\ \A c \in K : up[c] = NoParent => c = r
  BY <1>1, <1>2 DEF Junction, NoParent, Inactive
<1>5. \A i \in 1..(Len(o) - 1) : up[o[i]] \notin {NoParent, Inactive}
  BY <1>2, <1>4, RootIsLast
<1>6. Len(o) \in Nat /\ Distinct(o) /\ o \in Seq(K)
  BY <1>2 DEF Posted
<1>7. \A c \in K : up[c] # Inactive <=> t.snode[c] # <<>>
  <2>. TAKE c \in K
  <2>1. t.snode[c] \in Seq(Vertices)
    BY <1>1
  <2>2. t.snode[c] = <<>> <=> Elems(t.snode[c]) = {}
    BY <2>1, ElemsOfSeq
  <2>. QED  BY <1>1, <1>3, <2>2 DEF Junction
<1>8. Elems(o) = {c \in K : t.snode[c] # <<>>}
  BY <1>2, <1>7 DEF Posted
<1>9. Len(o) = t.nCliques
  BY <1>1, <1>6, <1>8, DistinctLen
<1>. QED  BY <1>5, <1>6, <1>8, <1>9 DEF Waiting, o, up, K

\* One round of the parent-child strategy, whether it merges or not, leaves those
\* further down with theirs.
LEMMA MergeStep ==
  ASSUME NEW t, Well(t), NEW k \in Nat, Waiting(t, k), k # 0
  PROVE  LET c == t.snodePost[k]  u == MergeIntoParent(t, t.parent[c], c) IN
         /\ c \in DOMAIN t.snode /\ Well(u) /\ Waiting(u, k - 1) /\ Waiting(t, k - 1)
         /\ \A v, w \in Vertices : Together(t, v, w) => Together(u, v, w)
<1>. DEFINE K == DOMAIN t.snode
            o == t.snodePost
            c == o[k]
            u == MergeIntoParent(t, t.parent[c], c)
<1>1. o \in Seq(K) /\ Distinct(o) /\ k < Len(o) /\ \A i \in 1..k : t.parent[o[i]] \notin {NoParent, Inactive}
  BY DEF Well, Trees, Waiting
<1>2. DOMAIN o = 1..Len(o) /\ Len(o) \in Nat /\ \A i \in 1..Len(o) : o[i] \in K
  BY <1>1
<1>3. k \in 1..k /\ k \in 1..Len(o) /\ \A i \in 1..(k - 1) : i \in 1..k /\ i \in 1..Len(o) /\ i # k
  BY <1>1, <1>2
<1>4. c \in K /\ t.parent[c] \notin {NoParent, Inactive}
  BY <1>1, <1>2, <1>3
<1>. HIDE DEF c, u
<1>5. /\ Well(u) /\ DOMAIN u.snode = K /\ u.snodePost = o
      /\ \A d \in K \ {c} : u.parent[d] = IF t.parent[d] = c THEN t.parent[c] ELSE t.parent[d]
      /\ \A v, w \in Vertices : Together(t, v, w) => Together(u, v, w)
  BY <1>4, MergeIs DEF u
<1>6. Waiting(t, k - 1)
  BY <1>1, <1>2, <1>3 DEF Waiting
<1>7. \A i \in 1..(k - 1) : u.parent[o[i]] \notin {NoParent, Inactive}
  <2>. TAKE i \in 1..(k - 1)
  <2>1. o[i] \in K \ {c} /\ t.parent[o[i]] \notin {NoParent, Inactive}
    BY <1>1, <1>2, <1>3 DEF Distinct, c
  <2>. QED  BY <1>4, <1>5, <2>1
<1>8. Waiting(u, k - 1)
  BY <1>1, <1>2, <1>5, <1>7 DEF Waiting
<1>. QED  BY <1>4, <1>5, <1>6, <1>8 DEF c, u

-----------------------------------------------------------------------------
(* The consecutive numbering                                                *)

Sizes(t) == [i \in DOMAIN t.snodePost |-> Len(t.snode[t.snodePost[i]])]
FirstOf(t, k) == SumOver(Sizes(t), 1..(k - 1))

\* The supernodes of the first i cliques of the post order stand in s, one after the other.
Placed(t, s, i) ==
  /\ Distinct(s) /\ \A v : v \in Elems(s) <=> \E j \in 1..i : v \in Elems(t.snode[t.snodePost[j]])
  /\ Len(s) = FirstOf(t, i + 1)
  /\ \A j \in 1..i : /\ FirstOf(t, j) + Sizes(t)[j] <= Len(s)
                     /\ \A v : v \in Elems(t.snode[t.snodePost[j]]) <=> \E m \in 1..Sizes(t)[j] : v = s[FirstOf(t, j) + m]
                     /\ \A k \in 1..(j - 1) : FirstOf(t, k) + Sizes(t)[k] <= FirstOf(t, j)

\* What the renumbering needs of the tree.
Ordered(t) ==
  /\ t.snodePost \in Seq(DOMAIN t.snode) /\ Distinct(t.snodePost)
  /\ t.snode \in [DOMAIN t.snode -> Seq(Vertices)]
  /\ \A c \in DOMAIN t.snode : Distinct(t.snode[c])
  /\ \A c, d \in DOMAIN t.snode : c # d => Elems(t.snode[c]) \cap Elems(t.snode[d]) = {}
  /\ \A v \in Vertices : \E i \in 1..Len(t.snodePost) : v \in Elems(t.snode[t.snodePost[i]])
  /\ Order \in Nat \ {0}

\* A clique tree in post order fits the renumbering.
LEMMA OrderedIs ==
  ASSUME NEW t, Well(t), InPostOrder(t)
  PROVE  Ordered(t)
<1>. DEFINE K == DOMAIN t.snode
            S == Members(t.snode)
            P == Members(t.separators)
            o == t.snodePost
<1>1. /\ Junction(K, S, P, t.parent) /\ t.snode \in [K -> Seq(Vertices)] /\ o \in Seq(K)
      /\ \A c \in K : Distinct(t.snode[c])
  BY DEF Well, Trees
<1>2. \A c \in K : S[c] = Elems(t.snode[c])
  BY <1>1 DEF Members
<1>3. Elems(o) = {c \in K : t.snode[c] # <<>>} /\ Distinct(o)
  <2>1. Elems(o) = {c \in K : t.snode[c] # <<>>}
    BY WaitingFirst
  <2>2. Distinct(o)
    BY DEF InPostOrder, Posted
  <2>. QED  BY <2>1, <2>2
<1>. HIDE DEF S, P, K
<1>4. ASSUME NEW v \in Vertices PROVE \E i \in 1..Len(o) : v \in Elems(t.snode[o[i]])
  <2>1. PICK c \in K : v \in Elems(t.snode[c])
    BY <1>1, <1>2 DEF Junction
  <2>2. t.snode[c] # <<>>
    <3>1. t.snode[c] \in Seq(Vertices)
      BY <1>1
    <3>. QED  BY <2>1, <3>1, ElemsOfSeq
  <2>3. c \in Elems(o) /\ DOMAIN o = 1..Len(o)
    BY <1>1, <1>3, <2>2
  <2>. QED  BY <2>1, <2>3 DEF Elems
<1>5. /\ Order \in Nat \ {0}
      /\ \A c, d \in K : c # d => Elems(t.snode[c]) \cap Elems(t.snode[d]) = {}
  BY <1>1, <1>2 DEF Junction
<1>. QED  BY <1>1, <1>3, <1>4, <1>5 DEF Ordered, K

\* The first new number of a clique: the number of vertices in the cliques before.
LEMMA FirstOfIs ==
  ASSUME NEW t, Ordered(t)
  PROVE  /\ Len(t.snodePost) \in Nat /\ DOMAIN t.snodePost = 1..Len(t.snodePost) /\ FirstOf(t, 1) = 0
         /\ \A k \in 1..Len(t.snodePost) :
              /\ t.snodePost[k] \in DOMAIN t.snode /\ Sizes(t)[k] = Len(t.snode[t.snodePost[k]]) /\ Sizes(t)[k] \in Nat
              /\ FirstOf(t, k) \in Nat /\ FirstOf(t, k + 1) = FirstOf(t, k) + Sizes(t)[k]
<1>. DEFINE o == t.snodePost
            f == Sizes(t)
            n == Len(o)
<1>1. n \in Nat /\ DOMAIN o = 1..n /\ (\A k \in 1..n : o[k] \in DOMAIN t.snode) /\ t.snode \in [DOMAIN t.snode -> Seq(Vertices)]
  BY DEF Ordered
<1>2. \A k \in 1..n : f[k] = Len(t.snode[o[k]]) /\ f[k] \in Nat
  <2>. TAKE k \in 1..n
  <2>1. t.snode[o[k]] \in Seq(Vertices)
    BY <1>1
  <2>2. Len(t.snode[o[k]]) \in Nat
    BY <2>1
  <2>. QED  BY <1>1, <2>2 DEF Sizes
<1>. HIDE DEF f, o, n
<1>3. \A k \in 0..n : Summing(f, 1..k) /\ SumOver(f, 1..k) \in Nat
  <2>. TAKE k \in 0..n
  <2>1. IsFiniteSet(1..k)
    BY FS_Interval
  <2>2. 1..k \in SUBSET Nat /\ \A x \in 1..k : x \in 1..n
    BY <1>1
  <2>3. \A x \in 1..k : f[x] \in Nat
    BY <1>2, <2>2
  <2>4. Summing(f, 1..k) /\ \A x \in 1..k : f[x] >= 0
    BY <2>1, <2>2, <2>3 DEF Summing
  <2>5. SumOver(f, 1..k) \in Int /\ SumOver(f, 1..k) >= 0
    BY <2>4, SumIs
  <2>. QED  BY <2>4, <2>5
<1>4. ASSUME NEW k \in 1..n
      PROVE  SumOver(f, 1..(k - 1)) \in Nat /\ SumOver(f, 1..k) = SumOver(f, 1..(k - 1)) + f[k]
  <2>1. k - 1 \in 0..n /\ k \in 0..n /\ k \in 1..k /\ (1..k) \ {k} = 1..(k - 1)
    BY <1>1
  <2>2. SumOver(f, 1..k) = f[k] + SumOver(f, (1..k) \ {k})
    BY <1>3, <2>1, SumIs
  <2>3. SumOver(f, 1..(k - 1)) \in Nat /\ f[k] \in Nat
    BY <1>2, <1>3, <2>1
  <2>4. SumOver(f, (1..k) \ {k}) = SumOver(f, 1..(k - 1))
    BY <2>1
  <2>. QED  BY <2>2, <2>3, <2>4
<1>5. SumOver(f, 1..0) = 0
  <2>1. 1..0 = {} /\ 0 \in 0..n
    BY <1>1
  <2>. QED  BY <1>3, <2>1, SumIs
<1>6. \A k \in Int : k + 1 - 1 = k
  OBVIOUS
<1>7. 1 - 1 = 0
  OBVIOUS
<1>8. FirstOf(t, 1) = 0
  BY <1>5, <1>7 DEF FirstOf, f
<1>9. \A k \in 1..n : FirstOf(t, k) \in Nat /\ FirstOf(t, k + 1) = FirstOf(t, k) + f[k]
  <2>. TAKE k \in 1..n
  <2>1. FirstOf(t, k + 1) = SumOver(f, 1..k)
    BY <1>6 DEF FirstOf, f
  <2>. QED  BY <1>4, <2>1 DEF FirstOf, f
<1>. QED  BY <1>1, <1>2, <1>8, <1>9 DEF f, o, n

\* One more supernode is placed behind the others.
LEMMA NextBlock ==
  ASSUME NEW t, Ordered(t), NEW i \in 1..Len(t.snodePost), NEW s \in Seq(Vertices), Placed(t, s, i - 1),
         NEW b, b = Ascending(Elems(t.snode[t.snodePost[i]]))
  PROVE  s \o b \in Seq(Vertices) /\ Placed(t, s \o b, i)
<1>. DEFINE c == t.snodePost[i]
            C(j) == Elems(t.snode[t.snodePost[j]])
            n == Len(t.snodePost)
            At(k) == FirstOf(t, k)
            size(k) == Sizes(t)[k]
            u == s \o b
<1>1. /\ n \in Nat /\ DOMAIN t.snodePost = 1..n /\ i \in Nat /\ i - 1 \in Nat /\ i \in 1..n
      /\ \A k \in 1..n : /\ t.snodePost[k] \in DOMAIN t.snode /\ size(k) = Len(t.snode[t.snodePost[k]]) /\ size(k) \in Nat
                         /\ At(k) \in Nat /\ At(k + 1) = At(k) + size(k)
  BY FirstOfIs
<1>2. c \in DOMAIN t.snode /\ t.snode[c] \in Seq(Vertices) /\ Distinct(t.snode[c]) /\ Order \in Nat \ {0}
  BY <1>1 DEF Ordered
<1>3. C(i) \in SUBSET Vertices /\ IsFiniteSet(C(i)) /\ Cardinality(C(i)) = size(i)
  <2>. HIDE DEF c
  <2>1. Elems(t.snode[c]) \subseteq Vertices /\ IsFiniteSet(Elems(t.snode[c])) /\ Cardinality(Elems(t.snode[c])) = Len(t.snode[c])
    BY <1>2, ElemsOfSeq, DistinctLen
  <2>. QED  BY <1>1, <2>1 DEF c
<1>4. b \in Seq(C(i)) /\ Elems(b) = C(i) /\ Distinct(b) /\ Len(b) = size(i)
  <2>. DEFINE X == C(i)
  <2>1. X \in SUBSET Nat /\ IsFiniteSet(X) /\ b = Ascending(X)
    BY <1>2, <1>3, FiniteVertices
  <2>. HIDE DEF X
  <2>2. b \in Seq(X) /\ Elems(b) = X /\ Distinct(b) /\ Len(b) = Cardinality(X)
    BY <2>1, AscendingIs
  <2>. QED  BY <1>3, <2>2 DEF X
<1>. HIDE DEF C, At, size
<1>5. b \in Seq(Vertices)
  BY <1>3, <1>4, SeqGrows
<1>6. /\ Distinct(s) /\ (\A v : v \in Elems(s) <=> \E j \in 1..(i - 1) : v \in C(j))
      /\ Len(s) = At(i)
      /\ \A j \in 1..(i - 1) : /\ At(j) + size(j) <= Len(s)
                               /\ \A v : v \in C(j) <=> \E m \in 1..size(j) : v = s[At(j) + m]
                               /\ \A k \in 1..(j - 1) : At(k) + size(k) <= At(j)
  <2>1. i - 1 + 1 = i
    BY <1>1
  <2>. QED  BY <2>1 DEF Placed, C, At, size
<1>7. \A j \in 1..n : j # i => C(j) \cap C(i) = {}
  <2>. TAKE j \in 1..n
  <2>1. j # i => t.snodePost[j] # c
    BY <1>1 DEF Ordered, Distinct
  <2>. QED  BY <1>1, <2>1 DEF Ordered, C
<1>8. \A j \in 1..(i - 1) : j \in 1..n /\ j # i
  BY <1>1
<1>9. Elems(s) \cap Elems(b) = {}
  BY <1>4, <1>6, <1>7, <1>8
<1>10. u \in Seq(Vertices) /\ Elems(u) = Elems(s) \cup Elems(b) /\ Len(u) = Len(s) + Len(b) /\ Distinct(u)
  BY <1>4, <1>5, <1>6, <1>9, ElemsOfConcat
<1>11. Len(s) \in Nat /\ Len(b) \in Nat /\ (\A x \in 1..Len(s) : u[x] = s[x]) /\ \A x \in 1..Len(b) : u[Len(s) + x] = b[x]
  BY <1>5
<1>12. \A j : j \in 1..i <=> j \in 1..(i - 1) \/ j = i
  BY <1>1
<1>. HIDE DEF u, n
<1>13. \A v : v \in Elems(u) <=> \E j \in 1..i : v \in C(j)
  BY <1>4, <1>6, <1>10, <1>12
<1>14. Len(u) = At(i + 1) /\ Len(u) = At(i) + size(i)
  BY <1>1, <1>4, <1>6, <1>10
<1>15. ASSUME NEW j \in 1..i
       PROVE  /\ At(j) + size(j) <= Len(u)
              /\ \A v : v \in C(j) <=> \E m \in 1..size(j) : v = u[At(j) + m]
              /\ \A k \in 1..(j - 1) : At(k) + size(k) <= At(j)
  <2>1. CASE j = i
    <3>1. \A v : v \in C(i) <=> \E m \in 1..size(i) : v = b[m]
      <4>1. DOMAIN b = 1..size(i)
        BY <1>4
      <4>. QED  BY <1>4, <4>1 DEF Elems
    <3>2. \A k \in 1..(i - 1) : At(k) + size(k) <= At(i)
      BY <1>6
    <3>3. \A m \in 1..size(i) : u[At(i) + m] = b[m]
      BY <1>4, <1>6, <1>11
    <3>4. At(i) + size(i) <= Len(u)
      BY <1>1, <1>14
    <3>. QED  BY <2>1, <3>1, <3>2, <3>3, <3>4
  <2>2. CASE j \in 1..(i - 1)
    <3>1. At(j) \in Nat /\ size(j) \in Nat /\ size(i) \in Nat /\ At(i) \in Nat
      BY <1>1, <1>8, <2>2
    <3>2. At(j) + size(j) <= Len(s) /\ Len(u) = Len(s) + size(i)
      BY <1>6, <1>14, <2>2
    <3>3. \A m \in 1..size(j) : At(j) + m \in 1..Len(s)
      BY <1>11, <3>1, <3>2
    <3>4. \A m \in 1..size(j) : u[At(j) + m] = s[At(j) + m]
      BY <1>11, <3>3
    <3>5. At(j) + size(j) <= Len(u)
      BY <1>11, <3>1, <3>2
    <3>6. \A v : v \in C(j) <=> \E m \in 1..size(j) : v = u[At(j) + m]
      <4>1. \A v : v \in C(j) <=> \E m \in 1..size(j) : v = s[At(j) + m]
        BY <1>6, <2>2
      <4>. QED  BY <3>4, <4>1
    <3>7. \A k \in 1..(j - 1) : At(k) + size(k) <= At(j)
      BY <1>6, <2>2
    <3>. QED  BY <3>5, <3>6, <3>7
  <2>. QED  BY <1>12, <2>1, <2>2
<1>16. Placed(t, u, i)
  BY <1>10, <1>13, <1>14, <1>15 DEF Placed, C, At, size
<1>. QED  BY <1>10, <1>16 DEF u

Blocks1(t) == Fold(LAMBDA acc, c : acc \o Ascending(Elems(t.snode[c])), <<>>, t.snodePost)

\* The supernodes one after the other list every vertex once.
LEMMA BlocksAre ==
  ASSUME NEW t, Ordered(t)
  PROVE  LET s == Blocks1(t) IN s \in Seq(Vertices) /\ Placed(t, s, Len(t.snodePost))
<1>. DEFINE o == t.snodePost
            Fine(s, i) == Placed(t, s, i)
<1>. DEFINE n == Len(o)
            Op(acc, c) == acc \o Ascending(Elems(t.snode[c]))
            base == <<>>
            D == Seq(Vertices)
            I == [i \in 0..n |-> {s \in D : Fine(s, i)}]
            Step(f, i) == CHOOSE r \in {Op(before, o[i]) : before \in {f[i - 1]}} : TRUE
            IsFold(f) == f = [i \in 0..n |-> IF i = 0 THEN base ELSE Step(f, i)]
            G == [p \in D \X (1..n) |-> Op(p[1], o[p[2]])]
            h == CHOOSE f : IsFold(f)
<1>1. Blocks1(t) = h[n]
  BY DEF Blocks1, Fold
<1>2. n \in Nat /\ DOMAIN o = 1..n /\ FirstOf(t, 1) = 0
  BY FirstOfIs
<1>3. n \in Nat /\ base \in I[0] /\ \A i \in 0..n : I[i] \subseteq D
  <2>1. base \in D /\ Len(base) = 0 /\ DOMAIN base = {}
    OBVIOUS
  <2>. HIDE DEF n, base
  <2>2. Distinct(base) /\ Elems(base) = {}
    BY <2>1 DEF Distinct, Elems
  <2>3. 0 + 1 = 1 /\ \A j : j \notin 1..0
    OBVIOUS
  <2>4. Fine(base, 0)
    BY <1>2, <2>1, <2>2, <2>3 DEF Placed
  <2>. HIDE DEF Fine, D
  <2>. QED  BY <1>2, <2>1, <2>4
<1>4. \A i \in 1..n : \A x \in I[i - 1] : Op(x, o[i]) \in I[i]
  <2>. SUFFICES ASSUME NEW i \in 1..n, NEW x \in I[i - 1] PROVE Op(x, o[i]) \in I[i]
    OBVIOUS
  <2>1. i - 1 \in 0..n /\ i \in 0..n
    BY <1>3
  <2>2. x \in D /\ Fine(x, i - 1)
    <3>. HIDE DEF D, base, Op, Fine, n
    <3>. QED  BY <2>1
  <2>3. Op(x, o[i]) \in D /\ Fine(Op(x, o[i]), i)
    <3>. DEFINE b == Ascending(Elems(t.snode[o[i]]))
    <3>1. Op(x, o[i]) = x \o b
      OBVIOUS
    <3>2. b = Ascending(Elems(t.snode[t.snodePost[i]])) /\ x \in Seq(Vertices) /\ Placed(t, x, i - 1) /\ i \in 1..Len(t.snodePost)
      BY <2>2
    <3>. HIDE DEF b, Op, D, Fine
    <3>3. x \o b \in Seq(Vertices) /\ Placed(t, x \o b, i)
      BY <3>2, NextBlock
    <3>. QED  BY <3>1, <3>3 DEF D, Fine
  <2>. HIDE DEF D, base, Op, Fine, n
  <2>. QED  BY <2>1, <2>3
<1>5. h[n] \in I[n]
  <2>. HIDE DEF n, Op, base, D, I, Fine, o
  <2>1. (\A f, i : Step(f, i) = Op(f[i - 1], o[i])) /\ \A x \in D, i \in 1..n : G[<<x, i>>] = Op(x, o[i])
    OBVIOUS
  <2>2. Invariant(D, I, base, n, G)
    <3>1. ASSUME NEW i \in 1..n, NEW x \in I[i - 1] PROVE G[<<x, i>>] \in I[i]
      <4>1. i - 1 \in 0..n
        BY <1>3
      <4>2. x \in D
        BY <1>3, <4>1
      <4>. QED  BY <1>4, <2>1, <4>2
    <3>. QED  BY <1>3, <3>1 DEF Invariant
  <2>. HIDE DEF Step, G
  <2>3. PICK g \in [0..n -> D] : /\ g[0] = base /\ \A i \in 1..n : g[i] = G[<<g[i - 1], i>>]
                                /\ \A i \in 0..n : g[i] \in I[i]
    <3>1. Folding(D, I, base, n, G)
      BY InvariantHolds
    <3>. QED  BY <2>2, <3>1 DEF Folding
  <2>4. \A i \in 1..n : g[i] = Step(g, i)
    <3>. TAKE i \in 1..n
    <3>1. i - 1 \in 0..n
      BY <1>3
    <3>. QED  BY <2>1, <2>3, <3>1
  <2>5. IsFold(g)
    <3>1. \A i \in 0..n : i = 0 \/ i \in 1..n
      BY <1>3
    <3>. QED  BY <2>3, <2>4, <3>1
  <2>6. IsFold(h)
    <3>. HIDE DEF IsFold
    <3>. QED  BY <2>5
  <2>. HIDE DEF h
  <2>7. h[0] = base /\ \A i \in 1..n : h[i] = Op(h[i - 1], o[i])
    <3>1. \A i \in 0..n : h[i] = IF i = 0 THEN base ELSE Step(h, i)
      BY <2>6
    <3>2. 0 \in 0..n /\ \A i \in 1..n : i \in 0..n /\ i # 0
      BY <1>3
    <3>. QED  BY <2>1, <3>1, <3>2
  <2>8. Carried(n, {i \in 0..n : h[i] = g[i]})
    BY Induction
  <2>9. 0..n \subseteq {i \in 0..n : h[i] = g[i]}
    <3>1. ASSUME NEW i \in 1..n, h[i - 1] = g[i - 1] PROVE h[i] = g[i]
      <4>1. h[i] = Op(h[i - 1], o[i]) /\ g[i] = Op(g[i - 1], o[i])
        BY <2>1, <2>4, <2>7
      <4>. QED  BY <3>1, <4>1
    <3>2. 0 \in 0..n /\ \A i \in 1..n : i \in 0..n
      BY <1>3
    <3>. QED  BY <1>3, <2>3, <2>7, <2>8, <3>1, <3>2 DEF Carried
  <2>. QED  BY <1>3, <2>3, <2>9
<1>6. h[n] \in D /\ Fine(h[n], n)
  <2>1. n \in 0..n
    BY <1>3
  <2>. HIDE DEF h, n, base, D, Op, Fine
  <2>. QED  BY <1>5, <2>1
<1>. HIDE DEF h, base
<1>. QED  BY <1>1, <1>6

\* A clique that has a vertex of another's supernode comes earlier.
LEMMA OwnerIsLater ==
  ASSUME NEW K, NEW S, NEW P, NEW up, Junction(K, S, P, up), NEW r \in K, up[r] = NoParent, NEW o, Posted(K, up, r, o),
         NEW c \in K, NEW d \in K, c # d, NEW x \in S[c], x \in S[d] \cup P[d]
  PROVE  \E k, l \in 1..Len(o) : k < l /\ o[k] = d /\ o[l] = c
<1>. DEFINE Later(b) == \E k, l \in 1..Len(o) : k < l /\ o[k] = b /\ o[l] = c
            B == {b \in K \ {c} : x \in S[b] \cup P[b] /\ ~ Later(b)}
<1>1. SUFFICES ASSUME ~ Later(d) PROVE FALSE
  OBVIOUS
<1>2. d \in B /\ B \in SUBSET K
  BY <1>1
<1>3. PICK b \in B : up[b] \notin B
  <2>. HIDE DEF B
  <2>. QED  BY <1>2, Topmost
<1>. DEFINE q == up[b]
<1>4. /\ q \in K /\ q \notin {NoParent, Inactive} /\ S[b] # {} /\ x \in S[q] \cup P[q]
  BY <1>3, Shared
<1>5. o \in Seq(K) /\ Distinct(o) /\ Len(o) \in Nat /\ DOMAIN o = 1..Len(o)
  BY DEF Posted
<1>6. PICK k \in 1..Len(o) : o[k] = b
  <2>1. b \in Elems(o)
    BY <1>3, <1>4 DEF Posted
  <2>. QED  BY <1>5, <2>1 DEF Elems
<1>7. PICK l \in (k + 1)..Len(o) : o[l] = q
  <2>1. b # r
    BY <1>4
  <2>. QED  BY <1>6, <2>1 DEF Posted, ParentsLater
<1>8. l \in 1..Len(o) /\ k < l
  BY <1>5, <1>6, <1>7
<1>9. q # c
  BY <1>3, <1>6, <1>7, <1>8
<1>10. Later(q)
  BY <1>3, <1>4, <1>9
<1>11. PICK i, j \in 1..Len(o) : i < j /\ o[i] = q /\ o[j] = c
  BY <1>10
<1>12. i = l
  BY <1>5, <1>7, <1>8, <1>11 DEF Distinct
<1>13. k < j
  BY <1>5, <1>8, <1>11, <1>12
<1>. QED  BY <1>3, <1>6, <1>11, <1>13

\* T and Q are the cliques S and P with the vertices renumbered, in the post order o.
Renamed(K, S, P, o, new, T, Q) ==
  /\ new \in [Vertices -> Vertices]
  /\ \A v, w \in Vertices : new[v] = new[w] => v = w
  /\ \A x \in Vertices : \E v \in Vertices : new[v] = x
  /\ T \in [K -> SUBSET Vertices] /\ Q \in [K -> SUBSET Vertices]
  /\ \A c \in K : \A v \in Vertices : (new[v] \in T[c] <=> v \in S[c]) /\ (new[v] \in Q[c] <=> v \in P[c])
  /\ \A k, l \in 1..Len(o) : k < l => \A v \in S[o[k]], w \in S[o[l]] : new[v] < new[w]

\* A junction tree keeps its structure under new names of the vertices that put
\* every vertex behind those of the cliques below.
LEMMA RenamedJunction ==
  ASSUME NEW K, NEW S, NEW P, NEW up, Junction(K, S, P, up), NEW r \in K, up[r] = NoParent, NEW o, Posted(K, up, r, o),
         NEW new, NEW T, NEW Q, Renamed(K, S, P, o, new, T, Q)
  PROVE  Junction(K, T, Q, up)
<1>1. /\ Order \in Nat \ {0} /\ K \in SUBSET Nat /\ IsFiniteSet(K)
      /\ S \in [K -> SUBSET Vertices] /\ P \in [K -> SUBSET Vertices] /\ up \in [K -> Int]
      /\ \E q \in K : \A c \in K : up[c] = NoParent <=> c = q
      /\ \A c \in K : /\ up[c] = Inactive <=> S[c] = {}
                      /\ up[c] \in {NoParent, Inactive} => P[c] = {}
                      /\ up[c] \notin {NoParent, Inactive} =>
                           /\ up[c] \in K /\ up[up[c]] # Inactive
                           /\ P[c] \subseteq S[up[c]] \cup P[up[c]]
                           /\ ~ (S[up[c]] \cup P[up[c]] \subseteq P[c])
  BY DEF Junction
<1>2. /\ new \in [Vertices -> Vertices]
      /\ \A v, w \in Vertices : new[v] = new[w] => v = w
      /\ \A x \in Vertices : \E v \in Vertices : new[v] = x
      /\ T \in [K -> SUBSET Vertices] /\ Q \in [K -> SUBSET Vertices]
      /\ \A c \in K : \A v \in Vertices : (new[v] \in T[c] <=> v \in S[c]) /\ (new[v] \in Q[c] <=> v \in P[c])
      /\ \A k, l \in 1..Len(o) : k < l => \A v \in S[o[k]], w \in S[o[l]] : new[v] < new[w]
  BY DEF Renamed
<1>3. \A c \in K : /\ \A x \in T[c] : \E v \in S[c] : new[v] = x
                   /\ \A x \in Q[c] : \E v \in P[c] : new[v] = x
                   /\ \A v \in S[c] : new[v] \in T[c]
                   /\ \A v \in P[c] : new[v] \in Q[c]
  BY <1>1, <1>2
<1>4. \A c \in K : (T[c] = {} <=> S[c] = {}) /\ (P[c] = {} => Q[c] = {})
  BY <1>3
<1>5. \A x \in Vertices : \E c \in K : x \in T[c]
  <2>. TAKE x \in Vertices
  <2>1. PICK v \in Vertices : new[v] = x
    BY <1>2
  <2>2. PICK c \in K : v \in S[c]
    BY DEF Junction
  <2>. QED  BY <1>3, <2>1, <2>2
<1>6. \A c, d \in K : c # d => T[c] \cap T[d] = {}
  <2>. SUFFICES ASSUME NEW c \in K, NEW d \in K, c # d, NEW x \in T[c], x \in T[d] PROVE FALSE
    OBVIOUS
  <2>1. PICK v \in S[c] : new[v] = x
    BY <1>3
  <2>2. v \in S[d] /\ v \in Vertices
    BY <1>1, <1>2, <2>1
  <2>. QED  BY <2>1, <2>2 DEF Junction
<1>7. ASSUME NEW c \in K, NEW d \in K, c # d, NEW v \in S[c], v \in S[d] \cup P[d], NEW u \in S[d]
      PROVE  new[u] < new[v]
  <2>1. PICK k, l \in 1..Len(o) : k < l /\ o[k] = d /\ o[l] = c
    BY <1>7, OwnerIsLater
  <2>. QED  BY <1>2, <2>1
<1>8. ASSUME NEW c \in K, NEW x \in T[c], NEW y \in Q[c] PROVE x < y
  <2>1. PICK u \in S[c] : new[u] = x
    BY <1>3
  <2>2. PICK v \in P[c] : new[v] = y
    BY <1>3
  <2>3. v \in Vertices /\ v \in Nat /\ \A z \in S[c] : z < v /\ z \in Nat
    BY <1>1, <2>2 DEF Junction, Vertices
  <2>4. PICK d \in K : v \in S[d]
    BY <2>3 DEF Junction
  <2>5. d # c
    BY <2>3, <2>4
  <2>. QED  BY <1>7, <2>1, <2>2, <2>4, <2>5
<1>9. ASSUME NEW c \in K, up[c] \notin {NoParent, Inactive}
      PROVE  /\ Q[c] \subseteq T[up[c]] \cup Q[up[c]]
             /\ ~ (T[up[c]] \cup Q[up[c]] \subseteq Q[c])
             /\ \A x \in T[c] : \E y \in T[up[c]] : x < y
  <2>. DEFINE p == up[c]
  <2>1. p \in K /\ P[c] \subseteq S[p] \cup P[p] /\ ~ (S[p] \cup P[p] \subseteq P[c]) /\ S[p] # {} /\ S[c] # {} /\ p # c
    <3>1. p # c
      BY <1>9, SeparatorIs
    <3>. QED  BY <1>1, <1>9, <3>1
  <2>. HIDE DEF p
  <2>2. Q[c] \subseteq T[p] \cup Q[p]
    BY <1>3, <2>1
  <2>3. ~ (T[p] \cup Q[p] \subseteq Q[c])
    <3>1. PICK v \in S[p] \cup P[p] : v \notin P[c]
      BY <2>1
    <3>2. v \in Vertices
      BY <1>1, <2>1
    <3>3. new[v] \notin Q[c] /\ new[v] \in T[p] \cup Q[p]
      BY <1>2, <2>1, <3>1, <3>2
    <3>. QED  BY <3>3
  <2>4. \A x \in T[c] : \E y \in T[p] : x < y
    <3>. TAKE x \in T[c]
    <3>1. PICK u \in S[c] : new[u] = x
      BY <1>3
    <3>2. PICK v : v \in S[p]
      BY <2>1
    <3>3. PICK k \in 1..Len(o) : o[k] = c
      <4>1. c \in Elems(o) /\ DOMAIN o = 1..Len(o)
        BY <1>9 DEF Posted
      <4>. QED  BY <4>1 DEF Elems
    <3>4. PICK l \in (k + 1)..Len(o) : o[l] = p
      <4>1. c # r
        BY <1>9
      <4>. QED  BY <3>3, <4>1 DEF Posted, ParentsLater, p
    <3>5. l \in 1..Len(o) /\ k < l
      <4>1. Len(o) \in Nat
        BY DEF Posted
      <4>. QED  BY <3>3, <3>4, <4>1
    <3>6. new[u] < new[v]
      BY <1>2, <3>1, <3>2, <3>3, <3>4, <3>5
    <3>. QED  BY <1>3, <2>1, <3>1, <3>2, <3>6
  <2>. QED  BY <2>2, <2>3, <2>4 DEF p
<1>10. \A c \in K : /\ up[c] = Inactive <=> T[c] = {}
                    /\ up[c] \in {NoParent, Inactive} => Q[c] = {}
                    /\ up[c] \notin {NoParent, Inactive} => up[c] \in K /\ up[up[c]] # Inactive
  BY <1>1, <1>4
<1>11. T \in [K -> SUBSET Vertices] /\ Q \in [K -> SUBSET Vertices]
  BY <1>2
<1>12. Order \in Nat \ {0} /\ K \in SUBSET Nat /\ IsFiniteSet(K) /\ up \in [K -> Int]
       /\ \E q \in K : \A c \in K : up[c] = NoParent <=> c = q
  BY <1>1
<1>13. Junction(K, T, Q, up)
  BY <1>5, <1>6, <1>8, <1>9, <1>10, <1>11, <1>12 DEF Junction
<1>. QED  BY <1>13

OneToOne(p) ==
  /\ p \in [Vertices -> Vertices] /\ (\A v, w \in Vertices : p[v] = p[w] => v = w)
  /\ \A x \in Vertices : \E v \in Vertices : p[v] = x

\* invperm inverts a permutation.
LEMMA InverseIs ==
  ASSUME NEW p, OneToOne(p)
  PROVE  /\ OneToOne(InversePerm(p)) /\ \A v \in Vertices : p[InversePerm(p)[v]] = v /\ InversePerm(p)[p[v]] = v
         /\ DOMAIN p = Vertices /\ DOMAIN InversePerm(p) = Vertices
<1>. DEFINE q == [v \in Vertices |-> CHOOSE i \in Vertices : p[i] = v]
<1>1. InversePerm(p) = q /\ DOMAIN p = Vertices
  BY DEF InversePerm, OneToOne
<1>2. \A v \in Vertices : q[v] \in Vertices /\ p[q[v]] = v
  BY DEF OneToOne
<1>. DOMAIN q = Vertices /\ q \in [Vertices -> Vertices]
  BY <1>2
<1>. HIDE DEF q
<1>3. \A v \in Vertices : q[p[v]] = v
  BY <1>2 DEF OneToOne
<1>4. OneToOne(q)
  BY <1>2, <1>3 DEF OneToOne
<1>. QED  BY <1>1, <1>2, <1>3, <1>4

\* An order of elimination has an inverse: a map of finitely many vertices onto
\* themselves is one to one.
LEMMA ReorderingIsOneToOne ==
  ASSUME Order \in Nat \ {0}, NEW p, Reordering(p)
  PROVE  OneToOne(p)
<1>1. IsFiniteSet(Vertices) /\ p \in Surjection(Vertices, Vertices)
  BY FiniteVertices DEF Reordering, Surjection
<1>2. p \in Injection(Vertices, Vertices)
  BY <1>1, FS_SurjSameCardinalityImpliesInj
<1>. QED  BY <1>2 DEF Injection, IsInjective, OneToOne, Reordering

\* new sends the supernodes to consecutive vertices, in the post order.
Renumbers(t, new) ==
  /\ OneToOne(new)
  /\ \A k \in 1..Len(t.snodePost) : \A v \in Vertices :
       v \in Elems(t.snode[t.snodePost[k]]) <=> new[v] \in FirstOf(t, k)..(FirstOf(t, k) + Sizes(t)[k] - 1)
  /\ \A k \in 1..Len(t.snodePost) : \A x \in FirstOf(t, k)..(FirstOf(t, k) + Sizes(t)[k] - 1) : x \in Vertices
  /\ \A k, l \in 1..Len(t.snodePost) : k < l =>
       \A v \in Elems(t.snode[t.snodePost[k]]), w \in Elems(t.snode[t.snodePost[l]]) : new[v] < new[w]

\* The new numbers of reorder_snode_consecutively: those of a clique are
\* consecutive, and follow those of the cliques before it in the post order.
LEMMA RenumberingIs ==
  ASSUME NEW t, Ordered(t)
  PROVE  Renumbers(t, Renumbering(t))
<1>. DEFINE s == Blocks1(t)
            n == Len(t.snodePost)
            a == ToArray(s)
            new == InversePerm(a)
            C(k) == Elems(t.snode[t.snodePost[k]])
            At(k) == FirstOf(t, k)
            size(k) == Sizes(t)[k]
<1>0. Renumbering(t) = new
  BY DEF Renumbering, Blocks1
<1>1. s \in Seq(Vertices) /\ Placed(t, s, n)
  BY BlocksAre
<1>2. /\ n \in Nat
      /\ \A k \in 1..n : /\ t.snodePost[k] \in DOMAIN t.snode /\ size(k) = Len(t.snode[t.snodePost[k]]) /\ size(k) \in Nat
                         /\ At(k) \in Nat
  BY FirstOfIs
<1>. HIDE DEF s, n, C, At, size
<1>3. /\ Distinct(s) /\ \A v : v \in Elems(s) <=> \E j \in 1..n : v \in C(j)
      /\ \A j \in 1..n : /\ At(j) + size(j) <= Len(s)
                         /\ \A v : v \in C(j) <=> \E m \in 1..size(j) : v = s[At(j) + m]
                         /\ \A k \in 1..(j - 1) : At(k) + size(k) <= At(j)
  BY <1>1 DEF Placed, C, At, size
<1>4. Order \in Nat \ {0} /\ \A v \in Vertices : \E i \in 1..n : v \in C(i)
  BY DEF Ordered, n, C
<1>5. Elems(s) = Vertices
  <2>1. Elems(s) \subseteq Vertices
    BY <1>1, ElemsOfSeq
  <2>. QED  BY <1>3, <1>4, <2>1
<1>6. Len(s) = Order /\ DOMAIN s = 1..Order
  <2>1. Cardinality(Elems(s)) = Len(s)
    BY <1>1, <1>3, DistinctLen
  <2>2. Cardinality(Vertices) = Order
    BY <1>4, FiniteVertices
  <2>3. DOMAIN s = 1..Len(s)
    BY <1>1
  <2>. QED  BY <1>5, <2>1, <2>2, <2>3
<1>7. a = [i \in Vertices |-> s[i + 1]]
  BY <1>6 DEF ToArray, Vertices
<1>8. \A i \in Vertices : i + 1 \in 1..Order /\ a[i] = s[i + 1]
  BY <1>4, <1>7 DEF Vertices
<1>9. OneToOne(a)
  <2>1. a \in [Vertices -> Vertices]
    <3>1. \A i \in 1..Order : s[i] \in Vertices
      BY <1>1, <1>6
    <3>. QED  BY <1>7, <1>8, <3>1
  <2>2. ASSUME NEW v \in Vertices, NEW w \in Vertices, a[v] = a[w] PROVE v = w
    <3>1. v + 1 = w + 1
      BY <1>3, <1>6, <1>8, <2>2 DEF Distinct
    <3>. QED  BY <3>1 DEF Vertices
  <2>3. ASSUME NEW x \in Vertices PROVE \E v \in Vertices : a[v] = x
    <3>1. PICK i \in 1..Order : s[i] = x
      BY <1>5, <1>6 DEF Elems
    <3>2. i - 1 \in Vertices /\ (i - 1) + 1 = i
      BY <1>4 DEF Vertices
    <3>. QED  BY <1>8, <3>1, <3>2
  <2>. HIDE DEF a
  <2>. QED  BY <2>1, <2>2, <2>3 DEF OneToOne
<1>. HIDE DEF a
<1>10. OneToOne(new) /\ \A v \in Vertices : a[new[v]] = v /\ new[a[v]] = v
  BY <1>9, InverseIs
<1>. HIDE DEF new
<1>11. ASSUME NEW k \in 1..n
       PROVE  /\ \A v \in Vertices : v \in C(k) <=> new[v] \in At(k)..(At(k) + size(k) - 1)
              /\ \A x \in At(k)..(At(k) + size(k) - 1) : x \in Vertices
  <2>1. At(k) \in Nat /\ size(k) \in Nat /\ At(k) + size(k) <= Order
    BY <1>2, <1>3, <1>6
  <2>2. \A x \in At(k)..(At(k) + size(k) - 1) : x \in Vertices
    BY <1>4, <2>1 DEF Vertices
  <2>3. ASSUME NEW v \in C(k) PROVE new[v] \in At(k)..(At(k) + size(k) - 1)
    <3>1. PICK m \in 1..size(k) : v = s[At(k) + m]
      BY <1>3
    <3>. DEFINE x == At(k) + m - 1
    <3>2. x \in At(k)..(At(k) + size(k) - 1) /\ x + 1 = At(k) + m
      BY <2>1
    <3>. HIDE DEF x
    <3>3. x \in Vertices /\ a[x] = v
      BY <1>8, <2>2, <3>1, <3>2
    <3>. QED  BY <1>10, <3>2, <3>3
  <2>4. ASSUME NEW v \in Vertices, new[v] \in At(k)..(At(k) + size(k) - 1) PROVE v \in C(k)
    <3>. DEFINE x == new[v]
    <3>1. x \in Vertices /\ a[x] = v /\ s[x + 1] = v
      BY <1>8, <1>10, <2>2, <2>4
    <3>2. x + 1 - At(k) \in 1..size(k) /\ At(k) + (x + 1 - At(k)) = x + 1
      <4>1. x \in At(k)..(At(k) + size(k) - 1)
        BY <2>4
      <4>. HIDE DEF x
      <4>. QED  BY <2>1, <4>1
    <3>. HIDE DEF x
    <3>3. s[At(k) + (x + 1 - At(k))] = v
      BY <3>1, <3>2
    <3>. QED  BY <1>3, <3>2, <3>3
  <2>. QED  BY <2>2, <2>3, <2>4
<1>12. ASSUME NEW k \in 1..n, NEW l \in 1..n, k < l, NEW v \in C(k), NEW w \in C(l) PROVE new[v] < new[w]
  <2>1. v \in Vertices /\ w \in Vertices
    BY <1>3, <1>5
  <2>2. new[v] \in At(k)..(At(k) + size(k) - 1) /\ new[w] \in At(l)..(At(l) + size(l) - 1)
    BY <1>11, <2>1
  <2>3. k \in 1..(l - 1)
    BY <1>2, <1>12
  <2>4. At(k) + size(k) <= At(l)
    BY <1>3, <2>3
  <2>5. At(k) \in Nat /\ size(k) \in Nat /\ At(l) \in Nat
    BY <1>2
  <2>. QED  BY <2>2, <2>4, <2>5
<1>. QED  BY <1>0, <1>10, <1>11, <1>12 DEF Renumbers, n, C, At, size

\* The supernodes lie one after the other in the post order.
Arranged(t) ==
  \A k, l \in 1..Len(t.snodePost) : k < l =>
    \A v \in Elems(t.snode[t.snodePost[k]]), w \in Elems(t.snode[t.snodePost[l]]) : v < w

\* The rows of each clique are counted by its supernode and its separator.
Sized(t) ==
  t.nblk = [i \in 1..t.nCliques |-> Len(t.separators[t.snodePost[i]]) + Len(t.snode[t.snodePost[i]])]

\* A range of numbers as a list.
LEMMA ConsecutiveIs ==
  ASSUME NEW first \in Nat, NEW n \in Nat, \A x \in first..(first + n - 1) : x \in Vertices
  PROVE  /\ Consecutive(first, n) \in Seq(Vertices) /\ Distinct(Consecutive(first, n)) /\ Len(Consecutive(first, n)) = n
         /\ \A x : x \in Elems(Consecutive(first, n)) <=> x \in first..(first + n - 1)
<1>. DEFINE s == [i \in 1..n |-> first + i - 1]
<1>1. \A i \in 1..n : first + i - 1 \in first..(first + n - 1)
  OBVIOUS
<1>2. s \in Seq(Vertices) /\ Len(s) = n /\ DOMAIN s = 1..n /\ \A i \in 1..n : s[i] = first + i - 1
  <2>1. \A i \in 1..n : s[i] \in Vertices
    BY <1>1
  <2>. QED  BY <2>1
<1>. HIDE DEF s
<1>3. Distinct(s)
  BY <1>2 DEF Distinct
<1>4. ASSUME NEW x PROVE x \in Elems(s) <=> x \in first..(first + n - 1)
  <2>1. ASSUME x \in Elems(s) PROVE x \in first..(first + n - 1)
    <3>1. PICK i \in 1..n : x = s[i]
      BY <1>2, <2>1 DEF Elems
    <3>. QED  BY <1>1, <1>2, <3>1
  <2>2. ASSUME x \in first..(first + n - 1) PROVE x \in Elems(s)
    <3>1. x - first + 1 \in 1..n /\ first + (x - first + 1) - 1 = x
      BY <2>2
    <3>2. s[x - first + 1] = x
      BY <1>2, <3>1
    <3>. QED  BY <1>2, <3>1, <3>2 DEF Elems
  <2>. QED  BY <2>1, <2>2
<1>5. Consecutive(first, n) = s
  BY DEF Consecutive, s
<1>. QED  BY <1>2, <1>3, <1>4, <1>5

\* u is t with the vertices renumbered by new.
Relabelled(t, new, u) ==
  /\ u \in Trees(DOMAIN t.snode) /\ u.parent = t.parent /\ u.children = t.children /\ u.snodePost = t.snodePost
  /\ u.nCliques = t.nCliques /\ Sized(u)
  /\ \A c \in DOMAIN t.snode : /\ Distinct(u.snode[c]) /\ Distinct(u.separators[c]) /\ (t.snode[c] # <<>> => u.snode[c] # <<>>)
                               /\ \A v \in Vertices : /\ new[v] \in Elems(u.snode[c]) <=> v \in Elems(t.snode[c])
                                                      /\ new[v] \in Elems(u.separators[c]) <=> v \in Elems(t.separators[c])

\* With the new numbers the tree is still a clique tree in post order, and its
\* supernodes are in the order of their numbers.
LEMMA RelabelledIs ==
  ASSUME NEW t, Well(t), InPostOrder(t), NEW new, Renumbers(t, new), NEW u, Relabelled(t, new, u)
  PROVE  /\ Well(u) /\ InPostOrder(u) /\ Arranged(u)
         /\ \A v, w \in Vertices : Together(t, v, w) => Together(u, new[v], new[w])
<1>. DEFINE K == DOMAIN t.snode
            S == Members(t.snode)
            P == Members(t.separators)
            T == Members(u.snode)
            Q == Members(u.separators)
            up == t.parent
            o == t.snodePost
<1>1. /\ Junction(K, S, P, up) /\ t.snode \in [K -> Seq(Vertices)] /\ t.separators \in [K -> Seq(Vertices)]
      /\ \A p \in K : Elems(t.children[p]) = {c \in K : t.parent[c] = p}
      /\ t.nCliques = Cardinality({c \in K : t.snode[c] # <<>>})
  BY DEF Well, Trees
<1>2. PICK r \in K : up[r] = NoParent /\ Posted(K, up, r, o)
  BY DEF InPostOrder
<1>3. /\ u \in Trees(K) /\ u.snode \in [K -> Seq(Vertices)] /\ u.separators \in [K -> Seq(Vertices)]
      /\ u.parent = up /\ u.children = t.children /\ u.snodePost = o /\ u.nCliques = t.nCliques
      /\ \A c \in K : /\ Distinct(u.snode[c]) /\ Distinct(u.separators[c]) /\ (t.snode[c] # <<>> => u.snode[c] # <<>>)
                      /\ \A v \in Vertices : /\ new[v] \in Elems(u.snode[c]) <=> v \in Elems(t.snode[c])
                                             /\ new[v] \in Elems(u.separators[c]) <=> v \in Elems(t.separators[c])
  BY DEF Relabelled, Trees
<1>4. \A c \in K : /\ S[c] = Elems(t.snode[c]) /\ P[c] = Elems(t.separators[c])
                   /\ T[c] = Elems(u.snode[c]) /\ Q[c] = Elems(u.separators[c])
  BY <1>1, <1>3 DEF Members
<1>5. T \in [K -> SUBSET Vertices] /\ Q \in [K -> SUBSET Vertices]
  <2>1. \A c \in K : Elems(u.snode[c]) \in SUBSET Vertices /\ Elems(u.separators[c]) \in SUBSET Vertices
    <3>. TAKE c \in K
    <3>1. u.snode[c] \in Seq(Vertices) /\ u.separators[c] \in Seq(Vertices)
      BY <1>3
    <3>. QED  BY <3>1, ElemsOfSeq
  <2>. QED  BY <1>3, <2>1 DEF Members
<1>6. /\ OneToOne(new)
      /\ \A k, l \in 1..Len(o) : k < l => \A v \in Elems(t.snode[o[k]]), w \in Elems(t.snode[o[l]]) : new[v] < new[w]
  BY DEF Renumbers
<1>. HIDE DEF S, P, T, Q, up, o
<1>7. \A k \in 1..Len(o) : o[k] \in K
  <2>1. o \in Seq(K)
    BY <1>2 DEF Posted
  <2>. HIDE DEF K
  <2>. QED  BY <2>1
<1>. HIDE DEF K
<1>8. Renamed(K, S, P, o, new, T, Q)
  <2>1. \A c \in K : \A v \in Vertices : (new[v] \in T[c] <=> v \in S[c]) /\ (new[v] \in Q[c] <=> v \in P[c])
    BY <1>3, <1>4
  <2>2. \A k, l \in 1..Len(o) : k < l => \A v \in S[o[k]], w \in S[o[l]] : new[v] < new[w]
    BY <1>4, <1>6, <1>7
  <2>. QED  BY <1>5, <1>6, <2>1, <2>2 DEF Renamed, OneToOne
<1>9. Junction(K, T, Q, up) /\ \A c \in K : T[c] = {} <=> S[c] = {}
  <2>1. Junction(K, T, Q, up)
    BY <1>1, <1>2, <1>8, RenamedJunction
  <2>. QED  BY <1>1, <2>1 DEF Junction
<1>10. \A c \in K : (u.snode[c] # <<>> <=> T[c] # {}) /\ (t.snode[c] # <<>> <=> S[c] # {})
  <2>. TAKE c \in K
  <2>1. u.snode[c] \in Seq(Vertices) /\ t.snode[c] \in Seq(Vertices)
    BY <1>1, <1>3
  <2>2. (u.snode[c] = <<>> <=> Elems(u.snode[c]) = {}) /\ (t.snode[c] = <<>> <=> Elems(t.snode[c]) = {})
    BY <2>1, ElemsOfSeq
  <2>. QED  BY <1>4, <2>2
<1>11. {c \in K : u.snode[c] # <<>>} = {c \in K : t.snode[c] # <<>>}
  BY <1>9, <1>10
<1>12. DOMAIN u.snode = K
  BY <1>3
<1>13. Well(u)
  <2>1. Members(u.snode) = T /\ Members(u.separators) = Q
    BY DEF T, Q
  <2>2. \A c \in K : Distinct(u.snode[c]) /\ Distinct(u.separators[c])
    BY <1>3
  <2>3. \A p \in K : Elems(u.children[p]) = {c \in K : u.parent[c] = p}
    BY <1>1, <1>3 DEF up
  <2>. QED  BY <1>1, <1>3, <1>9, <1>11, <1>12, <2>1, <2>2, <2>3 DEF Well
<1>14. InPostOrder(u)
  BY <1>2, <1>3, <1>12 DEF InPostOrder
<1>15. Arranged(u)
  <2>. SUFFICES ASSUME NEW k \in 1..Len(o), NEW l \in 1..Len(o), k < l,
                       NEW x \in Elems(u.snode[o[k]]), NEW y \in Elems(u.snode[o[l]])
                PROVE  x < y
    BY <1>3 DEF Arranged
  <2>1. x \in Vertices /\ y \in Vertices
    BY <1>4, <1>5, <1>7
  <2>2. PICK v \in Vertices : new[v] = x
    BY <1>6, <2>1 DEF OneToOne
  <2>3. PICK w \in Vertices : new[w] = y
    BY <1>6, <2>1 DEF OneToOne
  <2>4. v \in Elems(t.snode[o[k]]) /\ w \in Elems(t.snode[o[l]])
    BY <1>3, <1>7, <2>2, <2>3
  <2>. QED  BY <1>6, <2>2, <2>3, <2>4
<1>16. ASSUME NEW v \in Vertices, NEW w \in Vertices, Together(t, v, w) PROVE Together(u, new[v], new[w])
  <2>1. PICK c \in K : t.snode[c] # <<>> /\ {v, w} \subseteq Elems(t.snode[c]) \cup Elems(t.separators[c])
    BY <1>16 DEF Together, K
  <2>2. u.snode[c] # <<>> /\ {new[v], new[w]} \subseteq Elems(u.snode[c]) \cup Elems(u.separators[c])
    BY <1>3, <2>1
  <2>. QED  BY <1>12, <2>2 DEF Together
<1>. QED  BY <1>13, <1>14, <1>15, <1>16

\* A tree with other supernodes and separators.
LEMMA TreeExcept ==
  ASSUME NEW t, NEW K, t \in Trees(K), NEW a, NEW b
  PROVE  [t EXCEPT !.snode = a, !.separators = b]
           = [snode |-> a, parent |-> t.parent, children |-> t.children, snodePost |-> t.snodePost, post |-> t.post,
              separators |-> b, nCliques |-> t.nCliques, nblk |-> t.nblk]
<1>. DEFINE u == [t EXCEPT !.snode = a, !.separators = b]
<1>1. t = [snode |-> t.snode, parent |-> t.parent, children |-> t.children, snodePost |-> t.snodePost, post |-> t.post,
           separators |-> t.separators, nCliques |-> t.nCliques, nblk |-> t.nblk]
  BY DEF Trees
<1>2. u = [[t EXCEPT !.snode = a] EXCEPT !.separators = b]
  OBVIOUS
<1>3. [t EXCEPT !.snode = a]
        = [snode |-> a, parent |-> t.parent, children |-> t.children, snodePost |-> t.snodePost, post |-> t.post,
           separators |-> t.separators, nCliques |-> t.nCliques, nblk |-> t.nblk]
  BY <1>1
<1>. HIDE DEF u
<1>4. u = [snode |-> a, parent |-> t.parent, children |-> t.children, snodePost |-> t.snodePost, post |-> t.post,
           separators |-> b, nCliques |-> t.nCliques, nblk |-> t.nblk]
  BY <1>2, <1>3
<1>. QED  BY <1>4 DEF u

\* Counting the places of an array over 1..n.
LEMMA SeqOf ==
  ASSUME NEW n \in Nat, NEW f, f = [i \in 1..n |-> f[i]], \A i \in 1..n : f[i] \in Nat
  PROVE  f \in Seq(Nat)
OBVIOUS

\* reorder_snode_consecutively and calculate_block_dimensions put the new numbers
\* for the old ones and change nothing else.
LEMMA ReorderRelabels ==
  ASSUME NEW t, Well(t), InPostOrder(t), NEW ord
  PROVE  Relabelled(t, Renumbering(t), BlockDimensions(ReorderConsecutively(t, ord).tree))
<1>. DEFINE K == DOMAIN t.snode
            o == t.snodePost
            new == Renumbering(t)
            At(k) == SumOver([i \in DOMAIN t.snodePost |-> Len(t.snode[t.snodePost[i]])], 1..(k - 1))
            PostAt(c) == CHOOSE k \in DOMAIN t.snodePost : t.snodePost[k] = c
            snode == [c \in DOMAIN t.snode |->
                        IF c \in Elems(t.snodePost) THEN Consecutive(At(PostAt(c)), Len(t.snode[c])) ELSE t.snode[c]]
            seps == [c \in DOMAIN t.separators |-> [i \in DOMAIN t.separators[c] |-> new[t.separators[c][i]]]]
            mid == [t EXCEPT !.snode = snode, !.separators = seps]
            nblk == [i \in 1..t.nCliques |-> Len(seps[o[i]]) + Len(snode[o[i]])]
            u == BlockDimensions(ReorderConsecutively(t, ord).tree)
<1>1. ReorderConsecutively(t, ord).tree = mid
  BY DEF ReorderConsecutively
<1>2. t \in Trees(K) /\ t.snode \in [K -> Seq(Vertices)] /\ t.separators \in [K -> Seq(Vertices)]
      /\ t.nCliques \in Nat /\ o \in Seq(K)
  BY DEF Well, Trees
<1>3. Ordered(t)
  BY OrderedIs
<1>4. Renumbers(t, new)
  BY <1>3, RenumberingIs
<1>5. Len(o) = t.nCliques /\ Elems(o) = {c \in K : t.snode[c] # <<>>}
  BY WaitingFirst
<1>6. /\ Len(o) \in Nat /\ DOMAIN o = 1..Len(o) /\ Distinct(o)
      /\ \A k \in 1..Len(o) : /\ o[k] \in K /\ Sizes(t)[k] = Len(t.snode[o[k]]) /\ Sizes(t)[k] \in Nat
                              /\ FirstOf(t, k) \in Nat
  BY <1>3, FirstOfIs DEF Ordered
<1>7. \A k : At(k) = FirstOf(t, k)
  BY DEF FirstOf, Sizes
<1>8. ASSUME NEW k \in 1..Len(o) PROVE PostAt(o[k]) = k
  <2>1. \E i \in DOMAIN o : o[i] = o[k]
    BY <1>6
  <2>2. PostAt(o[k]) \in DOMAIN o /\ o[PostAt(o[k])] = o[k]
    BY <2>1
  <2>. HIDE DEF PostAt
  <2>. QED  BY <1>6, <2>2 DEF Distinct
<1>9. \A k \in 1..Len(o) : snode[o[k]] = Consecutive(FirstOf(t, k), Sizes(t)[k])
  <2>. TAKE k \in 1..Len(o)
  <2>1. o[k] \in K /\ o[k] \in Elems(o)
    BY <1>6 DEF Elems
  <2>2. snode[o[k]] = Consecutive(At(PostAt(o[k])), Len(t.snode[o[k]]))
    BY <2>1
  <2>. HIDE DEF PostAt, At, snode
  <2>3. At(PostAt(o[k])) = FirstOf(t, k) /\ Len(t.snode[o[k]]) = Sizes(t)[k]
    BY <1>6, <1>7, <1>8
  <2>. QED  BY <2>2, <2>3
<1>10. \A c \in K : c \notin Elems(o) => snode[c] = t.snode[c] /\ t.snode[c] = <<>>
  <2>1. \A c \in K : c \notin Elems(o) => snode[c] = t.snode[c]
    OBVIOUS
  <2>. HIDE DEF snode, K
  <2>. QED  BY <1>5, <2>1
<1>11. DOMAIN snode = K /\ DOMAIN seps = K /\ snode = [c \in K |-> snode[c]] /\ seps = [c \in K |-> seps[c]]
       /\ \A c \in K : seps[c] = [i \in DOMAIN t.separators[c] |-> new[t.separators[c][i]]]
  BY <1>2
<1>. HIDE DEF new, At, PostAt, snode, seps
<1>12. OneToOne(new) /\ new \in [Vertices -> Vertices]
  BY <1>4 DEF Renumbers, OneToOne
<1>13. ASSUME NEW c \in K
       PROVE  /\ seps[c] \in Seq(Vertices) /\ Distinct(seps[c])
              /\ \A v \in Vertices : new[v] \in Elems(seps[c]) <=> v \in Elems(t.separators[c])
  <2>. DEFINE s == t.separators[c]
              q == seps[c]
  <2>0. Distinct(s)
    BY DEF Well
  <2>1. s \in Seq(Vertices) /\ q = [i \in DOMAIN s |-> new[s[i]]]
    BY <1>2, <1>11
  <2>. HIDE DEF s, q
  <2>2. DOMAIN s = 1..Len(s) /\ Len(s) \in Nat /\ \A i \in 1..Len(s) : s[i] \in Vertices
    BY <2>1
  <2>3. q = [i \in 1..Len(s) |-> new[s[i]]] /\ \A i \in 1..Len(s) : new[s[i]] \in Vertices
    BY <1>12, <2>1, <2>2
  <2>4. q \in Seq(Vertices) /\ DOMAIN q = 1..Len(s)
    BY <2>2, <2>3
  <2>5. \A v \in Vertices : new[v] \in Elems(q) <=> v \in Elems(s)
    <3>. TAKE v \in Vertices
    <3>1. new[v] \in Elems(q) <=> \E i \in 1..Len(s) : new[v] = new[s[i]]
      BY <2>3, <2>4 DEF Elems
    <3>2. v \in Elems(s) <=> \E i \in 1..Len(s) : v = s[i]
      BY <2>2 DEF Elems
    <3>. QED  BY <1>12, <2>2, <3>1, <3>2 DEF OneToOne
  <2>6. Distinct(q)
    BY <1>12, <2>0, <2>2, <2>3, <2>4 DEF Distinct, OneToOne
  <2>. QED  BY <2>4, <2>5, <2>6 DEF s, q
<1>14. ASSUME NEW c \in K
       PROVE  /\ snode[c] \in Seq(Vertices) /\ Distinct(snode[c]) /\ (t.snode[c] # <<>> => snode[c] # <<>>)
              /\ \A v \in Vertices : new[v] \in Elems(snode[c]) <=> v \in Elems(t.snode[c])
  <2>0. Elems(<<>>) = {} /\ Distinct(<<>>) /\ <<>> \in Seq(Vertices)
    BY DEF Elems, Distinct
  <2>1. CASE c \notin Elems(o)
    <3>1. snode[c] = <<>> /\ t.snode[c] = <<>>
      BY <1>10, <2>1
    <3>. QED  BY <2>0, <3>1
  <2>2. CASE c \in Elems(o)
    <3>1. PICK k \in 1..Len(o) : o[k] = c
      BY <1>6, <2>2 DEF Elems
    <3>. DEFINE a == FirstOf(t, k)
                b == Sizes(t)[k]
    <3>2. a \in Nat /\ b \in Nat /\ \A x \in a..(a + b - 1) : x \in Vertices
      BY <1>4, <1>6 DEF Renumbers
    <3>3. snode[c] = Consecutive(a, b) /\ b = Len(t.snode[c])
      BY <1>6, <1>9, <3>1
    <3>4. \A v \in Vertices : v \in Elems(t.snode[c]) <=> new[v] \in a..(a + b - 1)
      BY <1>4, <3>1 DEF Renumbers
    <3>. HIDE DEF a, b
    <3>5. /\ snode[c] \in Seq(Vertices) /\ Distinct(snode[c]) /\ Len(snode[c]) = b
          /\ \A x : x \in Elems(snode[c]) <=> x \in a..(a + b - 1)
      BY <3>2, <3>3, ConsecutiveIs
    <3>6. t.snode[c] # <<>> => snode[c] # <<>>
      <4>1. t.snode[c] \in Seq(Vertices)
        BY <1>2
      <4>2. t.snode[c] # <<>> => Len(t.snode[c]) # 0
        BY <4>1
      <4>3. Len(<<>>) = 0
        OBVIOUS
      <4>. QED  BY <3>3, <3>5, <4>2, <4>3
    <3>. QED  BY <3>4, <3>5, <3>6
  <2>. QED  BY <2>1, <2>2
<1>15. u = [mid EXCEPT !.nblk = [i \in 1..mid.nCliques |-> Len(mid.separators[mid.snodePost[i]]) + Len(mid.snode[mid.snodePost[i]])]]
  <2>. HIDE DEF mid
  <2>. QED  BY <1>1 DEF BlockDimensions
<1>16. u = [snode |-> snode, parent |-> t.parent, children |-> t.children, snodePost |-> t.snodePost, post |-> t.post,
            separators |-> seps, nCliques |-> t.nCliques, nblk |-> nblk]
  <2>1. t = [snode |-> t.snode, parent |-> t.parent, children |-> t.children, snodePost |-> t.snodePost, post |-> t.post,
             separators |-> t.separators, nCliques |-> t.nCliques, nblk |-> t.nblk]
    BY <1>2 DEF Trees
  <2>2. mid = [snode |-> snode, parent |-> t.parent, children |-> t.children, snodePost |-> t.snodePost, post |-> t.post,
               separators |-> seps, nCliques |-> t.nCliques, nblk |-> t.nblk]
    <3>. HIDE DEF snode, seps
    <3>. QED  BY <1>2, TreeExcept
  <2>3. mid.nCliques = t.nCliques /\ mid.separators = seps /\ mid.snodePost = o /\ mid.snode = snode
    BY <2>2
  <2>4. u = [mid EXCEPT !.nblk = nblk]
    <3>. HIDE DEF mid, o
    <3>. QED  BY <1>15, <2>3
  <2>. HIDE DEF mid, nblk, u
  <2>. QED  BY <2>2, <2>4
<1>17. nblk \in Seq(Nat)
  <2>1. \A i \in 1..t.nCliques : nblk[i] \in Nat
    <3>. TAKE i \in 1..t.nCliques
    <3>1. o[i] \in K
      BY <1>5, <1>6
    <3>2. seps[o[i]] \in Seq(Vertices) /\ snode[o[i]] \in Seq(Vertices)
      BY <1>13, <1>14, <3>1
    <3>3. Len(seps[o[i]]) \in Nat /\ Len(snode[o[i]]) \in Nat
      BY <3>2
    <3>4. nblk[i] = Len(seps[o[i]]) + Len(snode[o[i]])
      OBVIOUS
    <3>. DEFINE x == Len(seps[o[i]])
                y == Len(snode[o[i]])
    <3>5. x \in Nat /\ y \in Nat /\ nblk[i] = x + y
      BY <3>3, <3>4
    <3>. HIDE DEF nblk, x, y
    <3>. QED  BY <3>5
  <2>2. nblk = [i \in 1..t.nCliques |-> nblk[i]]
    OBVIOUS
  <2>. DEFINE n == t.nCliques
  <2>. HIDE DEF nblk, o, K
  <2>3. n \in Nat
    BY <1>2
  <2>. HIDE DEF n
  <2>. QED  BY <2>1, <2>2, <2>3, SeqOf DEF n
<1>20. Sized(u)
  <2>1. u.nblk = nblk /\ u.nCliques = t.nCliques /\ u.separators = seps /\ u.snode = snode /\ u.snodePost = o
    BY <1>16
  <2>. HIDE DEF u
  <2>. QED  BY <2>1 DEF Sized
<1>. HIDE DEF u, nblk
<1>18. u \in Trees(K)
  <2>1. snode \in [K -> Seq(Vertices)] /\ seps \in [K -> Seq(Vertices)]
    BY <1>11, <1>13, <1>14
  <2>2. t.parent \in [K -> Int] /\ t.children \in [K -> Seq(K)] /\ t.post \in Seq(Vertices)
    BY <1>2 DEF Trees
  <2>. HIDE DEF K
  <2>. QED  BY <1>2, <1>16, <1>17, <2>1, <2>2 DEF Trees
<1>19. Relabelled(t, new, u)
  <2>1. u.parent = t.parent /\ u.children = t.children /\ u.snodePost = t.snodePost /\ u.nCliques = t.nCliques
        /\ u.snode = snode /\ u.separators = seps
    BY <1>16
  <2>. QED  BY <1>13, <1>14, <1>18, <1>20, <2>1 DEF Relabelled
<1>. QED  BY <1>19 DEF new, u

\* They leave a clique tree, and an ordering that maps the new numbers to the
\* vertices the old ones stood for.
LEMMA ReorderIs ==
  ASSUME NEW t, Well(t), InPostOrder(t), NEW ord, Reordering(ord)
  PROVE  LET r == ReorderConsecutively(t, ord)  u == BlockDimensions(r.tree) IN
         /\ Well(u) /\ InPostOrder(u) /\ Arranged(u) /\ Sized(u) /\ u.nCliques = t.nCliques /\ Reordering(r.ordering)
         /\ \A v, w \in Vertices : Together(t, InversePerm(ord)[v], InversePerm(ord)[w])
                                     => Together(u, InversePerm(r.ordering)[v], InversePerm(r.ordering)[w])
<1>. DEFINE r == ReorderConsecutively(t, ord)
            u == BlockDimensions(r.tree)
            new == Renumbering(t)
            ord2 == r.ordering
<1>1. Relabelled(t, new, u)
  BY ReorderRelabels
<1>2. Ordered(t) /\ Order \in Nat \ {0}
  <2>1. Ordered(t)
    BY OrderedIs
  <2>. QED  BY <2>1 DEF Ordered
<1>3. Renumbers(t, new) /\ OneToOne(new)
  <2>1. Renumbers(t, new)
    BY <1>2, RenumberingIs
  <2>. QED  BY <2>1 DEF Renumbers
<1>4. OneToOne(ord)
  BY <1>2, ReorderingIsOneToOne
<1>5. ord2 = [i \in DOMAIN InversePerm(new) |-> ord[InversePerm(new)[i]]]
  BY DEF ReorderConsecutively, IPermuteArray, PermuteArray
<1>. HIDE DEF u, new, ord2, r
<1>6. /\ Well(u) /\ InPostOrder(u) /\ Arranged(u)
      /\ \A v, w \in Vertices : Together(t, v, w) => Together(u, new[v], new[w])
  BY <1>1, <1>3, RelabelledIs
<1>7. /\ OneToOne(InversePerm(new)) /\ DOMAIN InversePerm(new) = Vertices
      /\ \A v \in Vertices : new[InversePerm(new)[v]] = v /\ InversePerm(new)[new[v]] = v
  BY <1>3, InverseIs
<1>8. /\ OneToOne(InversePerm(ord))
      /\ \A v \in Vertices : ord[InversePerm(ord)[v]] = v /\ InversePerm(ord)[ord[v]] = v
  BY <1>4, InverseIs
<1>9. ord2 \in [Vertices -> Vertices] /\ \A i \in Vertices : ord2[i] = ord[InversePerm(new)[i]]
  BY <1>4, <1>5, <1>7 DEF OneToOne
<1>10. OneToOne(ord2)
  <2>1. \A v, w \in Vertices : ord2[v] = ord2[w] => v = w
    BY <1>4, <1>7, <1>9 DEF OneToOne
  <2>2. ASSUME NEW x \in Vertices PROVE \E v \in Vertices : ord2[v] = x
    <3>1. PICK i \in Vertices : ord[i] = x
      BY <1>4 DEF OneToOne
    <3>2. new[i] \in Vertices /\ InversePerm(new)[new[i]] = i
      BY <1>3, <1>7 DEF OneToOne
    <3>. QED  BY <1>9, <3>1, <3>2
  <2>. QED  BY <1>9, <2>1, <2>2 DEF OneToOne
<1>11. \A v \in Vertices : ord2[InversePerm(ord2)[v]] = v /\ InversePerm(ord2)[ord2[v]] = v
  BY <1>10, InverseIs
<1>12. ASSUME NEW v \in Vertices PROVE InversePerm(ord2)[v] = new[InversePerm(ord)[v]] /\ InversePerm(ord)[v] \in Vertices
  <2>. DEFINE i == InversePerm(ord)[v]
  <2>1. i \in Vertices /\ ord[i] = v
    BY <1>8 DEF OneToOne
  <2>2. new[i] \in Vertices /\ InversePerm(new)[new[i]] = i
    BY <1>3, <1>7, <2>1 DEF OneToOne
  <2>3. ord2[new[i]] = v
    BY <1>9, <2>1, <2>2
  <2>. QED  BY <1>11, <2>1, <2>2, <2>3
<1>13. ASSUME NEW v \in Vertices, NEW w \in Vertices, Together(t, InversePerm(ord)[v], InversePerm(ord)[w])
       PROVE  Together(u, InversePerm(ord2)[v], InversePerm(ord2)[w])
  BY <1>6, <1>12, <1>13
<1>14. Reordering(ord2)
  BY <1>10 DEF Reordering, OneToOne
<1>15. u.nCliques = t.nCliques /\ Sized(u)
  BY <1>1 DEF Relabelled
<1>. QED  BY <1>6, <1>13, <1>14, <1>15 DEF u, ord2, r

-----------------------------------------------------------------------------
(* A pattern is a clique tree                                               *)

\* The clique of a supernode is the supernode with its separator.
LEMMA CliqueOfIs ==
  ASSUME NEW t, Well(t), NEW c \in DOMAIN t.snode
  PROVE  Elems(CliqueOf(t, c)) = Elems(t.snode[c]) \cup Elems(t.separators[c])
<1>1. t.snode[c] \in Seq(Vertices) /\ t.separators[c] \in Seq(Vertices)
  BY DEF Well, Trees
<1>. QED  BY <1>1, OrderedUnionIs DEF CliqueOf

\* Every nonzero of the cone lies within one clique.
Kept(t, m, ord) ==
  \A k \in m : Together(t, InversePerm(ord)[IndexToCoord(k)[1]], InversePerm(ord)[IndexToCoord(k)[2]])

\* Entries kept together by a clique are covered.
LEMMA KeptIsCovered ==
  ASSUME Well(tree), Kept(tree, mask, ordering)
  PROVE  Covered
<1>. DEFINE v(k) == InversePerm(ordering)[IndexToCoord(k)[1]]
            w(k) == InversePerm(ordering)[IndexToCoord(k)[2]]
<1>1. ASSUME NEW k \in mask PROVE \E c \in Active : {v(k), w(k)} \subseteq VerticesOf(c)
  <2>1. Together(tree, v(k), w(k))
    BY DEF Kept
  <2>. HIDE DEF v, w
  <2>2. PICK c \in DOMAIN tree.snode : tree.snode[c] # <<>>
                 /\ {v(k), w(k)} \subseteq Elems(tree.snode[c]) \cup Elems(tree.separators[c])
    BY <2>1 DEF Together
  <2>3. Elems(CliqueOf(tree, c)) = Elems(tree.snode[c]) \cup Elems(tree.separators[c])
    BY CliqueOfIs
  <2>. QED  BY <2>2, <2>3 DEF Active, VerticesOf
<1>. QED  BY <1>1 DEF Covered

\* A junction in post order is a clique tree.
CliqueTreeHolds ==
  /\ Len(tree.snodePost) = tree.nCliques /\ Elems(tree.snodePost) = Active
  /\ \A v \in Vertices : Cardinality({c \in Active : Has(tree.snode[c], v)}) = 1
  /\ \A k \in 1..(tree.nCliques - 1) :
       LET c == tree.snodePost[k]  p == tree.parent[c] IN
       /\ p \in {tree.snodePost[m] : m \in (k + 1)..tree.nCliques}
       /\ Elems(tree.separators[c]) = VerticesOf(c) \cap VerticesOf(p)
       /\ Elems(tree.separators[c]) \cap Elems(tree.snode[c]) = {}
  /\ \A a, b \in Active : VerticesOf(a) \subseteq VerticesOf(b) => a = b

\* What the invariant says of a pattern is what TreeIsCliqueTree asks for.
LEMMA WellIsCliqueTree ==
  ASSUME Well(tree), InPostOrder(tree)
  PROVE  CliqueTreeHolds
<1>. DEFINE K == DOMAIN tree.snode
            o == tree.snodePost
            up == tree.parent
            S == Members(tree.snode)
            P == Members(tree.separators)
            n == tree.nCliques
<1>1. Junction(K, S, P, up) /\ tree.snode \in [K -> Seq(Vertices)] /\ tree.separators \in [K -> Seq(Vertices)]
  BY DEF Well, Trees
<1>2. PICK r \in K : up[r] = NoParent /\ Posted(K, up, r, o)
  BY DEF InPostOrder
<1>3. \A c \in K : /\ S[c] = Elems(tree.snode[c]) /\ P[c] = Elems(tree.separators[c])
                   /\ VerticesOf(c) = S[c] \cup P[c] /\ (tree.snode[c] # <<>> <=> S[c] # {})
  <2>. TAKE c \in K
  <2>1. S[c] = Elems(tree.snode[c]) /\ P[c] = Elems(tree.separators[c])
    BY <1>1 DEF Members
  <2>2. tree.snode[c] \in Seq(Vertices)
    BY <1>1
  <2>3. tree.snode[c] = <<>> <=> Elems(tree.snode[c]) = {}
    BY <2>2, ElemsOfSeq
  <2>4. Elems(CliqueOf(tree, c)) = Elems(tree.snode[c]) \cup Elems(tree.separators[c])
    BY CliqueOfIs
  <2>. QED  BY <2>1, <2>3, <2>4 DEF VerticesOf
<1>4. Len(o) = n /\ Elems(o) = Active /\ Active \subseteq K /\ Waiting(tree, Len(o) - 1)
  BY WaitingFirst DEF Active
<1>5. \A c \in K : c \in Active <=> S[c] # {}
  BY <1>3 DEF Active
<1>. HIDE DEF K, S, P, o, up, n
<1>6. ASSUME NEW v \in Vertices PROVE Cardinality({c \in Active : Has(tree.snode[c], v)}) = 1
  <2>1. PICK c \in K : v \in S[c]
    BY <1>1 DEF Junction
  <2>2. \A d \in K : d # c => v \notin S[d]
    BY <1>1, <2>1 DEF Junction
  <2>3. {d \in Active : Has(tree.snode[d], v)} = {c}
    BY <1>3, <1>4, <1>5, <2>1, <2>2 DEF Has
  <2>. QED  BY <2>3, FS_Singleton
<1>7. o \in Seq(K) /\ ParentsLater(up, r, o) /\ Len(o) \in Nat /\ Distinct(o) /\ DOMAIN o = 1..Len(o)
  BY <1>2 DEF Posted
<1>8. ASSUME NEW k \in 1..(n - 1)
      PROVE  /\ up[o[k]] \in {o[m] : m \in (k + 1)..n}
             /\ Elems(tree.separators[o[k]]) = VerticesOf(o[k]) \cap VerticesOf(up[o[k]])
             /\ Elems(tree.separators[o[k]]) \cap Elems(tree.snode[o[k]]) = {}
  <2>1. n \in Nat /\ k \in 1..n /\ k \in Nat
    BY <1>4, <1>7
  <2>2. o[k] \in K
    BY <1>4, <1>7, <2>1
  <2>3. up[o[k]] \notin {NoParent, Inactive}
    BY <1>4, <1>7 DEF Waiting, o, up
  <2>4. o[k] # r
    BY <1>2, <2>3
  <2>5. PICK m \in (k + 1)..Len(o) : o[m] = up[o[k]]
    BY <1>4, <1>7, <2>1, <2>4 DEF ParentsLater
  <2>6. /\ up[o[k]] \in K /\ P[o[k]] = (S[o[k]] \cup P[o[k]]) \cap (S[up[o[k]]] \cup P[up[o[k]]])
        /\ P[o[k]] \cap S[o[k]] = {}
    BY <1>1, <2>2, <2>3, SeparatorIs
  <2>. QED  BY <1>3, <1>4, <2>2, <2>5, <2>6
<1>9. ASSUME NEW a \in Active, NEW b \in Active, VerticesOf(a) \subseteq VerticesOf(b)
      PROVE  a = b
  <2>1. a \in K /\ b \in K /\ S[a] # {} /\ S[a] \cup P[a] \subseteq S[b] \cup P[b]
    BY <1>3, <1>4, <1>5, <1>9
  <2>. QED  BY <1>1, <2>1, Maximal
<1>10. \A k \in 1..(tree.nCliques - 1) :
       LET c == tree.snodePost[k]  p == tree.parent[c] IN
       /\ p \in {tree.snodePost[m] : m \in (k + 1)..tree.nCliques}
       /\ Elems(tree.separators[c]) = VerticesOf(c) \cap VerticesOf(p)
       /\ Elems(tree.separators[c]) \cap Elems(tree.snode[c]) = {}
  BY <1>8 DEF o, up, n
<1>. QED  BY <1>4, <1>6, <1>9, <1>10 DEF CliqueTreeHolds, o, n

-----------------------------------------------------------------------------
(* The completion                                                           *)

\* The vertices of the supernodes from post position k on, and what is known
\* of W once the cliques from there on are completed.
Above(k) == {v \in Vertices : \E m \in k..tree.nCliques : v \in Elems(tree.snode[tree.snodePost[m]])}
FixedPairs == UNION {CliquePairs(k) : k \in 1..tree.nCliques}
KnownFrom(k) == FixedPairs \cup (Above(k) \X Above(k))

\* The separator of a clique lies above it, and so does what its column lacks.
LEMMA AboveIs ==
  ASSUME Well(tree), InPostOrder(tree), Arranged(tree), NEW k \in 1..tree.nCliques,
         NEW c, c = tree.snodePost[k], NEW nu, nu = Elems(tree.snode[c]), NEW alpha, alpha = Elems(tree.separators[c])
  PROVE  /\ c \in DOMAIN tree.snode /\ nu \subseteq Vertices /\ nu # {} /\ alpha \subseteq Above(k + 1)
         /\ Above(k) = Above(k + 1) \cup nu /\ nu \cap Above(k + 1) = {}
         /\ \A x \in nu, e \in Above(k + 1) : x < e
         /\ \A e : e \in ((Least(nu) + 1)..(Order - 1)) \ (alpha \cup nu) <=> e \in Above(k + 1) \ alpha
         /\ CliquePairs(k) = (nu \cup alpha) \X (nu \cup alpha)
<1>. DEFINE K == DOMAIN tree.snode
            o == tree.snodePost
            S == Members(tree.snode)
            P == Members(tree.separators)
            n == tree.nCliques
<1>1. Junction(K, S, P, tree.parent) /\ tree.snode \in [K -> Seq(Vertices)] /\ tree.separators \in [K -> Seq(Vertices)]
      /\ o \in Seq(K) /\ n \in Nat
  BY DEF Well, Trees
<1>2. Len(o) = n /\ Elems(o) = {d \in K : tree.snode[d] # <<>>}
  BY WaitingFirst
<1>3. \A d \in K : S[d] = Elems(tree.snode[d]) /\ P[d] = Elems(tree.separators[d])
  BY <1>1 DEF Members
<1>4. DOMAIN o = 1..n /\ \A m \in 1..n : o[m] \in K /\ o[m] \in Elems(o)
  BY <1>1, <1>2 DEF Elems
<1>5. CliquePairs(k) = (nu \cup alpha) \X (nu \cup alpha)
  <2>1. c \in DOMAIN tree.snode
    BY <1>4
  <2>2. Elems(CliqueOf(tree, c)) = nu \cup alpha
    BY <2>1, CliqueOfIs
  <2>. QED  BY <2>2 DEF CliquePairs
<1>6. \A i, j \in 1..n : i < j => \A v \in Elems(tree.snode[o[i]]), w \in Elems(tree.snode[o[j]]) : v < w
  BY <1>2 DEF Arranged
<1>7. \A i : \A v : v \in Above(i) <=> v \in Vertices /\ \E m \in i..n : v \in Elems(tree.snode[o[m]])
  BY DEF Above
<1>. HIDE DEF K, S, P, o, n
<1>8. c \in K /\ nu = S[c] /\ alpha = P[c] /\ c \in Elems(o) /\ k \in 1..n /\ o[k] = c
  BY <1>3, <1>4 DEF o, n
<1>9. nu \subseteq Vertices /\ alpha \subseteq Vertices /\ \A x \in nu, y \in alpha : x < y
  BY <1>1, <1>8 DEF Junction
<1>10. nu # {}
  <2>1. tree.snode[c] \in Seq(Vertices) /\ tree.snode[c] # <<>>
    BY <1>1, <1>2, <1>8
  <2>. QED  BY <2>1, ElemsOfSeq
<1>11. Vertices \in SUBSET Nat /\ Order \in Nat /\ \A v : v \in Vertices <=> v \in Nat /\ v <= Order - 1
  BY <1>1 DEF Junction, Vertices
<1>12. ASSUME NEW v \in Vertices PROVE \E m \in 1..n : v \in Elems(tree.snode[o[m]])
  <2>1. PICK d \in K : v \in S[d]
    BY <1>1 DEF Junction
  <2>2. tree.snode[d] \in Seq(Vertices) /\ v \in Elems(tree.snode[d])
    BY <1>1, <1>3, <2>1
  <2>3. tree.snode[d] # <<>>
    BY <2>2, ElemsOfSeq
  <2>4. d \in Elems(o)
    BY <1>2, <2>3
  <2>5. PICK m \in 1..n : o[m] = d
    BY <1>4, <2>4 DEF Elems
  <2>. QED  BY <2>2, <2>5
<1>13. \A x \in nu : x \in Elems(tree.snode[o[k]])
  BY <1>8
<1>14. \A x \in nu, e \in Above(k + 1) : x < e
  <2>. SUFFICES ASSUME NEW x \in nu, NEW e \in Above(k + 1) PROVE x < e
    OBVIOUS
  <2>1. PICK m \in (k + 1)..n : e \in Elems(tree.snode[o[m]])
    BY <1>7
  <2>2. m \in 1..n /\ k < m
    BY <1>1, <1>8
  <2>. QED  BY <1>6, <1>8, <1>13, <2>1, <2>2
<1>15. nu \cap Above(k + 1) = {}
  BY <1>9, <1>11, <1>14
<1>16. ASSUME NEW e \in Vertices, NEW x \in nu, x < e, e \notin nu PROVE e \in Above(k + 1)
  <2>1. PICK m \in 1..n : e \in Elems(tree.snode[o[m]])
    BY <1>12
  <2>2. m # k
    BY <1>8, <1>16, <2>1
  <2>3. ~ (m < k)
    <3>1. m < k => e < x
      BY <1>6, <1>8, <1>13, <2>1
    <3>. QED  BY <1>9, <1>11, <1>16, <3>1
  <2>4. m \in (k + 1)..n
    BY <1>1, <1>8, <2>2, <2>3
  <2>. QED  BY <1>7, <2>1, <2>4
<1>17. alpha \subseteq Above(k + 1)
  <2>. SUFFICES ASSUME NEW y \in alpha PROVE y \in Above(k + 1)
    OBVIOUS
  <2>1. PICK x \in nu : TRUE
    BY <1>10
  <2>2. x < y /\ y \in Vertices
    BY <1>9
  <2>3. y \notin nu
    BY <1>9, <1>11
  <2>. QED  BY <1>16, <2>2, <2>3
<1>18. Above(k) = Above(k + 1) \cup nu
  <2>1. \A m : m \in k..n <=> m = k \/ m \in (k + 1)..n
    BY <1>1, <1>8
  <2>2. \A v : v \in Above(k) <=> v \in Above(k + 1) \/ v \in nu
    BY <1>7, <1>8, <1>9, <1>3, <2>1
  <2>. QED  BY <2>2
<1>19. Least(nu) \in nu /\ \A x \in nu : Least(nu) <= x
  <2>1. nu \in SUBSET Nat
    BY <1>9, <1>11
  <2>. QED  BY <1>10, <2>1, LeastIs
<1>20. ASSUME NEW e PROVE e \in ((Least(nu) + 1)..(Order - 1)) \ (alpha \cup nu) <=> e \in Above(k + 1) \ alpha
  <2>. DEFINE l == Least(nu)
  <2>0. l \in nu /\ l \in Nat
    BY <1>9, <1>11, <1>19
  <2>. HIDE DEF l
  <2>1. ASSUME e \in ((l + 1)..(Order - 1)) \ (alpha \cup nu) PROVE e \in Above(k + 1) \ alpha
    <3>1. e \in Vertices /\ l < e /\ e \notin nu /\ e \notin alpha
      BY <1>11, <2>0, <2>1
    <3>. QED  BY <1>16, <2>0, <3>1
  <2>2. ASSUME e \in Above(k + 1) \ alpha PROVE e \in ((l + 1)..(Order - 1)) \ (alpha \cup nu)
    <3>1. e \in Vertices /\ l < e /\ e \notin nu
      BY <1>7, <1>14, <1>15, <2>0, <2>2
    <3>2. e \in (l + 1)..(Order - 1)
      BY <1>11, <2>0, <3>1
    <3>. QED  BY <2>2, <3>1, <3>2
  <2>. QED  BY <2>1, <2>2 DEF l
<1>. QED  BY <1>5, <1>8, <1>9, <1>10, <1>14, <1>15, <1>17, <1>18, <1>20 DEF K

\* One step of the completion.
LEMMA CompletionStep ==
  ASSUME Well(tree), InPostOrder(tree), Arranged(tree), NEW k \in 1..(tree.nCliques - 1)
  PROVE  LET b == CompletionBlocks(k) IN
         /\ b.reads \subseteq KnownFrom(k + 1) /\ b.writes \cap KnownFrom(k + 1) = {}
         /\ KnownFrom(k + 1) \cup b.writes = KnownFrom(k)
<1>. DEFINE c == tree.snodePost[k]
            nu == Elems(tree.snode[c])
            alpha == Elems(tree.separators[c])
            eta == ((Least(nu) + 1)..(Order - 1)) \ (alpha \cup nu)
            U == Above(k + 1)
            n == tree.nCliques
            o == tree.snodePost
            S == Members(tree.snode)
            P == Members(tree.separators)
            K == DOMAIN tree.snode
<1>1. Junction(K, S, P, tree.parent) /\ tree.snode \in [K -> Seq(Vertices)] /\ tree.separators \in [K -> Seq(Vertices)]
      /\ n \in Nat
  BY DEF Well, Trees
<1>2. k \in 1..n /\ k \in Nat
  BY <1>1
<1>3. /\ c \in K /\ nu \subseteq Vertices /\ nu # {} /\ alpha \subseteq U
      /\ Above(k) = U \cup nu /\ nu \cap U = {}
      /\ \A x \in nu, e \in U : x < e
      /\ \A e : e \in eta <=> e \in U \ alpha
      /\ CliquePairs(k) = (nu \cup alpha) \X (nu \cup alpha)
  <2>. HIDE DEF c, nu, alpha
  <2>1. k \in 1..tree.nCliques /\ c = tree.snodePost[k] /\ nu = Elems(tree.snode[c]) /\ alpha = Elems(tree.separators[c])
    BY <1>2 DEF c, nu, alpha
  <2>. QED  BY <2>1, AboveIs
<1>4. CompletionBlocks(k) = [reads |-> (alpha \X alpha) \cup (alpha \X nu) \cup (eta \X alpha),
                             writes |-> (eta \X nu) \cup (nu \X eta)]
  BY DEF CompletionBlocks
<1>5. \A d \in K : S[d] = Elems(tree.snode[d]) /\ P[d] = Elems(tree.separators[d])
  BY <1>1 DEF Members
<1>6. \A j \in 1..n : CliquePairs(j) = (S[o[j]] \cup P[o[j]]) \X (S[o[j]] \cup P[o[j]]) /\ o[j] \in K
  <2>. TAKE j \in 1..n
  <2>. DEFINE d == o[j]
              mu == Elems(tree.snode[d])
              beta == Elems(tree.separators[d])
  <2>1. d = tree.snodePost[j] /\ mu = Elems(tree.snode[d]) /\ beta = Elems(tree.separators[d]) /\ j \in 1..tree.nCliques
    OBVIOUS
  <2>. HIDE DEF d, mu, beta
  <2>2. d \in DOMAIN tree.snode /\ CliquePairs(j) = (mu \cup beta) \X (mu \cup beta)
    BY <2>1, AboveIs
  <2>. QED  BY <1>5, <2>2 DEF d, mu, beta
<1>7. \A p : p \in FixedPairs <=> \E j \in 1..n : p \in CliquePairs(j)
  BY DEF FixedPairs
<1>8. /\ KnownFrom(k + 1) = FixedPairs \cup (U \X U) /\ KnownFrom(k) = FixedPairs \cup (Above(k) \X Above(k))
      /\ U \subseteq Vertices
  BY DEF KnownFrom, Above
<1>. HIDE DEF c, nu, alpha, eta, U, n, o, S, P, K
<1>9. CliquePairs(k) \subseteq FixedPairs
  BY <1>2, <1>7
<1>10. ASSUME NEW x \in nu, NEW e \in eta PROVE <<x, e>> \notin FixedPairs /\ <<e, x>> \notin FixedPairs
  <2>1. x < e /\ e \notin alpha /\ e \in U
    BY <1>3
  <2>2. nu = S[c] /\ alpha = P[c]
    BY <1>3, <1>5 DEF nu, alpha
  <2>3. ASSUME NEW j \in 1..n, {x, e} \subseteq S[o[j]] \cup P[o[j]] PROVE FALSE
    <3>1. o[j] \in K /\ x \in S[c]
      BY <1>6, <2>2
    <3>2. e \in S[c] \cup P[c]
      BY <1>1, <1>3, <2>1, <2>3, <3>1, Between
    <3>. QED  BY <1>3, <2>1, <2>2, <3>2
  <2>. QED  BY <1>6, <1>7, <2>3
<1>11. ((alpha \X alpha) \cup (alpha \X nu) \cup (eta \X alpha)) \subseteq KnownFrom(k + 1)
  BY <1>3, <1>8, <1>9
<1>12. ((eta \X nu) \cup (nu \X eta)) \cap KnownFrom(k + 1) = {}
  <2>1. \A x \in nu : x \notin U
    BY <1>3
  <2>2. \A x \in nu, e \in eta : <<x, e>> \notin KnownFrom(k + 1) /\ <<e, x>> \notin KnownFrom(k + 1)
    BY <1>8, <1>10, <2>1
  <2>3. \A p \in (eta \X nu) \cup (nu \X eta) : \E x \in nu, e \in eta : p = <<x, e>> \/ p = <<e, x>>
    OBVIOUS
  <2>4. ASSUME NEW p \in (eta \X nu) \cup (nu \X eta) PROVE p \notin KnownFrom(k + 1)
    <3>. DEFINE T == KnownFrom(k + 1)
    <3>1. PICK x \in nu, e \in eta : p = <<x, e>> \/ p = <<e, x>>
      BY <2>3
    <3>2. <<x, e>> \notin T /\ <<e, x>> \notin T
      BY <2>2
    <3>. HIDE DEF T
    <3>3. p \notin T
      BY <3>1, <3>2
    <3>. QED  BY <3>3 DEF T
  <2>. QED  BY <2>4
<1>13. KnownFrom(k + 1) \cup ((eta \X nu) \cup (nu \X eta)) = KnownFrom(k)
  <2>1. \A x, e : <<x, e>> \in (U \cup nu) \X (U \cup nu) =>
           \/ <<x, e>> \in U \X U \/ <<x, e>> \in CliquePairs(k) \/ <<x, e>> \in eta \X nu \/ <<x, e>> \in nu \X eta
    BY <1>3
  <2>2. (eta \X nu) \cup (nu \X eta) \cup (U \X U) \subseteq (U \cup nu) \X (U \cup nu)
    BY <1>3
  <2>3. KnownFrom(k) \subseteq KnownFrom(k + 1) \cup ((eta \X nu) \cup (nu \X eta))
    BY <1>3, <1>8, <1>9, <2>1
  <2>. QED  BY <1>3, <1>8, <2>2, <2>3
<1>. QED  BY <1>4, <1>11, <1>12, <1>13

\* The completion visits every clique but the root, parents first, and ends with all of W.
LEMMA PsdCompleteIs ==
  ASSUME Well(tree), InPostOrder(tree), Arranged(tree)
  PROVE  PsdComplete.sound /\ PsdComplete.known = Vertices \X Vertices
<1>. DEFINE N == tree.nCliques
            o == CompletionOrder
            After(i) == [known |-> KnownFrom(N - i), sound |-> TRUE]
<1>. DEFINE n == Len(o)
            Op(st, k) == LET b == CompletionBlocks(k) IN
                           [known |-> st.known \cup b.writes,
                            sound |-> st.sound /\ b.reads \subseteq st.known /\ b.writes \cap st.known = {}]
            base == [known |-> UNION {CliquePairs(k) : k \in 1..tree.nCliques}, sound |-> TRUE]
            D == {After(i) : i \in 0..n}
            I == [i \in 0..n |-> {After(i)}]
            Step(f, i) == CHOOSE r \in {Op(before, o[i]) : before \in {f[i - 1]}} : TRUE
            IsFold(f) == f = [i \in 0..n |-> IF i = 0 THEN base ELSE Step(f, i)]
            G == [p \in D \X (1..n) |-> Op(p[1], o[p[2]])]
            h == CHOOSE f : IsFold(f)
<1>1. PsdComplete = h[n]
  BY DEF PsdComplete, Fold
<1>2. N \in Nat \ {0} /\ Len(tree.snodePost) = N /\ tree.snodePost \in Seq(DOMAIN tree.snode)
  <2>1. Len(tree.snodePost) = N
    BY WaitingFirst
  <2>2. tree.snodePost \in Seq(DOMAIN tree.snode) /\ N \in Nat
    BY DEF Well, Trees
  <2>3. PICK r \in DOMAIN tree.snode : tree.parent[r] = NoParent /\ Posted(DOMAIN tree.snode, tree.parent, r, tree.snodePost)
    BY DEF InPostOrder
  <2>4. r \in Elems(tree.snodePost)
    BY <2>3 DEF Posted, NoParent, Inactive
  <2>5. DOMAIN tree.snodePost = 1..N
    BY <2>1, <2>2
  <2>6. \E i \in 1..N : tree.snodePost[i] = r
    BY <2>4, <2>5 DEF Elems
  <2>7. N # 0
    BY <2>6
  <2>. QED  BY <2>1, <2>2, <2>7
<1>3. n = N - 1 /\ n \in Nat /\ \A i \in 1..n : o[i] = N - i
  <2>1. o = [i \in 1..(N - 1) |-> N - i]
    BY DEF CompletionOrder
  <2>. HIDE DEF N, o
  <2>2. N - 1 \in Nat
    BY <1>2
  <2>. QED  BY <2>1, <2>2
<1>4. base = After(0)
  <2>1. ASSUME NEW p \in Above(N) \X Above(N) PROVE p \in FixedPairs
    <3>. DEFINE c == tree.snodePost[N]
                nu == Elems(tree.snode[c])
                alpha == Elems(tree.separators[c])
    <3>1. N \in 1..tree.nCliques /\ c = tree.snodePost[N] /\ nu = Elems(tree.snode[c]) /\ alpha = Elems(tree.separators[c])
      BY <1>2
    <3>. HIDE DEF c, nu, alpha
    <3>2. Above(N) = Above(N + 1) \cup nu /\ CliquePairs(N) = (nu \cup alpha) \X (nu \cup alpha)
      BY <3>1, AboveIs
    <3>3. Above(N + 1) = {}
      BY <1>2 DEF Above
    <3>4. p \in CliquePairs(N)
      BY <2>1, <3>2, <3>3
    <3>. QED  BY <3>1, <3>4 DEF FixedPairs
  <2>2. N - 0 = N
    BY <1>2
  <2>3. KnownFrom(N) = FixedPairs
    BY <2>1 DEF KnownFrom
  <2>. QED  BY <2>2, <2>3 DEF FixedPairs
<1>5. n \in Nat /\ base \in I[0] /\ \A i \in 0..n : I[i] \subseteq D
  <2>. HIDE DEF n, base, After
  <2>. QED  BY <1>3, <1>4
<1>6. \A i \in 1..n : \A x \in I[i - 1] : Op(x, o[i]) \in I[i]
  <2>. SUFFICES ASSUME NEW i \in 1..n, NEW x \in I[i - 1] PROVE Op(x, o[i]) \in I[i]
    OBVIOUS
  <2>1. i - 1 \in 0..n /\ i \in 0..n /\ o[i] = N - i /\ N - i \in 1..(N - 1) /\ (N - i) + 1 = N - (i - 1)
    <3>. HIDE DEF n, o, N
    <3>. QED  BY <1>2, <1>3
  <2>2. x = After(i - 1)
    <3>. HIDE DEF n, After
    <3>. QED  BY <2>1
  <2>. DEFINE b == CompletionBlocks(N - i)
              T == KnownFrom((N - i) + 1)
  <2>3. b.reads \subseteq T /\ b.writes \cap T = {} /\ T \cup b.writes = KnownFrom(N - i)
    <3>. DEFINE k == N - i
    <3>1. k \in 1..(tree.nCliques - 1)
      BY <2>1
    <3>. HIDE DEF k
    <3>2. LET d == CompletionBlocks(k) IN
            /\ d.reads \subseteq KnownFrom(k + 1) /\ d.writes \cap KnownFrom(k + 1) = {}
            /\ KnownFrom(k + 1) \cup d.writes = KnownFrom(k)
      BY <3>1, CompletionStep
    <3>. QED  BY <3>2 DEF k
  <2>4. x.known = T /\ x.sound = TRUE
    BY <2>1, <2>2
  <2>5. Op(x, o[i]) = [known |-> x.known \cup b.writes,
                       sound |-> x.sound /\ b.reads \subseteq x.known /\ b.writes \cap x.known = {}]
    <3>. HIDE DEF o, N
    <3>. QED  BY <2>1
  <2>. HIDE DEF b, T, Op
  <2>6. Op(x, o[i]) = After(i)
    BY <2>3, <2>4, <2>5
  <2>. HIDE DEF n, After
  <2>. QED  BY <2>1, <2>6
<1>7. h[n] \in I[n]
  <2>. HIDE DEF n, Op, base, D, I, o, After, N
  <2>1. (\A f, i : Step(f, i) = Op(f[i - 1], o[i])) /\ \A x \in D, i \in 1..n : G[<<x, i>>] = Op(x, o[i])
    OBVIOUS
  <2>2. Invariant(D, I, base, n, G)
    <3>1. ASSUME NEW i \in 1..n, NEW x \in I[i - 1] PROVE G[<<x, i>>] \in I[i]
      <4>1. i - 1 \in 0..n
        BY <1>5
      <4>2. x \in D
        BY <1>5, <4>1
      <4>. QED  BY <1>6, <2>1, <4>2
    <3>. QED  BY <1>5, <3>1 DEF Invariant
  <2>. HIDE DEF Step, G
  <2>3. PICK g \in [0..n -> D] : /\ g[0] = base /\ \A i \in 1..n : g[i] = G[<<g[i - 1], i>>]
                                /\ \A i \in 0..n : g[i] \in I[i]
    <3>1. Folding(D, I, base, n, G)
      BY InvariantHolds
    <3>. QED  BY <2>2, <3>1 DEF Folding
  <2>4. \A i \in 1..n : g[i] = Step(g, i)
    <3>. TAKE i \in 1..n
    <3>1. i - 1 \in 0..n
      BY <1>5
    <3>. QED  BY <2>1, <2>3, <3>1
  <2>5. IsFold(g)
    <3>1. \A i \in 0..n : i = 0 \/ i \in 1..n
      BY <1>5
    <3>. QED  BY <2>3, <2>4, <3>1
  <2>6. IsFold(h)
    <3>. HIDE DEF IsFold
    <3>. QED  BY <2>5
  <2>. HIDE DEF h
  <2>7. h[0] = base /\ \A i \in 1..n : h[i] = Op(h[i - 1], o[i])
    <3>1. \A i \in 0..n : h[i] = IF i = 0 THEN base ELSE Step(h, i)
      BY <2>6
    <3>2. 0 \in 0..n /\ \A i \in 1..n : i \in 0..n /\ i # 0
      BY <1>5
    <3>. QED  BY <2>1, <3>1, <3>2
  <2>8. Carried(n, {i \in 0..n : h[i] = g[i]})
    BY Induction
  <2>9. 0..n \subseteq {i \in 0..n : h[i] = g[i]}
    <3>1. ASSUME NEW i \in 1..n, h[i - 1] = g[i - 1] PROVE h[i] = g[i]
      <4>1. h[i] = Op(h[i - 1], o[i]) /\ g[i] = Op(g[i - 1], o[i])
        BY <2>1, <2>4, <2>7
      <4>. QED  BY <3>1, <4>1
    <3>2. 0 \in 0..n /\ \A i \in 1..n : i \in 0..n
      BY <1>5
    <3>. QED  BY <1>5, <2>3, <2>7, <2>8, <3>1, <3>2 DEF Carried
  <2>. QED  BY <1>5, <2>3, <2>9
<1>8. h[n] = After(n)
  <2>. HIDE DEF h, After, n
  <2>. QED  BY <1>3, <1>7
<1>. HIDE DEF h
<1>9. After(n).known = KnownFrom(1) /\ After(n).sound = TRUE
  <2>1. N - n = 1
    <3>. HIDE DEF n, N
    <3>. QED  BY <1>2, <1>3
  <2>. QED  BY <2>1
<1>10. KnownFrom(1) = Vertices \X Vertices
  <2>1. Above(1) = Vertices
    <3>1. Ordered(tree)
      BY OrderedIs
    <3>. QED  BY <1>2, <3>1 DEF Ordered, Above
  <2>2. FixedPairs \subseteq Vertices \X Vertices
    <3>. SUFFICES ASSUME NEW k \in 1..N PROVE CliquePairs(k) \subseteq Vertices \X Vertices
      BY DEF FixedPairs
    <3>. DEFINE c == tree.snodePost[k]
                nu == Elems(tree.snode[c])
                alpha == Elems(tree.separators[c])
    <3>1. k \in 1..tree.nCliques /\ c = tree.snodePost[k] /\ nu = Elems(tree.snode[c]) /\ alpha = Elems(tree.separators[c])
      BY <1>2
    <3>. HIDE DEF c, nu, alpha
    <3>2. nu \subseteq Vertices /\ alpha \subseteq Above(k + 1) /\ CliquePairs(k) = (nu \cup alpha) \X (nu \cup alpha)
      BY <3>1, AboveIs
    <3>3. alpha \subseteq Vertices
      BY <3>2 DEF Above
    <3>. QED  BY <3>2, <3>3
  <2>. QED  BY <2>1, <2>2 DEF KnownFrom
<1>. QED  BY <1>1, <1>8, <1>9, <1>10

-----------------------------------------------------------------------------
(* The rows of the decomposed problem                                       *)

\* Triangular numbers: the first place of a column of the packed upper triangle.
LEMMA TriangularIs ==
  ASSUME NEW j \in Nat
  PROVE  /\ TriangularNumber(j) \in Nat /\ TriangularNumber(j + 1) = TriangularNumber(j) + j + 1
         /\ TriangularNumber(0) = 0
<1>1. PICK q \in Nat : j * (j + 1) = 2 * q
  BY Halves
<1>2. (j + 1) * ((j + 1) + 1) = 2 * (q + j + 1)
  <2>1. (j + 1) * ((j + 1) + 1) = j * j + 3 * j + 2 /\ j * (j + 1) = j * j + j
    OBVIOUS
  <2>2. j * j \in Nat
    OBVIOUS
  <2>. QED  BY <1>1, <2>1, <2>2
<1>3. (2 * q) \div 2 = q /\ (2 * (q + j + 1)) \div 2 = q + j + 1
  OBVIOUS
<1>4. TriangularNumber(j) = q /\ TriangularNumber(j + 1) = q + j + 1
  BY <1>1, <1>2, <1>3 DEF TriangularNumber
<1>5. TriangularNumber(0) = 0
  BY DEF TriangularNumber
<1>. QED  BY <1>4, <1>5

\* Triangular numbers grow.
LEMMA TriangularGrows ==
  ASSUME NEW a \in Nat, NEW b \in Nat, a <= b
  PROVE  TriangularNumber(a) <= TriangularNumber(b)
<1>1. PICK p \in Nat : a * (a + 1) = 2 * p
  BY Halves
<1>2. PICK q \in Nat : b * (b + 1) = 2 * q
  BY Halves
<1>3. a * (a + 1) <= b * (b + 1)
  <2>1. \A x, y, z \in Nat : x <= y => x * z <= y * z /\ z * x <= z * y
    OBVIOUS
  <2>2. a * (a + 1) <= b * (a + 1)
    BY <2>1
  <2>3. b * (a + 1) <= b * (b + 1)
    BY <2>1
  <2>4. a * (a + 1) \in Nat /\ b * (a + 1) \in Nat /\ b * (b + 1) \in Nat
    OBVIOUS
  <2>. QED  BY <2>2, <2>3, <2>4
<1>4. (2 * p) \div 2 = p /\ (2 * q) \div 2 = q
  OBVIOUS
<1>. QED  BY <1>1, <1>2, <1>3, <1>4 DEF TriangularNumber

\* The place of an entry counts the columns before its own.
LEMMA CoordIs ==
  ASSUME NEW i \in Nat, NEW j \in Nat, i <= j
  PROVE  CoordToIndex(i, j) = TriangularNumber(j) + i
<1>1. CASE j = 0
  <2>1. i = 0 /\ TriangularNumber(0) = 0
    BY <1>1, TriangularIs
  <2>. QED  BY <1>1, <2>1 DEF CoordToIndex
<1>2. CASE j # 0
  <2>1. PICK q \in Nat : j * (j + 1) = 2 * q
    BY Halves
  <2>2. TriangularIndex(j - 1) = q - 1 /\ TriangularNumber(j) = q
    BY <1>2, <2>1, Triangles
  <2>. QED  BY <1>2, <2>2 DEF CoordToIndex
<1>. QED  BY <1>1, <1>2

\* Every place of a packed triangle of L columns is that of an entry.
LEMMA IndexIs ==
  ASSUME NEW L \in Nat, NEW k \in Nat, k < TriangularNumber(L)
  PROVE  \E i, j \in Nat : i <= j /\ j < L /\ IndexToCoord(k) = <<i, j>> /\ CoordToIndex(i, j) = k
<1>. DEFINE T == {c \in Nat : k < TriangularNumber(c + 1)}
<1>1. TriangularNumber(0) = 0 /\ L # 0
  <2>1. TriangularNumber(0) = 0
    BY TriangularIs
  <2>. QED  BY <2>1
<1>2. L - 1 \in T
  BY <1>1
<1>3. PICK j \in T : \A c \in Nat : c < j => c \notin T
  <2>1. T \in SUBSET Nat /\ T # {}
    BY <1>2
  <2>. HIDE DEF T
  <2>. QED  BY <2>1, LeastMember
<1>4. j \in Nat /\ j <= L - 1
  BY <1>1, <1>2, <1>3
<1>5. TriangularNumber(j) <= k
  <2>1. CASE j = 0
    BY <1>1, <2>1
  <2>2. CASE j # 0
    <3>1. j - 1 \in Nat /\ j - 1 < j /\ (j - 1) + 1 = j
      BY <1>4, <2>2
    <3>2. ~ (k < TriangularNumber(j))
      BY <1>3, <3>1
    <3>3. TriangularNumber(j) \in Nat
      BY <1>4, TriangularIs
    <3>. QED  BY <3>2, <3>3
  <2>. QED  BY <2>1, <2>2
<1>6. TriangularNumber(j) \in Nat /\ TriangularNumber(j + 1) = TriangularNumber(j) + j + 1
  BY <1>4, TriangularIs
<1>. DEFINE i == k - TriangularNumber(j)
<1>7. i \in Nat /\ i <= j
  BY <1>3, <1>4, <1>5, <1>6
<1>8. CoordToIndex(i, j) = TriangularNumber(j) + i
  <2>. HIDE DEF i
  <2>. QED  BY <1>4, <1>7, CoordIs
<1>9. CoordToIndex(i, j) = k
  BY <1>6, <1>8
<1>10. IndexToCoord(CoordToIndex(i, j)) = <<i, j>>
  <2>. HIDE DEF i
  <2>. QED  BY <1>4, <1>7, CoordRoundTrip
<1>. HIDE DEF i
<1>. QED  BY <1>4, <1>7, <1>9, <1>10

\* An entry of the cone has its place among the rows of the cone.
LEMMA PlaceInCone ==
  ASSUME Order \in Nat \ {0}, NEW i \in Vertices, NEW j \in Vertices, i <= j
  PROVE  CoordToIndex(i, j) \in 0..(TriangularNumber(Order) - 1)
<1>1. i \in Nat /\ j \in Nat /\ j + 1 <= Order /\ j + 1 \in Nat /\ Order \in Nat
  BY DEF Vertices
<1>2. CoordToIndex(i, j) = TriangularNumber(j) + i
  BY <1>1, CoordIs
<1>3. TriangularNumber(j) \in Nat /\ TriangularNumber(j + 1) = TriangularNumber(j) + j + 1 /\ TriangularNumber(Order) \in Nat
  BY <1>1, TriangularIs
<1>4. TriangularNumber(j + 1) <= TriangularNumber(Order)
  BY <1>1, TriangularGrows
<1>. QED  BY <1>1, <1>2, <1>3, <1>4

\* The vertices of a list, in the numbering of the user.
LEMMA OriginalIs ==
  ASSUME Order \in Nat \ {0}, ordering \in [Vertices -> Vertices], NEW s \in Seq(Vertices)
  PROVE  /\ Original(s) \in Seq(Vertices) /\ Elems(Original(s)) = {ordering[v] : v \in Elems(s)}
         /\ Elems(Original(s)) \subseteq Vertices
<1>. DEFINE T == {ordering[s[k]] : k \in DOMAIN s}
<1>1. T \in SUBSET Vertices /\ T = {ordering[v] : v \in Elems(s)}
  BY ElemsOfSeq DEF Elems
<1>2. T \in SUBSET Nat /\ IsFiniteSet(T)
  BY <1>1, FiniteVertices
<1>. HIDE DEF T
<1>3. Ascending(T) \in Seq(T) /\ Elems(Ascending(T)) = T
  BY <1>2, AscendingIs
<1>4. Ascending(T) \in Seq(Vertices)
  BY <1>1, <1>3
<1>. QED  BY <1>1, <1>3, <1>4 DEF Original, T

\* The rows of the cliques, last clique first.
Stacked(f) == Fold(LAMBDA rows, k : rows \o f[k], <<>>, Descending(1..tree.nCliques))

\* What the reversal and its adjoint make of the maps of an augmentation.
LEMMA AdjointHolds ==
  ASSUME NEW m \in Nat, DOMAIN augmented.reverse = 0..(m - 1),
         \A r \in 0..(m - 1) : augmented.reverse[r] \in OriginalRows
  PROVE  AdjointIsTranspose
<1>. DEFINE rows == DOMAIN augmented.reverse
            rev == augmented.reverse
<1>1. rows = 0..(m - 1) /\ \A r \in rows : rev[r] \in OriginalRows
  OBVIOUS
<1>2. \A o : Copies(o) \subseteq rows /\ \A r \in rows : r \in Copies(o) <=> rev[r] = o
  BY DEF Copies
<1>3. ASSUME NEW o, Copies(o) # {} PROVE Greatest(Copies(o)) \in Copies(o)
  <2>1. Copies(o) \in SUBSET (0..m)
    BY <1>1, <1>2
  <2>. QED  BY <1>3, <2>1, GreatestIs
<1>. HIDE DEF rows, rev
<1>4. ASSUME NEW o \in OriginalRows, NEW r \in rows
      PROVE  /\ AdjointS(Unit(o, OriginalRows))[r] = IF r \in Copies(o) THEN 1 ELSE 0
             /\ AdjointZ(Unit(o, OriginalRows))[r] = ReversedZ(Unit(r, rows))[o]
  <2>1. \A x \in OriginalRows : Unit(o, OriginalRows)[x] = IF x = o THEN 1 ELSE 0
    BY DEF Unit
  <2>2. \A x \in rows : Unit(r, rows)[x] = IF x = r THEN 1 ELSE 0
    BY DEF Unit
  <2>3. AdjointS(Unit(o, OriginalRows))[r] = Unit(o, OriginalRows)[rev[r]]
    BY DEF AdjointS, rows, rev
  <2>4. AdjointZ(Unit(o, OriginalRows))[r] = IF r = Greatest(Copies(rev[r])) THEN Unit(o, OriginalRows)[rev[r]] ELSE 0
    BY DEF AdjointZ, rows, rev
  <2>5. ReversedZ(Unit(r, rows))[o] = IF Copies(o) = {} THEN 0 ELSE Unit(r, rows)[Greatest(Copies(o))]
    BY DEF ReversedZ
  <2>6. AdjointS(Unit(o, OriginalRows))[r] = IF r \in Copies(o) THEN 1 ELSE 0
    BY <1>1, <1>2, <2>1, <2>3
  <2>7. CASE rev[r] = o
    <3>1. Copies(o) # {} /\ Greatest(Copies(o)) \in rows
      BY <1>2, <1>3, <2>7
    <3>2. Unit(o, OriginalRows)[rev[r]] = 1
      BY <2>1, <2>7
    <3>3. Unit(r, rows)[Greatest(Copies(o))] = IF Greatest(Copies(o)) = r THEN 1 ELSE 0
      BY <2>2, <3>1
    <3>. QED  BY <2>4, <2>5, <2>6, <2>7, <3>1, <3>2, <3>3
  <2>8. CASE rev[r] # o
    <3>1. AdjointZ(Unit(o, OriginalRows))[r] = 0
      BY <1>1, <2>1, <2>4, <2>8
    <3>2. ReversedZ(Unit(r, rows))[o] = 0
      <4>1. CASE Copies(o) = {}
        BY <2>5, <4>1
      <4>2. CASE Copies(o) # {}
        <5>1. Greatest(Copies(o)) \in Copies(o)
          BY <1>3, <4>2
        <5>2. Greatest(Copies(o)) \in rows /\ Greatest(Copies(o)) # r
          BY <1>2, <2>8, <5>1
        <5>. QED  BY <2>2, <2>5, <4>2, <5>2
      <4>. QED  BY <4>1, <4>2
    <3>. QED  BY <2>6, <3>1, <3>2
  <2>. QED  BY <2>7, <2>8
<1>. QED  BY <1>4 DEF AdjointIsTranspose, rows

-----------------------------------------------------------------------------
(* The entries of a block                                                   *)

\* Sets between which a function is one to one and onto have the same size.
LEMMA SameSize ==
  ASSUME NEW S, NEW T, NEW f, IsFiniteSet(S), f = [x \in S |-> f[x]], \A x \in S : f[x] \in T,
         \A x, y \in S : f[x] = f[y] => x = y, \A y \in T : \E x \in S : f[x] = y
  PROVE  IsFiniteSet(T) /\ Cardinality(T) = Cardinality(S)
<1>1. f \in [S -> T]
  OBVIOUS
<1>2. f \in Injection(S, T) /\ f \in Surjection(S, T)
  BY <1>1 DEF Injection, Surjection, IsInjective
<1>3. ExistsBijection(S, T)
  BY <1>2 DEF ExistsBijection, Bijection
<1>. QED  BY <1>3, FS_Bijection

LEMMA CountTo ==
  ASSUME NEW m \in Nat
  PROVE  IsFiniteSet(1..m) /\ Cardinality(1..m) = m
  BY FS_Interval

\* The place of a member in the ascending list of a set.
LEMMA RankIs ==
  ASSUME NEW S, S \in SUBSET Nat, IsFiniteSet(S), NEW i \in 1..Len(Ascending(S))
  PROVE  Cardinality({u \in S : u < Ascending(S)[i]}) = i - 1
<1>. DEFINE s == Ascending(S)
            B == {u \in S : u < s[i]}
            m == i - 1
            J == 1..m
            f == [j \in J |-> s[j]]
<1>0. s \in Seq(S) /\ Elems(s) = S /\ Distinct(s) /\ Increasing(s)
  BY AscendingIs
<1>1. /\ s \in Seq(S) /\ Elems(s) = S /\ Distinct(s) /\ Increasing(s) /\ Len(s) \in Nat /\ i \in 1..Len(s)
      /\ i - 1 \in Int /\ i \in Int
  <2>1. Len(s) \in Nat
    BY <1>0
  <2>. QED  BY <1>0, <2>1
<1>2. DOMAIN s = 1..Len(s) /\ (\A x : x \in S <=> \E j \in 1..Len(s) : x = s[j]) /\ \A j \in 1..Len(s) : s[j] \in Nat
  BY <1>1, ElemsOfSeq
<1>. HIDE DEF s
<1>3. \A j \in J : j \in 1..Len(s) /\ j < i
  BY <1>1
<1>4. IsFiniteSet(J) /\ Cardinality(J) = m
  <2>1. m \in Nat
    BY <1>1
  <2>. HIDE DEF m
  <2>. QED  BY <2>1, CountTo
<1>5. \A j \in J : f[j] \in B
  BY <1>1, <1>2, <1>3 DEF Increasing
<1>6. \A j, k \in J : f[j] = f[k] => j = k
  BY <1>1, <1>2, <1>3 DEF Distinct
<1>7. ASSUME NEW u \in B PROVE \E j \in J : f[j] = u
  <2>1. PICK j \in 1..Len(s) : u = s[j]
    BY <1>2
  <2>2. s[j] < s[i] /\ s[j] \in Nat /\ s[i] \in Nat /\ i \in DOMAIN s /\ j \in DOMAIN s
    BY <1>1, <1>2, <2>1
  <2>3. i < j => s[i] < s[j]
    BY <1>1, <2>2 DEF Increasing
  <2>4. ~(i < j) /\ i # j
    BY <2>2, <2>3
  <2>5. j \in J
    BY <1>1, <2>4
  <2>. QED  BY <2>1, <2>5
<1>. HIDE DEF B
<1>8. f = [j \in J |-> f[j]]
  OBVIOUS
<1>. HIDE DEF f, J, m
<1>9. Cardinality(B) = m
  <2>1. \A u \in B : \E j \in J : f[j] = u
    BY <1>7
  <2>2. IsFiniteSet(B) /\ Cardinality(B) = Cardinality(J)
    BY <1>4, <1>5, <1>6, <1>8, <2>1, SameSize
  <2>. QED  BY <1>4, <2>2
<1>. QED  BY <1>9 DEF B, s, m

LEMMA PlaceIs ==
  ASSUME NEW S, S \in SUBSET Nat, IsFiniteSet(S), NEW e \in S
  PROVE  LET b == Cardinality({u \in S : u < e}) IN
         b \in Nat /\ b < Cardinality(S) /\ Ascending(S)[b + 1] = e
<1>1. /\ Ascending(S) \in Seq(S) /\ Elems(Ascending(S)) = S /\ Len(Ascending(S)) = Cardinality(S)
      /\ Len(Ascending(S)) \in Nat
  <2>1. Cardinality(S) \in Nat
    BY FS_CardinalityType
  <2>. QED  BY <2>1, AscendingIs
<1>2. PICK i \in 1..Len(Ascending(S)) : e = Ascending(S)[i]
  BY <1>1, ElemsOfSeq
<1>3. Cardinality({u \in S : u < e}) = i - 1
  BY <1>2, RankIs
<1>. QED  BY <1>1, <1>2, <1>3

\* Numbers from 1 on are listed in their order.
LEMMA CountedUp ==
  ASSUME NEW n \in Nat
  PROVE  Len(Ascending(1..n)) = n /\ \A i \in 1..n : Ascending(1..n)[i] = i
<1>1. 1..n \in SUBSET Nat /\ IsFiniteSet(1..n) /\ Cardinality(1..n) = n
  BY FS_Interval
<1>2. Ascending(1..n) \in Seq(1..n) /\ Len(Ascending(1..n)) = n
  BY <1>1, AscendingIs
<1>3. ASSUME NEW i \in 1..n PROVE Ascending(1..n)[i] = i
  <2>. DEFINE a == Ascending(1..n)[i]
  <2>1. a \in 1..n /\ i \in 1..Len(Ascending(1..n))
    BY <1>2
  <2>2. Cardinality({u \in 1..n : u < a}) = i - 1
    BY <1>1, <2>1, RankIs
  <2>. HIDE DEF a
  <2>3. {u \in 1..n : u < a} = 1..(a - 1)
    BY <2>1
  <2>4. Cardinality({u \in 1..n : u < a}) = a - 1
    <3>. DEFINE m == a - 1
    <3>1. m \in Nat
      BY <2>1
    <3>. HIDE DEF m
    <3>2. Cardinality(1..m) = m
      BY <3>1, CountTo
    <3>3. {u \in 1..n : u < a} = 1..m
      BY <2>3 DEF m
    <3>4. Cardinality({u \in 1..n : u < a}) = m
      BY <3>2, <3>3
    <3>. QED  BY <3>4 DEF m
  <2>5. a = i
    BY <2>1, <2>2, <2>4
  <2>. QED  BY <2>5 DEF a
<1>. QED  BY <1>2, <1>3

LEMMA CountedDown ==
  ASSUME NEW n \in Nat
  PROVE  /\ Len(Descending(1..n)) = n /\ DOMAIN Descending(1..n) = 1..n
         /\ \A i \in 1..n : Descending(1..n)[i] = n + 1 - i
<1>. DEFINE a == Ascending(1..n)
<1>1. Len(a) = n /\ \A i \in 1..n : a[i] = i
  BY CountedUp
<1>2. Descending(1..n) = [i \in 1..Len(a) |-> a[Len(a) + 1 - i]]
  BY DEF Descending, a
<1>. HIDE DEF a
<1>3. \A i \in 1..n : n + 1 - i \in 1..n /\ a[n + 1 - i] = n + 1 - i
  BY <1>1
<1>. QED  BY <1>1, <1>2, <1>3

\* The entry x of a block over the vertices S: entries are listed by column and row.
PairAt(S, x) == <<Ascending(S)[IndexToCoord(x - 1)[1] + 1], Ascending(S)[IndexToCoord(x - 1)[2] + 1]>>
EntryPlace(S, i, j) == CoordToIndex(Cardinality({u \in S : u < i}), Cardinality({u \in S : u < j})) + 1
Entries(S) == 1..TriangularNumber(Cardinality(S))

LEMMA PairsAre ==
  ASSUME NEW S, S \in SUBSET Nat, IsFiniteSet(S)
  PROVE  /\ \A x \in Entries(S) : /\ PairAt(S, x)[1] \in S /\ PairAt(S, x)[2] \in S
                                  /\ PairAt(S, x)[1] <= PairAt(S, x)[2]
         /\ \A x, y \in Entries(S) : PairAt(S, x) = PairAt(S, y) => x = y
<1>. DEFINE s == Ascending(S)
            n == Cardinality(S)
<1>1. s \in Seq(S) /\ Elems(s) = S /\ Distinct(s) /\ Increasing(s) /\ Len(s) = n /\ n \in Nat
  BY AscendingIs, FS_CardinalityType
<1>2. TriangularNumber(n) \in Nat
  BY <1>1, TriangularIs
<1>. HIDE DEF n, s
<1>3. ASSUME NEW x \in Entries(S)
      PROVE  \E i, j \in Nat : /\ i <= j /\ j < n /\ PairAt(S, x) = <<s[i + 1], s[j + 1]>> /\ CoordToIndex(i, j) = x - 1
  <2>1. x - 1 \in Nat /\ x - 1 < TriangularNumber(n)
    BY <1>2 DEF Entries, n
  <2>2. PICK i, j \in Nat : i <= j /\ j < n /\ IndexToCoord(x - 1) = <<i, j>> /\ CoordToIndex(i, j) = x - 1
    BY <1>1, <2>1, IndexIs
  <2>. QED  BY <2>2 DEF PairAt, s
<1>4. DOMAIN s = 1..n /\ \A i \in Nat : i < n => i + 1 \in 1..n /\ s[i + 1] \in S
  BY <1>1
<1>5. ASSUME NEW x \in Entries(S)
      PROVE  PairAt(S, x)[1] \in S /\ PairAt(S, x)[2] \in S /\ PairAt(S, x)[1] <= PairAt(S, x)[2]
  <2>1. PICK i, j \in Nat : i <= j /\ j < n /\ PairAt(S, x) = <<s[i + 1], s[j + 1]>>
    BY <1>3
  <2>2. i < n /\ s[i + 1] \in S /\ s[j + 1] \in S /\ s[i + 1] \in Nat /\ s[j + 1] \in Nat
    <3>1. i < n
      BY <1>1, <2>1
    <3>2. s[i + 1] \in S /\ s[j + 1] \in S
      BY <1>4, <2>1, <3>1
    <3>. QED  BY <3>1, <3>2
  <2>3. s[i + 1] <= s[j + 1]
    <3>1. CASE i = j
      BY <2>2, <3>1
    <3>2. CASE i # j
      <4>1. i + 1 \in DOMAIN s /\ j + 1 \in DOMAIN s /\ i + 1 < j + 1
        BY <1>4, <2>1, <2>2, <3>2
      <4>2. s[i + 1] < s[j + 1]
        BY <1>1, <4>1 DEF Increasing
      <4>. QED  BY <2>2, <4>2
    <3>. QED  BY <3>1, <3>2
  <2>. QED  BY <2>1, <2>2, <2>3
<1>6. ASSUME NEW x \in Entries(S), NEW y \in Entries(S), PairAt(S, x) = PairAt(S, y) PROVE x = y
  <2>1. PICK i, j \in Nat : i <= j /\ j < n /\ PairAt(S, x) = <<s[i + 1], s[j + 1]>> /\ CoordToIndex(i, j) = x - 1
    BY <1>3
  <2>2. PICK k, l \in Nat : k <= l /\ l < n /\ PairAt(S, y) = <<s[k + 1], s[l + 1]>> /\ CoordToIndex(k, l) = y - 1
    BY <1>3
  <2>3. s[i + 1] = s[k + 1] /\ s[j + 1] = s[l + 1]
    <3>1. <<s[i + 1], s[j + 1]>> = <<s[k + 1], s[l + 1]>>
      BY <1>6, <2>1, <2>2
    <3>. QED  BY <3>1
  <2>4. {i + 1, j + 1, k + 1, l + 1} \subseteq DOMAIN s
    <3>1. i < n /\ k < n
      BY <1>1, <2>1, <2>2
    <3>. QED  BY <1>4, <2>1, <2>2, <3>1
  <2>5. i + 1 = k + 1 /\ j + 1 = l + 1
    BY <1>1, <2>3, <2>4 DEF Distinct
  <2>6. i = k /\ j = l
    BY <2>5
  <2>7. x - 1 = y - 1 /\ x \in Int /\ y \in Int
    BY <1>2, <2>1, <2>2, <2>6 DEF Entries, n
  <2>. QED  BY <2>7
<1>. QED  BY <1>5, <1>6

\* Every pair is an entry, at the place that the positions of its members give.
LEMMA EntryIs ==
  ASSUME NEW S, S \in SUBSET Nat, IsFiniteSet(S), NEW i \in S, NEW j \in S, i <= j
  PROVE  EntryPlace(S, i, j) \in Entries(S) /\ PairAt(S, EntryPlace(S, i, j)) = <<i, j>>
<1>. DEFINE a == Cardinality({u \in S : u < i})
            b == Cardinality({u \in S : u < j})
            n == Cardinality(S)
<1>1. /\ a \in Nat /\ Ascending(S)[a + 1] = i
      /\ b \in Nat /\ b < n /\ Ascending(S)[b + 1] = j
  BY PlaceIs
<1>2. n \in Nat
  BY FS_CardinalityType
<1>3. a <= b
  <2>1. IsFiniteSet({u \in S : u < j}) /\ {u \in S : u < i} \in SUBSET {u \in S : u < j}
    <3>1. IsFiniteSet({u \in S : u < j})
      BY FS_Subset
    <3>2. \A u \in S : u < i => u < j
      <4>1. i \in Nat /\ j \in Nat /\ \A u \in S : u \in Nat
        OBVIOUS
      <4>. QED  BY <4>1
    <3>. QED  BY <3>1, <3>2
  <2>. QED  BY <2>1, FS_Subset
<1>4. EntryPlace(S, i, j) = CoordToIndex(a, b) + 1
  BY DEF EntryPlace
<1>5. TriangularNumber(n) \in Nat /\ n \in Nat
  BY <1>2, TriangularIs
<1>. HIDE DEF a, b, n
<1>6. CoordToIndex(a, b) = TriangularNumber(b) + a /\ IndexToCoord(CoordToIndex(a, b)) = <<a, b>> /\ CoordToIndex(a, b) \in Nat
  BY <1>1, <1>3, CoordIs, CoordRoundTrip
<1>7. CoordToIndex(a, b) < TriangularNumber(n)
  <2>1. TriangularNumber(b + 1) = TriangularNumber(b) + b + 1 /\ TriangularNumber(b) \in Nat /\ b + 1 <= n /\ b + 1 \in Nat
    <3>1. b \in Nat /\ b < n /\ n \in Nat
      BY <1>1, <1>2
    <3>2. TriangularNumber(b + 1) = TriangularNumber(b) + b + 1 /\ TriangularNumber(b) \in Nat
      BY <3>1, TriangularIs
    <3>. QED  BY <3>1, <3>2
  <2>2. TriangularNumber(b + 1) <= TriangularNumber(n)
    BY <1>2, <2>1, TriangularGrows
  <2>. QED  BY <1>1, <1>3, <1>5, <1>6, <2>1, <2>2
<1>8. EntryPlace(S, i, j) \in Entries(S) /\ EntryPlace(S, i, j) - 1 = CoordToIndex(a, b)
  BY <1>4, <1>5, <1>6, <1>7 DEF Entries, n
<1>9. PairAt(S, EntryPlace(S, i, j)) = <<i, j>>
  BY <1>1, <1>6, <1>8 DEF PairAt
<1>. QED  BY <1>8, <1>9

\* How many entries of a block lie within a part of its vertices.
LEMMA EntriesWithin ==
  ASSUME NEW S, S \in SUBSET Nat, IsFiniteSet(S), NEW Q \in SUBSET S
  PROVE  LET X == {x \in Entries(S) : PairAt(S, x)[1] \in Q /\ PairAt(S, x)[2] \in Q} IN
         IsFiniteSet(X) /\ Cardinality(X) = TriangularNumber(Cardinality(Q))
<1>. DEFINE X == {x \in Entries(S) : PairAt(S, x)[1] \in Q /\ PairAt(S, x)[2] \in Q}
            f == [y \in Entries(Q) |-> EntryPlace(S, PairAt(Q, y)[1], PairAt(Q, y)[2])]
<1>1. IsFiniteSet(Q) /\ Q \in SUBSET Nat /\ Cardinality(Q) \in Nat
  BY FS_Subset, FS_CardinalityType
<1>2. TriangularNumber(Cardinality(Q)) \in Nat
  BY <1>1, TriangularIs
<1>3. IsFiniteSet(Entries(Q)) /\ Cardinality(Entries(Q)) = TriangularNumber(Cardinality(Q))
  BY <1>2, FS_Interval DEF Entries
<1>4. ASSUME NEW y \in Entries(Q)
      PROVE  f[y] \in Entries(S) /\ PairAt(S, f[y]) = PairAt(Q, y) /\ PairAt(Q, y)[1] \in Q /\ PairAt(Q, y)[2] \in Q
  <2>1. PairAt(Q, y)[1] \in Q /\ PairAt(Q, y)[2] \in Q /\ PairAt(Q, y)[1] <= PairAt(Q, y)[2]
    BY <1>1, PairsAre
  <2>2. /\ EntryPlace(S, PairAt(Q, y)[1], PairAt(Q, y)[2]) \in Entries(S)
        /\ PairAt(S, EntryPlace(S, PairAt(Q, y)[1], PairAt(Q, y)[2])) = <<PairAt(Q, y)[1], PairAt(Q, y)[2]>>
    BY <2>1, EntryIs
  <2>3. PairAt(Q, y) = <<PairAt(Q, y)[1], PairAt(Q, y)[2]>>
    BY DEF PairAt
  <2>. QED  BY <2>1, <2>2, <2>3
<1>5. f = [y \in Entries(Q) |-> f[y]]
  OBVIOUS
<1>. HIDE DEF f
<1>6. \A y \in Entries(Q) : f[y] \in X
  BY <1>4
<1>7. ASSUME NEW y \in Entries(Q), NEW z \in Entries(Q), f[y] = f[z] PROVE y = z
  <2>1. PairAt(Q, y) = PairAt(Q, z)
    BY <1>4, <1>7
  <2>. QED  BY <1>1, <2>1, PairsAre
<1>8. ASSUME NEW x \in X PROVE \E y \in Entries(Q) : f[y] = x
  <2>1. x \in Entries(S) /\ PairAt(S, x)[1] \in Q /\ PairAt(S, x)[2] \in Q /\ PairAt(S, x)[1] <= PairAt(S, x)[2]
    BY PairsAre
  <2>. DEFINE y == EntryPlace(Q, PairAt(S, x)[1], PairAt(S, x)[2])
  <2>2. y \in Entries(Q) /\ PairAt(Q, y) = <<PairAt(S, x)[1], PairAt(S, x)[2]>>
    BY <1>1, <2>1, EntryIs
  <2>. HIDE DEF y
  <2>3. PairAt(Q, y) = PairAt(S, x)
    BY <2>2 DEF PairAt
  <2>4. f[y] \in Entries(S) /\ PairAt(S, f[y]) = PairAt(S, x)
    BY <1>4, <2>2, <2>3
  <2>5. f[y] = x
    BY <2>1, <2>4, PairsAre
  <2>. QED  BY <2>2, <2>5
<1>. HIDE DEF X
<1>9. IsFiniteSet(X) /\ Cardinality(X) = Cardinality(Entries(Q))
  BY <1>3, <1>5, <1>6, <1>7, <1>8, SameSize
<1>. QED  BY <1>3, <1>9 DEF X

\* The rows between those of the other cones, clique by clique, the last clique first.
Framed ==
  /\ Order \in Nat \ {0} /\ RowsBefore \in Nat /\ RowsAfter \in Nat /\ tree.nCliques \in Nat
  /\ DOMAIN tree.nblk = 1..tree.nCliques /\ \A k \in 1..tree.nCliques : tree.nblk[k] \in Nat
Size(k) == TriangularNumber(tree.nblk[k])

LEMMA BlockStartIs ==
  ASSUME Framed
  PROVE  /\ BlockStart(tree.nCliques) = RowsBefore
         /\ \A k \in 0..tree.nCliques : BlockStart(k) \in Nat
         /\ \A k \in 1..tree.nCliques : Size(k) \in Nat /\ k - 1 \in 0..tree.nCliques
                                        /\ BlockStart(k - 1) = BlockStart(k) + Size(k)
<1>. DEFINE N == tree.nCliques
            g == [i \in DOMAIN tree.nblk |-> TriangularNumber(tree.nblk[i])]
<1>1. N \in Nat /\ RowsBefore \in Nat /\ \A k \in 1..N : g[k] = Size(k) /\ Size(k) \in Nat
  <2>1. \A k \in 1..N : Size(k) \in Nat
    BY TriangularIs DEF Framed, Size
  <2>. QED  BY <2>1 DEF Framed, Size
<1>2. ASSUME NEW k \in 0..N PROVE BlockStart(k) = RowsBefore + SumOver(g, (k + 1)..N)
  BY DEF BlockStart
<1>. HIDE DEF g, N
<1>3. ASSUME NEW k \in 0..N PROVE Summing(g, (k + 1)..N)
  <2>1. IsFiniteSet((k + 1)..N)
    BY <1>1, FS_Interval
  <2>2. \A x \in (k + 1)..N : x \in 1..N /\ x \in Nat
    BY <1>1
  <2>3. \A x \in (k + 1)..N : g[x] \in Int
    BY <1>1, <2>2
  <2>. QED  BY <2>1, <2>2, <2>3 DEF Summing
<1>4. ASSUME NEW k \in 0..N PROVE BlockStart(k) \in Nat
  <2>1. \A x \in (k + 1)..N : x \in 1..N
    BY <1>1
  <2>2. \A x \in (k + 1)..N : g[x] >= 0
    BY <1>1, <2>1
  <2>3. SumOver(g, (k + 1)..N) \in Int /\ SumOver(g, (k + 1)..N) >= 0
    BY <1>3, <2>2, SumIs
  <2>4. SumOver(g, (k + 1)..N) \in Nat
    BY <2>3
  <2>. QED  BY <1>1, <1>2, <2>4
<1>5. BlockStart(N) = RowsBefore
  <2>1. N \in 0..N /\ (N + 1)..N = {}
    BY <1>1
  <2>2. SumOver(g, {}) = 0
    BY <1>3, <2>1, SumIs
  <2>. QED  BY <1>1, <1>2, <2>1, <2>2
<1>6. ASSUME NEW k \in 1..N
      PROVE  Size(k) \in Nat /\ k - 1 \in 0..N /\ BlockStart(k - 1) = BlockStart(k) + Size(k)
  <2>1. k - 1 \in 0..N /\ k \in 0..N /\ (k - 1) + 1 = k /\ k \in k..N /\ (k..N) \ {k} = (k + 1)..N
    BY <1>1
  <2>2. BlockStart(k - 1) = RowsBefore + SumOver(g, k..N) /\ BlockStart(k) = RowsBefore + SumOver(g, (k + 1)..N)
    BY <1>2, <2>1
  <2>3. Summing(g, k..N) /\ Summing(g, (k + 1)..N)
    BY <1>3, <2>1
  <2>4. SumOver(g, k..N) = g[k] + SumOver(g, (k..N) \ {k})
    <3>1. \A x \in k..N : SumOver(g, k..N) = g[x] + SumOver(g, (k..N) \ {x})
      BY <2>3, SumIs
    <3>. QED  BY <2>1, <3>1
  <2>5. SumOver(g, (k + 1)..N) \in Int
    BY <2>3, SumIs
  <2>6. SumOver(g, k..N) = Size(k) + SumOver(g, (k + 1)..N)
    BY <1>1, <2>1, <2>4
  <2>7. Size(k) \in Nat
    BY <1>1
  <2>. HIDE DEF Size
  <2>. QED  BY <1>1, <2>1, <2>2, <2>5, <2>6, <2>7
<1>. QED  BY <1>4, <1>5, <1>6 DEF N

\* Blocks do not overlap, and they leave no gap.
LEMMA BlocksApart ==
  ASSUME Framed, NEW k \in 0..tree.nCliques, NEW m \in 0..tree.nCliques
  PROVE  /\ k <= m => BlockStart(m) <= BlockStart(k)
         /\ k < m => BlockStart(m) + Size(m) <= BlockStart(k)
<1>. DEFINE N == tree.nCliques
            B == {j \in k..N : ~ (BlockStart(j) <= BlockStart(k))}
<1>1. /\ N \in Nat /\ (\A j \in 0..N : BlockStart(j) \in Nat)
      /\ \A j \in 1..N : Size(j) \in Nat /\ j - 1 \in 0..N /\ BlockStart(j - 1) = BlockStart(j) + Size(j)
  BY BlockStartIs DEF Framed
<1>. HIDE DEF N
<1>0. k \in 0..N /\ m \in 0..N
  BY DEF N
<1>2. B = {}
  <2>. SUFFICES ASSUME B # {} PROVE FALSE
    OBVIOUS
  <2>1. B \in SUBSET Nat
    BY <1>0, <1>1
  <2>2. Least(B) \in B /\ \A x \in B : Least(B) <= x
    BY <2>1, LeastIs
  <2>3. PICK j \in B : \A x \in B : j <= x
    BY <2>2
  <2>4. j \in k..N /\ j \in 0..N /\ k \in 0..N /\ ~ (BlockStart(j) <= BlockStart(k))
    BY <1>0, <1>1
  <2>5. j # k /\ j \in 1..N /\ j - 1 \in k..N /\ j - 1 \in 0..N
    BY <1>0, <1>1, <2>4
  <2>6. j - 1 \notin B
    BY <1>0, <2>3, <2>5
  <2>7. BlockStart(j - 1) <= BlockStart(k)
    BY <2>5, <2>6
  <2>8. BlockStart(j - 1) = BlockStart(j) + Size(j) /\ Size(j) \in Nat /\ BlockStart(j) \in Nat /\ BlockStart(k) \in Nat
    BY <1>1, <2>4, <2>5
  <2>. QED  BY <2>4, <2>7, <2>8
<1>3. \A j \in k..N : BlockStart(j) <= BlockStart(k)
  BY <1>2
<1>4. k <= m => BlockStart(m) <= BlockStart(k)
  BY <1>0, <1>1, <1>3
<1>5. ASSUME k < m PROVE BlockStart(m) + Size(m) <= BlockStart(k)
  <2>1. m \in 1..N /\ m - 1 \in k..N
    BY <1>0, <1>1, <1>5
  <2>. QED  BY <1>1, <1>3, <2>1
<1>. QED  BY <1>4, <1>5

LEMMA BlockExists ==
  ASSUME Framed, NEW r \in Nat, RowsBefore <= r, r < BlockStart(0)
  PROVE  \E k \in 1..tree.nCliques : \E x \in 1..Size(k) : r = BlockStart(k) + x - 1
<1>. DEFINE N == tree.nCliques
            B == {k \in 0..N : BlockStart(k) <= r}
<1>1. /\ N \in Nat /\ (\A j \in 0..N : BlockStart(j) \in Nat) /\ BlockStart(N) = RowsBefore
      /\ \A j \in 1..N : Size(j) \in Nat /\ j - 1 \in 0..N /\ BlockStart(j - 1) = BlockStart(j) + Size(j)
  BY BlockStartIs DEF Framed
<1>. HIDE DEF N
<1>2. B \in SUBSET Nat /\ N \in B
  BY <1>1
<1>3. Least(B) \in B /\ \A x \in B : Least(B) <= x
  BY <1>2, LeastIs
<1>4. PICK k \in B : \A x \in B : k <= x
  BY <1>3
<1>5. k \in 0..N /\ k # 0 /\ 0 \in 0..N /\ BlockStart(k) <= r
  BY <1>1
<1>6. k \in 1..N /\ k - 1 \in 0..N /\ ~ (k <= k - 1)
  BY <1>1, <1>5
<1>7. ~ (BlockStart(k - 1) <= r)
  BY <1>4, <1>6
<1>8. Size(k) \in Nat /\ BlockStart(k) \in Nat /\ BlockStart(k - 1) = BlockStart(k) + Size(k)
  BY <1>1, <1>5, <1>6
<1>9. r - BlockStart(k) + 1 \in 1..Size(k) /\ r = BlockStart(k) + (r - BlockStart(k) + 1) - 1
  BY <1>5, <1>7, <1>8
<1>. QED  BY <1>6, <1>9 DEF N

LEMMA ConcatRows ==
  ASSUME NEW R, NEW s \in Seq(R), NEW t \in Seq(R)
  PROVE  /\ s \o t \in Seq(R) /\ Len(s) \in Nat /\ Len(t) \in Nat /\ Len(s \o t) = Len(s) + Len(t)
         /\ \A i \in 1..Len(s) : (s \o t)[i] = s[i]
         /\ \A i \in 1..Len(t) : (s \o t)[Len(s) + i] = t[i]
<1>1. s \o t \in Seq(R) /\ Len(s) \in Nat /\ Len(t) \in Nat /\ Len(s \o t) = Len(s) + Len(t)
  OBVIOUS
<1>2. \A i \in 1..Len(s) : (s \o t)[i] = s[i]
  OBVIOUS
<1>3. \A i \in 1..Len(t) : (s \o t)[Len(s) + i] = t[i]
  OBVIOUS
<1>. QED  BY <1>1, <1>2, <1>3

\* Every clique's rows stand where its block starts.
Stands(f, s, k) == \A x \in 1..Size(k) : s[BlockStart(k) - RowsBefore + x] = f[k][x]

LEMMA StackedRows ==
  ASSUME Framed, NEW R, NEW part, \A k \in 1..tree.nCliques : part[k] \in Seq(R) /\ Len(part[k]) = Size(k)
  PROVE  /\ Stacked(part) \in Seq(R) /\ Len(Stacked(part)) = BlockStart(0) - RowsBefore
         /\ \A k \in 1..tree.nCliques : Stands(part, Stacked(part), k)
<1>. DEFINE N == tree.nCliques
            o == Descending(1..N)
<1>. DEFINE n == Len(o)
            Op(rows, k) == rows \o part[k]
            base == <<>>
            D == Seq(R)
            I == [i \in 0..n |-> {rows \in D : /\ Len(rows) = BlockStart(N - i) - RowsBefore
                                             /\ \A k \in (N - i + 1)..N : Stands(part, rows, k)}]
            Step(f, i) == CHOOSE r \in {Op(before, o[i]) : before \in {f[i - 1]}} : TRUE
            IsFold(f) == f = [i \in 0..n |-> IF i = 0 THEN base ELSE Step(f, i)]
            G == [p \in D \X (1..n) |-> Op(p[1], o[p[2]])]
            h == CHOOSE f : IsFold(f)
<1>1. Stacked(part) = h[n]
  BY DEF Stacked, Fold
<1>2. /\ N \in Nat /\ RowsBefore \in Nat /\ (\A j \in 0..N : BlockStart(j) \in Nat) /\ BlockStart(N) = RowsBefore
      /\ \A j \in 1..N : Size(j) \in Nat /\ j - 1 \in 0..N /\ BlockStart(j - 1) = BlockStart(j) + Size(j)
  BY BlockStartIs DEF Framed
<1>3. /\ \A k \in 1..N : part[k] \in Seq(R) /\ Len(part[k]) = Size(k)
      /\ \A k, m \in 0..N : (k <= m => BlockStart(m) <= BlockStart(k)) /\ (k < m => BlockStart(m) + Size(m) <= BlockStart(k))
  BY BlocksApart
<1>. HIDE DEF N
<1>4. n = N /\ \A i \in 1..n : o[i] = N + 1 - i /\ o[i] \in 1..N
  <2>1. Len(o) = N /\ \A i \in 1..N : o[i] = N + 1 - i
    BY <1>2, CountedDown
  <2>. HIDE DEF o
  <2>2. n = N
    BY <2>1
  <2>. HIDE DEF n
  <2>3. \A i \in 1..N : N + 1 - i \in 1..N
    BY <1>2
  <2>. QED  BY <2>1, <2>2, <2>3
<1>. HIDE DEF o
<1>5. n \in Nat /\ base \in I[0] /\ \A i \in 0..n : I[i] \subseteq D
  <2>1. n \in Nat /\ 0 \in 0..n /\ N - 0 = N /\ (N - 0 + 1)..N = {}
    BY <1>2, <1>4
  <2>2. base \in D /\ Len(base) = BlockStart(N) - RowsBefore
    BY <1>2
  <2>. HIDE DEF n, base, D
  <2>. QED  BY <2>1, <2>2
<1>6. \A i \in 1..n : \A x \in I[i - 1] : Op(x, o[i]) \in I[i]
  <2>. SUFFICES ASSUME NEW i \in 1..n, NEW s \in I[i - 1] PROVE Op(s, o[i]) \in I[i]
    OBVIOUS
  <2>. DEFINE m == N + 1 - i
  <2>1. i - 1 \in 0..n /\ i \in 0..n /\ m \in 1..N /\ m - 1 \in 0..N /\ m \in 0..N /\ N - (i - 1) = m /\ N - i = m - 1
        /\ N - (i - 1) + 1 = m + 1 /\ N - i + 1 = m /\ o[i] = m
    BY <1>2, <1>4
  <2>2. s \in D /\ Len(s) = BlockStart(m) - RowsBefore /\ \A k \in (m + 1)..N : Stands(part, s, k)
    <3>. HIDE DEF n, D
    <3>1. s \in {rows \in D : /\ Len(rows) = BlockStart(N - (i - 1)) - RowsBefore
                               /\ \A k \in (N - (i - 1) + 1)..N : Stands(part, rows, k)}
      BY <2>1
    <3>. QED  BY <2>1, <3>1
  <2>. HIDE DEF m
  <2>3. part[m] \in Seq(R) /\ Len(part[m]) = Size(m) /\ Size(m) \in Nat /\ BlockStart(m) \in Nat
        /\ BlockStart(m - 1) = BlockStart(m) + Size(m) /\ BlockStart(m) >= RowsBefore
    <3>1. N \in 0..N /\ m <= N
      BY <1>2, <2>1
    <3>. QED  BY <1>2, <1>3, <2>1, <3>1
  <2>4. s \o part[m] \in Seq(R) /\ Len(s \o part[m]) = BlockStart(m - 1) - RowsBefore /\ Len(s) \in Nat
    <3>1. s \in Seq(R) /\ Len(s) = BlockStart(m) - RowsBefore
      BY <2>2
    <3>2. s \o part[m] \in Seq(R) /\ Len(s) \in Nat /\ Len(s \o part[m]) = Len(s) + Len(part[m])
      BY <2>3, <3>1, ConcatRows
    <3>3. BlockStart(m) - RowsBefore + Size(m) = BlockStart(m - 1) - RowsBefore
      BY <1>2, <2>3
    <3>. QED  BY <2>3, <3>1, <3>2, <3>3
  <2>5. \A j \in 1..Len(s) : (s \o part[m])[j] = s[j]
    BY <2>2, <2>3
  <2>6. \A x \in 1..Size(m) : (s \o part[m])[Len(s) + x] = part[m][x]
    BY <2>2, <2>3, <2>4
  <2>7. ASSUME NEW k \in m..N PROVE Stands(part, s \o part[m], k)
    <3>1. CASE k = m
      <4>1. ASSUME NEW x \in 1..Size(m) PROVE (s \o part[m])[BlockStart(m) - RowsBefore + x] = part[m][x]
        BY <2>2, <2>6
      <4>. QED  BY <3>1, <4>1 DEF Stands
    <3>2. CASE k # m
      <4>1. k \in (m + 1)..N /\ m < k /\ k \in 0..N /\ k \in 1..N
        BY <1>2, <2>1, <3>2
      <4>2. Stands(part, s, k) /\ BlockStart(k) + Size(k) <= BlockStart(m) /\ BlockStart(k) \in Nat /\ Size(k) \in Nat
        BY <1>2, <1>3, <2>1, <2>2, <4>1
      <4>3. BlockStart(k) >= RowsBefore
        BY <1>2, <1>3, <4>1
      <4>4. ASSUME NEW x \in 1..Size(k)
            PROVE  (s \o part[m])[BlockStart(k) - RowsBefore + x] = part[k][x]
        <5>1. BlockStart(k) - RowsBefore + x \in 1..Len(s)
          <6>1. x \in Int /\ 1 <= x /\ x <= Size(k) /\ Size(k) \in Nat /\ BlockStart(k) \in Nat /\ BlockStart(m) \in Nat
            BY <2>3, <4>2
          <6>. HIDE DEF Size
          <6>2. BlockStart(k) - RowsBefore + x \in Int /\ 1 <= BlockStart(k) - RowsBefore + x
            BY <1>2, <4>3, <6>1
          <6>3. BlockStart(k) - RowsBefore + x <= BlockStart(m) - RowsBefore
            BY <1>2, <4>2, <6>1
          <6>. QED  BY <2>2, <2>4, <6>2, <6>3
        <5>2. s[BlockStart(k) - RowsBefore + x] = part[k][x]
          BY <4>2 DEF Stands
        <5>. QED  BY <2>5, <5>1, <5>2
      <4>. QED  BY <4>4 DEF Stands
    <3>. QED  BY <3>1, <3>2
  <2>8. s \o part[m] \in {rows \in D : /\ Len(rows) = BlockStart(N - i) - RowsBefore
                                        /\ \A k \in (N - i + 1)..N : Stands(part, rows, k)}
    BY <2>1, <2>4, <2>7
  <2>9. Op(s, o[i]) = s \o part[m]
    BY <2>1
  <2>. HIDE DEF Op, D, n
  <2>. QED  BY <2>1, <2>8, <2>9
<1>7. h[n] \in I[n]
  <2>. HIDE DEF n, Op, base, D, I
  <2>1. (\A f, i : Step(f, i) = Op(f[i - 1], o[i])) /\ \A x \in D, i \in 1..n : G[<<x, i>>] = Op(x, o[i])
    OBVIOUS
  <2>2. Invariant(D, I, base, n, G)
    <3>1. ASSUME NEW i \in 1..n, NEW x \in I[i - 1] PROVE G[<<x, i>>] \in I[i]
      <4>1. i - 1 \in 0..n
        BY <1>5
      <4>2. x \in D
        BY <1>5, <4>1
      <4>. QED  BY <1>6, <2>1, <4>2
    <3>. QED  BY <1>5, <3>1 DEF Invariant
  <2>. HIDE DEF Step, G
  <2>3. PICK g \in [0..n -> D] : /\ g[0] = base /\ \A i \in 1..n : g[i] = G[<<g[i - 1], i>>]
                                /\ \A i \in 0..n : g[i] \in I[i]
    <3>1. Folding(D, I, base, n, G)
      BY InvariantHolds
    <3>. QED  BY <2>2, <3>1 DEF Folding
  <2>4. \A i \in 1..n : g[i] = Step(g, i)
    <3>. TAKE i \in 1..n
    <3>1. i - 1 \in 0..n
      BY <1>5
    <3>. QED  BY <2>1, <2>3, <3>1
  <2>5. IsFold(g)
    <3>1. \A i \in 0..n : i = 0 \/ i \in 1..n
      BY <1>5
    <3>. QED  BY <2>3, <2>4, <3>1
  <2>6. IsFold(h)
    <3>. HIDE DEF IsFold
    <3>. QED  BY <2>5
  <2>. HIDE DEF h
  <2>7. h[0] = base /\ \A i \in 1..n : h[i] = Op(h[i - 1], o[i])
    <3>1. \A i \in 0..n : h[i] = IF i = 0 THEN base ELSE Step(h, i)
      BY <2>6
    <3>2. 0 \in 0..n /\ \A i \in 1..n : i \in 0..n /\ i # 0
      BY <1>5
    <3>. QED  BY <2>1, <3>1, <3>2
  <2>8. Carried(n, {i \in 0..n : h[i] = g[i]})
    BY Induction
  <2>9. 0..n \subseteq {i \in 0..n : h[i] = g[i]}
    <3>1. ASSUME NEW i \in 1..n, h[i - 1] = g[i - 1] PROVE h[i] = g[i]
      <4>1. h[i] = Op(h[i - 1], o[i]) /\ g[i] = Op(g[i - 1], o[i])
        BY <2>1, <2>4, <2>7
      <4>. QED  BY <3>1, <4>1
    <3>2. 0 \in 0..n /\ \A i \in 1..n : i \in 0..n
      BY <1>5
    <3>. QED  BY <1>5, <2>3, <2>7, <2>8, <3>1, <3>2 DEF Carried
  <2>. QED  BY <1>5, <2>3, <2>9
<1>8. n \in 0..n /\ N - n = 0 /\ N - n + 1 = 1
  BY <1>2, <1>4
<1>9. h[n] \in {rows \in D : /\ Len(rows) = BlockStart(0) - RowsBefore /\ \A k \in 1..N : Stands(part, rows, k)}
  <2>. HIDE DEF h, n
  <2>. QED  BY <1>7, <1>8
<1>. HIDE DEF h, n
<1>. QED  BY <1>1, <1>9 DEF N

\* The whole array, with the rows of the other cones.
Laid(a, f) ==
  /\ DOMAIN a = 0..(BlockStart(0) + RowsAfter - 1)
  /\ \A r \in 0..(RowsBefore - 1) : a[r] = r
  /\ \A k \in 1..tree.nCliques : \A x \in 1..Size(k) : a[BlockStart(k) + x - 1] = f[k][x]
  /\ \A y \in 0..(RowsAfter - 1) : a[BlockStart(0) + y] = AfterCone + y

LEMMA LayoutRows ==
  ASSUME Framed, NEW f, \A k \in 1..tree.nCliques : f[k] \in Seq(Int) /\ Len(f[k]) = Size(k)
  PROVE  Laid(Layout(f), f)
<1>. DEFINE N == tree.nCliques
            first == [r \in 1..RowsBefore |-> r - 1]
            last == [r \in 1..RowsAfter |-> AfterCone + r - 1]
            mid == Stacked(f)
            s == first \o mid \o last
            n == BlockStart(0) - RowsBefore
<1>1. /\ N \in Nat /\ RowsBefore \in Nat /\ RowsAfter \in Nat /\ (\A j \in 0..N : BlockStart(j) \in Nat)
      /\ BlockStart(N) = RowsBefore
      /\ \A j \in 1..N : Size(j) \in Nat /\ j - 1 \in 0..N /\ BlockStart(j - 1) = BlockStart(j) + Size(j)
  BY BlockStartIs DEF Framed
<1>2. AfterCone \in Nat
  <2>1. Order \in Nat
    BY DEF Framed
  <2>2. TriangularNumber(Order) \in Nat
    BY <2>1, TriangularIs
  <2>. QED  BY <1>1, <2>2 DEF AfterCone
<1>3. mid \in Seq(Int) /\ Len(mid) = n /\ \A k \in 1..N : Stands(f, mid, k)
  BY StackedRows
<1>4. \A k, m \in 0..N : (k <= m => BlockStart(m) <= BlockStart(k)) /\ (k < m => BlockStart(m) + Size(m) <= BlockStart(k))
  BY BlocksApart
<1>5. n \in Nat /\ BlockStart(0) \in Nat /\ BlockStart(0) = RowsBefore + n
  <2>1. 0 \in 0..N /\ N \in 0..N /\ 0 <= N
    BY <1>1
  <2>. QED  BY <1>1, <1>4, <2>1
<1>6. first \in Seq(Int) /\ Len(first) = RowsBefore /\ \A r \in 1..RowsBefore : first[r] = r - 1
  BY <1>1
<1>7. last \in Seq(Int) /\ Len(last) = RowsAfter /\ \A r \in 1..RowsAfter : last[r] = AfterCone + r - 1
  BY <1>1, <1>2
<1>8. Layout(f) = ToArray(s)
  <2>. DEFINE Rows(g) == ToArray(first \o Stacked(g) \o last)
  <2>1. Layout(f) = CHOOSE a \in {Rows(g) : g \in {f}} : TRUE
    BY DEF Layout, Stacked
  <2>. HIDE DEF Rows
  <2>2. Layout(f) = Rows(f)
    BY <2>1
  <2>. QED  BY <2>2 DEF Rows
<1>. HIDE DEF first, last, mid, n
<1>9. /\ s \in Seq(Int) /\ Len(s) = RowsBefore + n + RowsAfter
      /\ \A i \in 1..RowsBefore : s[i] = first[i]
      /\ \A i \in 1..n : s[RowsBefore + i] = mid[i]
      /\ \A i \in 1..RowsAfter : s[RowsBefore + n + i] = last[i]
  <2>. DEFINE t == mid \o last
  <2>1. /\ t \in Seq(Int) /\ Len(t) = n + RowsAfter /\ (\A i \in 1..n : t[i] = mid[i])
        /\ \A i \in 1..RowsAfter : t[n + i] = last[i]
    <3>1. mid \in Seq(Int) /\ last \in Seq(Int)
      BY <1>3, <1>7
    <3>2. /\ mid \o last \in Seq(Int) /\ Len(mid \o last) = Len(mid) + Len(last)
          /\ \A i \in 1..Len(mid) : (mid \o last)[i] = mid[i]
          /\ \A i \in 1..Len(last) : (mid \o last)[Len(mid) + i] = last[i]
      BY <3>1, ConcatRows
    <3>. QED  BY <1>3, <1>7, <3>2
  <2>2. s = first \o t
    OBVIOUS
  <2>. HIDE DEF t, s
  <2>3. /\ s \in Seq(Int) /\ Len(s) = RowsBefore + (n + RowsAfter) /\ (\A i \in 1..RowsBefore : s[i] = first[i])
        /\ \A i \in 1..(n + RowsAfter) : s[RowsBefore + i] = t[i]
    <3>1. /\ first \o t \in Seq(Int) /\ Len(first \o t) = Len(first) + Len(t)
          /\ \A i \in 1..Len(first) : (first \o t)[i] = first[i]
          /\ \A i \in 1..Len(t) : (first \o t)[Len(first) + i] = t[i]
      <4>1. first \in Seq(Int) /\ t \in Seq(Int)
        BY <1>6, <2>1
      <4>. QED  BY <4>1, ConcatRows
    <3>. QED  BY <1>6, <2>1, <2>2, <3>1
  <2>4. /\ \A i \in 1..n : i \in 1..(n + RowsAfter)
        /\ \A i \in 1..RowsAfter : n + i \in 1..(n + RowsAfter) /\ RowsBefore + (n + i) = RowsBefore + n + i
    BY <1>1, <1>5
  <2>5. \A i \in 1..n : s[RowsBefore + i] = mid[i]
    BY <2>1, <2>3, <2>4
  <2>6. \A i \in 1..RowsAfter : s[RowsBefore + n + i] = last[i]
    BY <2>1, <2>3, <2>4
  <2>. QED  BY <1>1, <1>5, <2>3, <2>5, <2>6
<1>. HIDE DEF s
<1>11. /\ DOMAIN Layout(f) = 0..(BlockStart(0) + RowsAfter - 1)
       /\ \A r \in 0..(BlockStart(0) + RowsAfter - 1) : Layout(f)[r] = s[r + 1]
  BY <1>1, <1>5, <1>8, <1>9 DEF ToArray
<1>12. ASSUME NEW r \in 0..(RowsBefore - 1) PROVE Layout(f)[r] = r
  <2>1. r + 1 \in 1..RowsBefore /\ r \in 0..(BlockStart(0) + RowsAfter - 1) /\ r + 1 - 1 = r
    BY <1>1, <1>5
  <2>. QED  BY <1>6, <1>9, <1>11, <2>1
<1>13. ASSUME NEW k \in 1..N, NEW x \in 1..Size(k) PROVE Layout(f)[BlockStart(k) + x - 1] = f[k][x]
  <2>1. k \in 0..N /\ 0 \in 0..N /\ 0 < k /\ N \in 0..N /\ k <= N
    BY <1>1
  <2>2. /\ BlockStart(k) \in Nat /\ Size(k) \in Nat /\ BlockStart(k) + Size(k) <= BlockStart(0)
        /\ RowsBefore <= BlockStart(k)
    BY <1>1, <1>4, <2>1
  <2>3. BlockStart(k) - RowsBefore + x \in 1..n /\ BlockStart(k) + x - 1 \in 0..(BlockStart(0) + RowsAfter - 1)
        /\ BlockStart(k) + x - 1 + 1 = RowsBefore + (BlockStart(k) - RowsBefore + x)
    <3>1. x \in Int /\ 1 <= x /\ x <= Size(k) /\ n \in Int /\ BlockStart(0) = RowsBefore + n /\ BlockStart(0) \in Nat
      BY <1>5, <2>2
    <3>. HIDE DEF Size
    <3>2. BlockStart(k) - RowsBefore + x \in 1..n
      BY <1>1, <2>2, <3>1
    <3>3. BlockStart(k) + x - 1 \in 0..(BlockStart(0) + RowsAfter - 1)
      BY <1>1, <2>2, <3>1
    <3>4. BlockStart(k) + x - 1 + 1 = RowsBefore + (BlockStart(k) - RowsBefore + x)
      BY <1>1, <2>2, <3>1
    <3>. QED  BY <3>2, <3>3, <3>4
  <2>4. mid[BlockStart(k) - RowsBefore + x] = f[k][x]
    BY <1>3 DEF Stands
  <2>. QED  BY <1>9, <1>11, <2>3, <2>4
<1>14. ASSUME NEW y \in 0..(RowsAfter - 1) PROVE Layout(f)[BlockStart(0) + y] = AfterCone + y
  <2>1. /\ y + 1 \in 1..RowsAfter /\ BlockStart(0) + y \in 0..(BlockStart(0) + RowsAfter - 1)
        /\ BlockStart(0) + y + 1 = RowsBefore + n + (y + 1) /\ AfterCone + (y + 1) - 1 = AfterCone + y
    BY <1>1, <1>2, <1>5
  <2>. QED  BY <1>7, <1>9, <1>11, <2>1
<1>. QED  BY <1>11, <1>12, <1>13, <1>14 DEF Laid, N

-----------------------------------------------------------------------------
(* The rows of the blocks                                                   *)

\* A pair of vertices that cliques share has one clique whose separator does not
\* hold it.
LEMMA OwnerOfPair ==
  ASSUME NEW K, NEW S, NEW P, NEW up, Junction(K, S, P, up), NEW d \in K,
         NEW x \in S[d] \cup P[d], NEW e \in S[d] \cup P[d]
  PROVE  \E b \in K : {x, e} \subseteq S[b] \cup P[b] /\ ~ ({x, e} \subseteq P[b]) /\ S[b] # {}
<1>. DEFINE B == {b \in K : {x, e} \subseteq S[b] \cup P[b]}
<1>1. B \in SUBSET K /\ B # {}
  OBVIOUS
<1>2. PICK b \in B : up[b] \notin B
  <2>. HIDE DEF B
  <2>. QED  BY <1>1, Topmost
<1>3. b \in K /\ {x, e} \subseteq S[b] \cup P[b]
  OBVIOUS
<1>4. ASSUME {x, e} \subseteq P[b] PROVE FALSE
  <2>1. P[b] # {}
    BY <1>4
  <2>2. up[b] \notin {NoParent, Inactive}
    BY <1>3, <2>1 DEF Junction
  <2>3. up[b] \in K /\ P[b] \subseteq S[up[b]] \cup P[up[b]]
    BY <1>3, <2>2 DEF Junction
  <2>4. up[b] \in B
    BY <1>4, <2>3
  <2>. QED  BY <1>2, <2>4
<1>5. S[b] # {}
  BY <1>3, <1>4
<1>. QED  BY <1>3, <1>4, <1>5

LEMMA OneOwner ==
  ASSUME NEW K, NEW S, NEW P, NEW up, Junction(K, S, P, up), NEW b \in K, NEW d \in K,
         NEW x \in S[b] \cup P[b], NEW e \in S[b] \cup P[b], x \in S[d] \cup P[d], e \in S[d] \cup P[d],
         ~ ({x, e} \subseteq P[b]), ~ ({x, e} \subseteq P[d])
  PROVE  b = d
<1>. SUFFICES ASSUME b # d PROVE FALSE
  OBVIOUS
<1>1. PICK y \in {x, e} : y \in S[b]
  OBVIOUS
<1>2. PICK z \in {x, e} : z \in S[d] /\ z \notin P[d]
  OBVIOUS
<1>3. y \in S[d] \cup P[d] /\ z \in S[b] \cup P[b]
  OBVIOUS
<1>4. y \in P[d] /\ \A u \in S[d] : u < y
  BY <1>1, <1>3, Shared
<1>5. \A u \in S[b] : u < z
  BY <1>2, <1>3, Shared
<1>6. z < y /\ y < z
  BY <1>1, <1>2, <1>4, <1>5
<1>7. y \in Nat /\ z \in Nat
  BY <1>1, <1>2 DEF Junction, Vertices
<1>. QED  BY <1>6, <1>7

\* The cliques in the numbers of the original matrix, by their place in the post order.
Clique(k) == {ordering[v] : v \in VerticesOf(tree.snodePost[k])}
Sep(k) == {ordering[v] : v \in Elems(tree.separators[tree.snodePost[k]])}
Owns(k, a, b) == {a, b} \subseteq Clique(k) /\ ~ ({a, b} \subseteq Sep(k))

\* What holds of the blocks of a finished clique tree.
Stack ==
  /\ Framed /\ tree.nCliques # 0
  /\ DOMAIN tree.snodePost = 1..tree.nCliques /\ Distinct(tree.snodePost) /\ Elems(tree.snodePost) = Active
  /\ \A k \in 1..tree.nCliques :
       LET c == tree.snodePost[k] IN
       /\ Clique(k) \in SUBSET Vertices /\ Sep(k) \in SUBSET Clique(k)
       /\ Elems(Original(CliqueOf(tree, c))) = Clique(k) /\ Elems(Original(tree.separators[c])) = Sep(k)
       /\ Elems(Original(tree.snode[c])) \cup Sep(k) = Clique(k)
       /\ tree.nblk[k] = Cardinality(Clique(k)) /\ Len(tree.separators[c]) = Cardinality(Sep(k))
       /\ \A v \in Vertices : ordering[v] \in Clique(k) <=> v \in VerticesOf(c)
  /\ \A k \in 1..(tree.nCliques - 1) :
       \E m \in (k + 1)..tree.nCliques : tree.snodePost[m] = tree.parent[tree.snodePost[k]] /\ Sep(k) \subseteq Clique(m)
  /\ Sep(tree.nCliques) = {}
  /\ \A k \in 1..tree.nCliques : \A a, b \in Clique(k) : \E m \in 1..tree.nCliques : Owns(m, a, b)
  /\ \A k, m \in 1..tree.nCliques : \A a, b \in Vertices : Owns(k, a, b) /\ Owns(m, a, b) => k = m

LEMMA ImageSize ==
  ASSUME Order \in Nat \ {0}, NEW p, OneToOne(p), NEW X \in SUBSET Vertices
  PROVE  Cardinality({p[v] : v \in X}) = Cardinality(X)
<1>. DEFINE f == [v \in X |-> p[v]]
            T == {p[v] : v \in X}
<1>1. IsFiniteSet(X)
  BY FiniteVertices
<1>2. f = [v \in X |-> f[v]] /\ (\A v \in X : f[v] \in T) /\ (\A y \in T : \E v \in X : f[v] = y)
  OBVIOUS
<1>3. \A v, w \in X : f[v] = f[w] => v = w
  BY DEF OneToOne
<1>. HIDE DEF f, T
<1>4. Cardinality(T) = Cardinality(X)
  BY <1>1, <1>2, <1>3, SameSize
<1>. QED  BY <1>4 DEF T

LEMMA StackIs ==
  ASSUME OrderAssumption, Well(tree), InPostOrder(tree), Reordering(ordering), Sized(tree)
  PROVE  Stack
<1>. DEFINE K == DOMAIN tree.snode
            S == Members(tree.snode)
            P == Members(tree.separators)
            up == tree.parent
            o == tree.snodePost
            N == tree.nCliques
<1>1. Junction(K, S, P, up) /\ tree.snode \in [K -> Seq(Vertices)] /\ tree.separators \in [K -> Seq(Vertices)]
      /\ tree \in Trees(K) /\ \A c \in K : Distinct(tree.snode[c]) /\ Distinct(tree.separators[c])
  BY DEF Well, Trees
<1>2. PICK r \in K : up[r] = NoParent /\ Posted(K, up, r, o)
  BY DEF InPostOrder
<1>3. CliqueTreeHolds
  BY WellIsCliqueTree
<1>4. /\ o \in Seq(K) /\ Distinct(o) /\ Len(o) = N /\ N \in Nat /\ DOMAIN o = 1..N /\ Elems(o) = Active
      /\ \A k \in 1..N : o[k] \in K
  <2>1. o \in Seq(K) /\ Distinct(o)
    BY <1>2 DEF Posted
  <2>2. Len(o) = N /\ Elems(o) = Active
    BY <1>3 DEF CliqueTreeHolds
  <2>. HIDE DEF o, N, K
  <2>. QED  BY <2>1, <2>2
<1>5. Order \in Nat \ {0} /\ RowsBefore \in Nat /\ RowsAfter \in Nat /\ OneToOne(ordering) /\ ordering \in [Vertices -> Vertices]
  <2>1. Order \in Nat \ {0} /\ RowsBefore \in Nat /\ RowsAfter \in Nat
    BY DEF OrderAssumption
  <2>2. OneToOne(ordering)
    BY <2>1, ReorderingIsOneToOne
  <2>. QED  BY <2>1, <2>2 DEF OneToOne
<1>6. \A c \in K : /\ S[c] = Elems(tree.snode[c]) /\ P[c] = Elems(tree.separators[c]) /\ VerticesOf(c) = S[c] \cup P[c]
                   /\ S[c] \in SUBSET Vertices /\ P[c] \in SUBSET Vertices /\ S[c] \cap P[c] = {}
                   /\ c \in Active <=> S[c] # {}
  <2>. TAKE c \in K
  <2>1. S[c] = Elems(tree.snode[c]) /\ P[c] = Elems(tree.separators[c])
    BY <1>1 DEF Members
  <2>2. Elems(CliqueOf(tree, c)) = Elems(tree.snode[c]) \cup Elems(tree.separators[c])
    BY CliqueOfIs
  <2>3. S[c] \in SUBSET Vertices /\ P[c] \in SUBSET Vertices /\ \A x \in S[c], y \in P[c] : x < y
    BY <1>1 DEF Junction
  <2>4. S[c] \cap P[c] = {}
    BY <2>3 DEF Vertices
  <2>5. tree.snode[c] = <<>> <=> Elems(tree.snode[c]) = {}
    BY <1>1, ElemsOfSeq
  <2>6. c \in Active <=> S[c] # {}
    BY <2>1, <2>5 DEF Active
  <2>. QED  BY <2>1, <2>2, <2>3, <2>4, <2>6 DEF VerticesOf
<1>7. ASSUME NEW k \in 1..N
      PROVE  /\ o[k] \in K /\ Clique(k) = {ordering[v] : v \in S[o[k]] \cup P[o[k]]} /\ Sep(k) = {ordering[v] : v \in P[o[k]]}
             /\ Clique(k) \in SUBSET Vertices /\ Sep(k) \in SUBSET Clique(k)
             /\ \A v \in Vertices : /\ ordering[v] \in Clique(k) <=> v \in S[o[k]] \cup P[o[k]]
                                    /\ ordering[v] \in Sep(k) <=> v \in P[o[k]]
  <2>1. o[k] \in K /\ S[o[k]] \cup P[o[k]] \in SUBSET Vertices
    BY <1>4, <1>6
  <2>2. Clique(k) = {ordering[v] : v \in S[o[k]] \cup P[o[k]]} /\ Sep(k) = {ordering[v] : v \in P[o[k]]}
    BY <1>6, <2>1 DEF Clique, Sep
  <2>. HIDE DEF S, P, o, K
  <2>3. Clique(k) \in SUBSET Vertices /\ Sep(k) \in SUBSET Clique(k)
    BY <1>5, <2>1, <2>2
  <2>4. ASSUME NEW v \in Vertices
        PROVE  (ordering[v] \in Clique(k) <=> v \in S[o[k]] \cup P[o[k]]) /\ (ordering[v] \in Sep(k) <=> v \in P[o[k]])
    <3>1. \A w \in Vertices : ordering[v] = ordering[w] => v = w
      BY <1>5 DEF OneToOne
    <3>. QED  BY <2>1, <2>2, <3>1
  <2>. QED  BY <2>1, <2>2, <2>3, <2>4
<1>8. ASSUME NEW k \in 1..N
      PROVE  /\ Elems(Original(CliqueOf(tree, o[k]))) = Clique(k) /\ Elems(Original(tree.separators[o[k]])) = Sep(k)
             /\ Elems(Original(tree.snode[o[k]])) \cup Sep(k) = Clique(k)
  <2>. DEFINE c == o[k]
  <2>1. c \in K /\ tree.snode[c] \in Seq(Vertices) /\ tree.separators[c] \in Seq(Vertices)
    BY <1>1, <1>4
  <2>2. CliqueOf(tree, c) \in Seq(Vertices) /\ Elems(CliqueOf(tree, c)) = S[c] \cup P[c]
    <3>1. OrderedUnion(tree.snode[c], tree.separators[c]) \in Seq(Vertices)
      BY <2>1, OrderedUnionIs
    <3>2. Elems(CliqueOf(tree, c)) = Elems(tree.snode[c]) \cup Elems(tree.separators[c])
      BY <2>1, CliqueOfIs
    <3>. QED  BY <1>6, <2>1, <3>1, <3>2 DEF CliqueOf
  <2>3. S[c] = Elems(tree.snode[c]) /\ P[c] = Elems(tree.separators[c])
    BY <1>6, <2>1
  <2>4. Clique(k) = {ordering[v] : v \in S[c] \cup P[c]} /\ Sep(k) = {ordering[v] : v \in P[c]}
    BY <1>7
  <2>. HIDE DEF c, S, P, K, o
  <2>5. /\ Elems(Original(CliqueOf(tree, c))) = {ordering[v] : v \in Elems(CliqueOf(tree, c))}
        /\ Elems(Original(tree.separators[c])) = {ordering[v] : v \in Elems(tree.separators[c])}
        /\ Elems(Original(tree.snode[c])) = {ordering[v] : v \in Elems(tree.snode[c])}
    BY <1>5, <2>1, <2>2, OriginalIs
  <2>6. {ordering[v] : v \in S[c]} \cup {ordering[v] : v \in P[c]} = {ordering[v] : v \in S[c] \cup P[c]}
    OBVIOUS
  <2>. QED  BY <2>2, <2>3, <2>4, <2>5, <2>6 DEF c
<1>9. ASSUME NEW k \in 1..N
      PROVE  tree.nblk[k] = Cardinality(Clique(k)) /\ Len(tree.separators[o[k]]) = Cardinality(Sep(k)) /\ tree.nblk[k] \in Nat
  <2>. DEFINE c == o[k]
  <2>1. /\ c \in K /\ tree.snode[c] \in Seq(Vertices) /\ tree.separators[c] \in Seq(Vertices)
        /\ Distinct(tree.snode[c]) /\ Distinct(tree.separators[c])
    BY <1>1, <1>4
  <2>2. /\ S[c] = Elems(tree.snode[c]) /\ P[c] = Elems(tree.separators[c]) /\ S[c] \cap P[c] = {}
        /\ S[c] \in SUBSET Vertices /\ P[c] \in SUBSET Vertices
    BY <1>6, <2>1
  <2>3. tree.nblk[k] = Len(tree.separators[c]) + Len(tree.snode[c])
    BY DEF Sized
  <2>4. Clique(k) = {ordering[v] : v \in S[c] \cup P[c]} /\ Sep(k) = {ordering[v] : v \in P[c]}
    BY <1>7
  <2>. HIDE DEF c, S, P, K, o
  <2>5. IsFiniteSet(S[c]) /\ Cardinality(S[c]) = Len(tree.snode[c])
        /\ IsFiniteSet(P[c]) /\ Cardinality(P[c]) = Len(tree.separators[c])
    BY <2>1, <2>2, DistinctLen
  <2>6. Len(tree.separators[c]) \in Nat /\ Len(tree.snode[c]) \in Nat
    BY <2>1
  <2>7. Cardinality(S[c] \cup P[c]) = Cardinality(S[c]) + Cardinality(P[c])
    <3>1. Cardinality(S[c] \cup P[c]) = Cardinality(S[c]) + Cardinality(P[c]) - Cardinality(S[c] \cap P[c])
      BY <2>5, FS_Union
    <3>2. Cardinality(S[c] \cap P[c]) = 0
      BY <2>2, FS_EmptySet
    <3>. QED  BY <2>5, <2>6, <3>1, <3>2
  <2>8. Cardinality({ordering[v] : v \in S[c] \cup P[c]}) = Cardinality(S[c] \cup P[c])
    <3>1. S[c] \cup P[c] \in SUBSET Vertices
      BY <2>2
    <3>. QED  BY <1>5, <3>1, ImageSize
  <2>9. Cardinality({ordering[v] : v \in P[c]}) = Cardinality(P[c])
    BY <1>5, <2>2, ImageSize
  <2>10. tree.nblk[k] = Cardinality(Clique(k)) /\ Len(tree.separators[c]) = Cardinality(Sep(k)) /\ tree.nblk[k] \in Nat
    <3>1. Cardinality(Clique(k)) = Cardinality(S[c] \cup P[c]) /\ Cardinality(Sep(k)) = Cardinality(P[c])
      BY <2>4, <2>8, <2>9
    <3>2. Cardinality(Clique(k)) = Len(tree.snode[c]) + Len(tree.separators[c])
      BY <2>5, <2>7, <3>1
    <3>3. Cardinality(Sep(k)) = Len(tree.separators[c])
      BY <2>5, <3>1
    <3>4. tree.nblk[k] = Cardinality(Clique(k)) /\ tree.nblk[k] \in Nat
      <4>. DEFINE a == Len(tree.snode[c])
                  b == Len(tree.separators[c])
                  q == Cardinality(Clique(k))
                  h == tree.nblk[k]
      <4>1. a \in Nat /\ b \in Nat /\ h = b + a /\ q = a + b
        BY <2>3, <2>6, <3>2
      <4>. HIDE DEF a, b, q, h
      <4>2. h = q /\ h \in Nat
        BY <4>1
      <4>. QED  BY <4>2 DEF q, h
    <3>. QED  BY <3>3, <3>4
  <2>. QED  BY <2>10 DEF c
<1>10. Framed
  <2>1. DOMAIN tree.nblk = 1..N
    BY DEF Sized
  <2>. QED  BY <1>4, <1>5, <1>9, <2>1 DEF Framed
<1>11. N # 0 /\ o[N] = r
  <2>1. up[r] # Inactive /\ \A c \in K : up[c] = NoParent => c = r
    BY <1>1, <1>2 DEF Junction, NoParent, Inactive
  <2>. HIDE DEF K, up, o, N
  <2>2. Len(o) \in Nat \ {0} /\ o[Len(o)] = r
    BY <1>2, <2>1, RootIsLast
  <2>. QED  BY <1>4, <2>2
<1>12. Sep(N) = {}
  <2>1. P[r] = {}
    BY <1>1, <1>2 DEF Junction
  <2>2. N \in 1..N
    BY <1>4, <1>11
  <2>. QED  BY <1>7, <1>11, <2>1, <2>2
<1>13. ASSUME NEW k \in 1..(N - 1)
       PROVE  \E m \in (k + 1)..N : o[m] = up[o[k]] /\ Sep(k) \subseteq Clique(m)
  <2>1. k \in 1..N
    BY <1>4
  <2>2. /\ up[o[k]] \in {o[m] : m \in (k + 1)..N}
        /\ Elems(tree.separators[o[k]]) = VerticesOf(o[k]) \cap VerticesOf(up[o[k]])
    BY <1>3 DEF CliqueTreeHolds
  <2>3. PICK m \in (k + 1)..N : o[m] = up[o[k]]
    BY <2>2
  <2>4. m \in 1..N
    BY <1>4, <2>1
  <2>5. o[k] \in K /\ o[m] \in K
    BY <1>4, <2>1, <2>4
  <2>6. P[o[k]] \subseteq S[o[m]] \cup P[o[m]]
    BY <1>6, <2>2, <2>3, <2>5
  <2>7. Sep(k) = {ordering[v] : v \in P[o[k]]} /\ Clique(m) = {ordering[v] : v \in S[o[m]] \cup P[o[m]]}
    BY <1>7, <2>1, <2>4
  <2>8. Sep(k) \subseteq Clique(m)
    BY <2>6, <2>7
  <2>. QED  BY <2>3, <2>8
<1>14. ASSUME NEW k \in 1..N, NEW v \in Vertices, NEW w \in Vertices
       PROVE  Owns(k, ordering[v], ordering[w])
                <=> {v, w} \subseteq S[o[k]] \cup P[o[k]] /\ ~ ({v, w} \subseteq P[o[k]])
  BY <1>7 DEF Owns
<1>15. ASSUME NEW k \in 1..N, NEW a \in Clique(k), NEW b \in Clique(k) PROVE \E m \in 1..N : Owns(m, a, b)
  <2>1. PICK v \in S[o[k]] \cup P[o[k]] : a = ordering[v]
    BY <1>7
  <2>2. PICK w \in S[o[k]] \cup P[o[k]] : b = ordering[w]
    BY <1>7
  <2>3. o[k] \in K /\ v \in Vertices /\ w \in Vertices
    BY <1>4, <1>6
  <2>4. PICK q \in K : {v, w} \subseteq S[q] \cup P[q] /\ ~ ({v, w} \subseteq P[q]) /\ S[q] # {}
    <3>. HIDE DEF K, S, P, o, up
    <3>1. PICK d \in K : d = o[k]
      BY <2>3
    <3>2. v \in S[d] \cup P[d] /\ w \in S[d] \cup P[d]
      BY <2>1, <2>2, <3>1
    <3>3. Junction(K, S, P, up)
      BY <1>1
    <3>. QED  BY <3>2, <3>3, OwnerOfPair
  <2>5. q \in Elems(o)
    BY <1>4, <1>6, <2>4
  <2>6. PICK m \in 1..N : q = o[m]
    BY <1>4, <2>5 DEF Elems
  <2>7. Owns(m, ordering[v], ordering[w])
    BY <1>14, <2>3, <2>4, <2>6
  <2>. QED  BY <2>1, <2>2, <2>7
<1>16. ASSUME NEW k \in 1..N, NEW m \in 1..N, NEW a \in Vertices, NEW e \in Vertices, Owns(k, a, e), Owns(m, a, e)
       PROVE  k = m
  <2>1. PICK v \in Vertices : ordering[v] = a
    BY <1>5 DEF OneToOne
  <2>2. PICK w \in Vertices : ordering[w] = e
    BY <1>5 DEF OneToOne
  <2>3. /\ {v, w} \subseteq S[o[k]] \cup P[o[k]] /\ ~ ({v, w} \subseteq P[o[k]])
        /\ {v, w} \subseteq S[o[m]] \cup P[o[m]] /\ ~ ({v, w} \subseteq P[o[m]])
    BY <1>14, <1>16, <2>1, <2>2
  <2>4. o[k] \in K /\ o[m] \in K
    BY <1>4
  <2>. HIDE DEF K, S, P, o, up, N
  <2>5. o[k] = o[m]
    <3>1. PICK b \in K : b = o[k]
      BY <2>4
    <3>2. PICK d \in K : d = o[m]
      BY <2>4
    <3>3. /\ v \in S[b] \cup P[b] /\ w \in S[b] \cup P[b] /\ v \in S[d] \cup P[d] /\ w \in S[d] \cup P[d]
          /\ ~ ({v, w} \subseteq P[b]) /\ ~ ({v, w} \subseteq P[d])
      BY <2>3, <3>1, <3>2
    <3>5. Junction(K, S, P, up)
      BY <1>1
    <3>4. b = d
      BY <3>3, <3>5, OneOwner
    <3>. QED  BY <3>1, <3>2, <3>4
  <2>. QED  BY <1>4, <2>5 DEF Distinct
<1>17. ASSUME NEW k \in 1..N
       PROVE  \A v \in Vertices : ordering[v] \in Clique(k) <=> v \in VerticesOf(o[k])
  BY <1>6, <1>7
<1>. HIDE DEF S, P, K, up
<1>. QED  BY <1>4, <1>7, <1>8, <1>9, <1>10, <1>11, <1>12, <1>13, <1>15, <1>16, <1>17 DEF Stack, o, N, up

\* Entry x of the block of the clique at post position k: its pair of vertices, the
\* row of the cone it stands for, the row it gets, and whether it repeats an entry
\* of the parent.
Spot(k, x) == PairAt(Clique(k), x)
RowOf(k, x) == RowsBefore + CoordToIndex(Spot(k, x)[1], Spot(k, x)[2])
Slot(k, x) == BlockStart(k) + x - 1
Tie(k, x) == Spot(k, x)[1] \in Sep(k) /\ Spot(k, x)[2] \in Sep(k)

LEMMA StackParts ==
  ASSUME Stack, NEW k \in 1..tree.nCliques
  PROVE  /\ Framed /\ Clique(k) \in SUBSET Vertices /\ Sep(k) \in SUBSET Clique(k)
         /\ Clique(k) \in SUBSET Nat /\ IsFiniteSet(Clique(k)) /\ Vertices \in SUBSET Nat
         /\ Entries(Clique(k)) = 1..Size(k) /\ tree.nblk[k] = Cardinality(Clique(k)) /\ Size(k) \in Nat
<1>1. Framed /\ Clique(k) \in SUBSET Vertices /\ Sep(k) \in SUBSET Clique(k) /\ tree.nblk[k] = Cardinality(Clique(k))
  BY DEF Stack
<1>2. Order \in Nat \ {0}
  BY <1>1 DEF Framed
<1>3. Clique(k) \in SUBSET Nat /\ IsFiniteSet(Clique(k)) /\ Vertices \in SUBSET Nat
  BY <1>1, <1>2, FiniteVertices
<1>4. Entries(Clique(k)) = 1..Size(k)
  BY <1>1 DEF Entries, Size
<1>5. Size(k) \in Nat
  BY <1>1, BlockStartIs
<1>. QED  BY <1>1, <1>3, <1>4, <1>5

LEMMA SpotsAre ==
  ASSUME Stack, NEW k \in 1..tree.nCliques
  PROVE  /\ \A x \in 1..Size(k) :
              /\ Spot(k, x)[1] \in Clique(k) /\ Spot(k, x)[2] \in Clique(k) /\ Spot(k, x)[1] <= Spot(k, x)[2]
              /\ Spot(k, x) = <<Spot(k, x)[1], Spot(k, x)[2]>>
              /\ RowOf(k, x) \in RowsBefore..(AfterCone - 1) /\ IndexToCoord(RowOf(k, x) - RowsBefore) = Spot(k, x)
         /\ \A x, y \in 1..Size(k) : Spot(k, x) = Spot(k, y) => x = y
<1>1. /\ Clique(k) \in SUBSET Vertices /\ Clique(k) \in SUBSET Nat /\ IsFiniteSet(Clique(k)) /\ Vertices \in SUBSET Nat
      /\ Entries(Clique(k)) = 1..Size(k) /\ Framed
  BY StackParts
<1>2. Order \in Nat \ {0} /\ RowsBefore \in Nat /\ TriangularNumber(Order) \in Nat
  BY <1>1, TriangularIs DEF Framed
<1>3. ASSUME NEW x \in 1..Size(k)
      PROVE  /\ Spot(k, x)[1] \in Clique(k) /\ Spot(k, x)[2] \in Clique(k) /\ Spot(k, x)[1] <= Spot(k, x)[2]
             /\ Spot(k, x) = <<Spot(k, x)[1], Spot(k, x)[2]>>
  <2>1. x \in Entries(Clique(k))
    BY <1>1
  <2>2. /\ PairAt(Clique(k), x)[1] \in Clique(k) /\ PairAt(Clique(k), x)[2] \in Clique(k)
        /\ PairAt(Clique(k), x)[1] <= PairAt(Clique(k), x)[2]
    BY <1>1, <2>1, PairsAre
  <2>. QED  BY <2>2 DEF Spot, PairAt
<1>4. ASSUME NEW x \in 1..Size(k)
      PROVE  RowOf(k, x) \in RowsBefore..(AfterCone - 1) /\ IndexToCoord(RowOf(k, x) - RowsBefore) = Spot(k, x)
  <2>. DEFINE i == Spot(k, x)[1]
              j == Spot(k, x)[2]
  <2>1. i \in Vertices /\ j \in Vertices /\ i \in Nat /\ j \in Nat /\ i <= j /\ Spot(k, x) = <<i, j>>
    BY <1>1, <1>3
  <2>2. RowOf(k, x) = RowsBefore + CoordToIndex(i, j)
    BY DEF RowOf
  <2>. HIDE DEF i, j
  <2>3. CoordToIndex(i, j) \in 0..(TriangularNumber(Order) - 1) /\ IndexToCoord(CoordToIndex(i, j)) = <<i, j>>
    BY <1>2, <2>1, PlaceInCone, CoordRoundTrip
  <2>4. RowOf(k, x) - RowsBefore = CoordToIndex(i, j)
    BY <1>2, <2>2, <2>3
  <2>. QED  BY <1>2, <2>1, <2>2, <2>3, <2>4 DEF AfterCone
<1>5. ASSUME NEW x \in 1..Size(k), NEW y \in 1..Size(k), Spot(k, x) = Spot(k, y) PROVE x = y
  <2>1. x \in Entries(Clique(k)) /\ y \in Entries(Clique(k))
    BY <1>1
  <2>. QED  BY <1>1, <1>5, <2>1, PairsAre DEF Spot
<1>. QED  BY <1>3, <1>4, <1>5

\* Rows and places.
LEMMA RowsTell ==
  ASSUME Stack, NEW k \in 1..tree.nCliques, NEW m \in 1..tree.nCliques, NEW x \in 1..Size(k), NEW y \in 1..Size(m)
  PROVE  RowOf(k, x) = RowOf(m, y) <=> Spot(k, x) = Spot(m, y)
<1>1. IndexToCoord(RowOf(k, x) - RowsBefore) = Spot(k, x) /\ IndexToCoord(RowOf(m, y) - RowsBefore) = Spot(m, y)
  BY SpotsAre
<1>2. Spot(k, x) = Spot(m, y) => RowOf(k, x) = RowOf(m, y)
  BY DEF RowOf
<1>. QED  BY <1>1, <1>2

LEMMA SlotsAre ==
  ASSUME Framed, NEW k \in 1..tree.nCliques, NEW x \in 1..Size(k)
  PROVE  /\ Slot(k, x) \in Nat /\ RowsBefore <= Slot(k, x) /\ Slot(k, x) < BlockStart(0)
         /\ \A m \in 1..tree.nCliques : \A y \in 1..Size(m) : /\ k < m => Slot(m, y) < Slot(k, x)
                                                              /\ Slot(k, x) = Slot(m, y) => k = m /\ x = y
<1>1. /\ BlockStart(tree.nCliques) = RowsBefore /\ (\A j \in 0..tree.nCliques : BlockStart(j) \in Nat)
      /\ \A j \in 1..tree.nCliques : Size(j) \in Nat
  BY BlockStartIs
<1>2. tree.nCliques \in Nat /\ RowsBefore \in Nat
  BY DEF Framed
<1>3. 0 \in 0..tree.nCliques /\ tree.nCliques \in 0..tree.nCliques /\ k \in 0..tree.nCliques /\ k <= tree.nCliques /\ 0 < k /\ k \in Nat
  BY <1>2
<1>4. RowsBefore <= BlockStart(k) /\ BlockStart(k) + Size(k) <= BlockStart(0)
  BY <1>1, <1>3, BlocksApart
<1>5. Slot(k, x) \in Nat /\ RowsBefore <= Slot(k, x) /\ Slot(k, x) < BlockStart(0)
  <2>1. BlockStart(k) \in Nat /\ Size(k) \in Nat /\ BlockStart(0) \in Nat
    BY <1>1, <1>3
  <2>. HIDE DEF Size
  <2>. QED  BY <1>2, <1>4, <2>1 DEF Slot
<1>6. ASSUME NEW a \in 1..tree.nCliques, NEW d \in 1..tree.nCliques, NEW u \in 1..Size(a), NEW w \in 1..Size(d), a < d
      PROVE  Slot(d, w) < Slot(a, u)
  <2>1. a \in 0..tree.nCliques /\ d \in 0..tree.nCliques
    BY <1>2
  <2>2. BlockStart(d) + Size(d) <= BlockStart(a)
    BY <1>6, <2>1, BlocksApart
  <2>3. BlockStart(d) \in Nat /\ BlockStart(a) \in Nat /\ Size(d) \in Nat
    BY <1>1, <2>1
  <2>. HIDE DEF Size
  <2>4. u \in Nat /\ u >= 1 /\ w \in Nat /\ w <= Size(d)
    OBVIOUS
  <2>. QED  BY <2>2, <2>3, <2>4 DEF Slot
<1>7. ASSUME NEW m \in 1..tree.nCliques, NEW y \in 1..Size(m), Slot(k, x) = Slot(m, y) PROVE k = m /\ x = y
  <2>1. ~ (k < m) /\ ~ (m < k)
    <3>1. k < m => Slot(m, y) < Slot(k, x)
      BY <1>6
    <3>2. m < k => Slot(k, x) < Slot(m, y)
      BY <1>6
    <3>. QED  BY <1>5, <1>7, <3>1, <3>2
  <2>2. k = m
    BY <2>1
  <2>3. BlockStart(k) \in Nat /\ x \in Int /\ y \in Int
    BY <1>1, <1>3
  <2>. QED  BY <1>7, <2>2, <2>3 DEF Slot
<1>. QED  BY <1>5, <1>6, <1>7

\* A row of the augmented problem belongs to one of the other cones or to an entry.
LEMMA RowKinds ==
  ASSUME Framed, NEW r \in 0..(BlockStart(0) + RowsAfter - 1)
  PROVE  \/ r \in 0..(RowsBefore - 1)
         \/ \E k \in 1..tree.nCliques : \E x \in 1..Size(k) : r = Slot(k, x)
         \/ \E y \in 0..(RowsAfter - 1) : r = BlockStart(0) + y
<1>1. BlockStart(0) \in Nat /\ RowsBefore \in Nat /\ RowsAfter \in Nat
  <2>1. tree.nCliques \in Nat /\ RowsBefore \in Nat /\ RowsAfter \in Nat
    BY DEF Framed
  <2>2. \A j \in 0..tree.nCliques : BlockStart(j) \in Nat
    BY BlockStartIs
  <2>. QED  BY <2>1, <2>2
<1>2. CASE r < RowsBefore
  BY <1>1, <1>2
<1>3. CASE RowsBefore <= r /\ r < BlockStart(0)
  <2>1. r \in Nat
    BY <1>1
  <2>2. \E k \in 1..tree.nCliques : \E x \in 1..Size(k) : r = BlockStart(k) + x - 1
    BY <1>3, <2>1, BlockExists
  <2>. QED  BY <2>2 DEF Slot
<1>4. CASE BlockStart(0) <= r
  <2>1. r - BlockStart(0) \in 0..(RowsAfter - 1) /\ r = BlockStart(0) + (r - BlockStart(0))
    BY <1>1, <1>4
  <2>. QED  BY <2>1
<1>. QED  BY <1>1, <1>2, <1>3, <1>4

\* The walk over a clique visits its entries in the order of its block.
LEMMA WalkRows ==
  ASSUME Stack, NEW k \in 1..tree.nCliques
  PROVE  /\ Walk(k) = [x \in 1..Size(k) |-> RowOf(k, x)]
         /\ Walk(k) \in Seq(Int) /\ Len(Walk(k)) = Size(k)
<1>1. /\ Elems(Original(CliqueOf(tree, tree.snodePost[k]))) = Clique(k)
      /\ Clique(k) \in SUBSET Nat /\ IsFiniteSet(Clique(k)) /\ tree.nblk[k] = Cardinality(Clique(k)) /\ Size(k) \in Nat
  BY StackParts DEF Stack
<1>2. Len(Ascending(Clique(k))) = tree.nblk[k]
  BY <1>1, AscendingIs
<1>3. Walk(k) = [x \in 1..TriangularNumber(Len(Ascending(Clique(k)))) |-> RowOf(k, x)]
  BY <1>1 DEF Walk, RowOf, Spot, PairAt
<1>4. Walk(k) = [x \in 1..Size(k) |-> RowOf(k, x)]
  BY <1>2, <1>3 DEF Size
<1>5. \A x \in 1..Size(k) : RowOf(k, x) \in Int
  <2>1. \A x \in 1..Size(k) : RowOf(k, x) \in RowsBefore..(AfterCone - 1)
    BY SpotsAre
  <2>. QED  BY <2>1
<1>. HIDE DEF Size
<1>. QED  BY <1>1, <1>4, <1>5

\* The blocks hold the same entries.
LEMMA BlocksHold ==
  ASSUME Stack
  PROVE  /\ DOMAIN Blocks = 1..tree.nCliques
         /\ \A k \in 1..tree.nCliques :
              /\ Blocks[k].first = BlockStart(k) /\ DOMAIN Blocks[k].entries = 1..Size(k)
              /\ \A x \in 1..Size(k) : /\ Blocks[k].entries[x].i = Spot(k, x)[1] /\ Blocks[k].entries[x].j = Spot(k, x)[2]
                                       /\ Blocks[k].entries[x].overlap = Tie(k, x)
<1>1. DOMAIN Blocks = 1..tree.nCliques
  BY DEF Blocks
<1>2. ASSUME NEW k \in 1..tree.nCliques
      PROVE  /\ Blocks[k].first = BlockStart(k) /\ DOMAIN Blocks[k].entries = 1..Size(k)
             /\ \A x \in 1..Size(k) : /\ Blocks[k].entries[x].i = Spot(k, x)[1] /\ Blocks[k].entries[x].j = Spot(k, x)[2]
                                      /\ Blocks[k].entries[x].overlap = Tie(k, x)
  <2>. DEFINE sn == Original(tree.snode[tree.snodePost[k]])
              sep == Original(tree.separators[tree.snodePost[k]])
  <2>1. Blocks[k].first = BlockStart(k) /\ Blocks[k].entries = BlockIndices(sn, sep)
    BY DEF Blocks
  <2>2. Elems(sn) \cup Elems(sep) = Clique(k) /\ Elems(sep) = Sep(k)
    BY DEF Stack
  <2>3. Clique(k) \in SUBSET Nat /\ IsFiniteSet(Clique(k)) /\ tree.nblk[k] = Cardinality(Clique(k))
    BY StackParts
  <2>4. Len(Ascending(Clique(k))) = tree.nblk[k]
    BY <2>3, AscendingIs
  <2>. HIDE DEF sn, sep
  <2>. DEFINE E(x) == [i |-> Ascending(Clique(k))[IndexToCoord(x - 1)[1] + 1], j |-> Ascending(Clique(k))[IndexToCoord(x - 1)[2] + 1],
                       overlap |-> Overlaps(Ascending(Clique(k))[IndexToCoord(x - 1)[1] + 1],
                                            Ascending(Clique(k))[IndexToCoord(x - 1)[2] + 1], sep)]
  <2>5. BlockIndices(sn, sep) = [x \in 1..Size(k) |-> E(x)]
    BY <2>2, <2>4 DEF BlockIndices, Size
  <2>6. ASSUME NEW x \in 1..Size(k)
        PROVE  E(x).i = Spot(k, x)[1] /\ E(x).j = Spot(k, x)[2] /\ E(x).overlap = Tie(k, x)
    <3>1. Spot(k, x)[1] = Ascending(Clique(k))[IndexToCoord(x - 1)[1] + 1] /\ Spot(k, x)[2] = Ascending(Clique(k))[IndexToCoord(x - 1)[2] + 1]
      BY DEF Spot, PairAt
    <3>2. E(x).i = Spot(k, x)[1] /\ E(x).j = Spot(k, x)[2] /\ E(x).overlap = Overlaps(Spot(k, x)[1], Spot(k, x)[2], sep)
      BY <3>1
    <3>3. Overlaps(Spot(k, x)[1], Spot(k, x)[2], sep) = Tie(k, x)
      BY <2>2 DEF Overlaps, Has, Tie
    <3>. QED  BY <3>2, <3>3
  <2>. HIDE DEF E, Size
  <2>. QED  BY <2>1, <2>5, <2>6
<1>. QED  BY <1>1, <1>2

\* What the maps say of the rows of the augmented problem.
LEMMA ReverseIs ==
  ASSUME Stack
  PROVE  /\ DOMAIN ReverseMap = 0..(BlockStart(0) + RowsAfter - 1)
         /\ \A r \in 0..(RowsBefore - 1) : ReverseMap[r] = r
         /\ \A k \in 1..tree.nCliques : \A x \in 1..Size(k) : ReverseMap[Slot(k, x)] = RowOf(k, x)
         /\ \A y \in 0..(RowsAfter - 1) : ReverseMap[BlockStart(0) + y] = AfterCone + y
<1>. DEFINE f == [k \in 1..tree.nCliques |-> Walk(k)]
<1>1. \A k \in 1..tree.nCliques : f[k] \in Seq(Int) /\ Len(f[k]) = Size(k)
  BY WalkRows
<1>2. ReverseMap = Layout(f)
  BY DEF ReverseMap
<1>3. Framed
  BY DEF Stack
<1>4. \A k \in 1..tree.nCliques : \A x \in 1..Size(k) : f[k][x] = RowOf(k, x)
  BY WalkRows
<1>. HIDE DEF f
<1>5. Laid(ReverseMap, f)
  BY <1>1, <1>2, <1>3, LayoutRows
<1>. QED  BY <1>4, <1>5 DEF Laid, Slot

LEMMA BRowMapIs ==
  ASSUME Stack
  PROVE  /\ DOMAIN BRowMap(Blocks) = 0..(BlockStart(0) + RowsAfter - 1)
         /\ \A r \in 0..(RowsBefore - 1) : BRowMap(Blocks)[r] = r
         /\ \A k \in 1..tree.nCliques : \A x \in 1..Size(k) :
              BRowMap(Blocks)[Slot(k, x)] = IF Tie(k, x) THEN Unmapped ELSE RowOf(k, x)
         /\ \A y \in 0..(RowsAfter - 1) : BRowMap(Blocks)[BlockStart(0) + y] = AfterCone + y
<1>. DEFINE B == Blocks
            Row(k) == [x \in DOMAIN B[k].entries |->
                         IF B[k].entries[x].overlap THEN Unmapped
                         ELSE RowsBefore + CoordToIndex(B[k].entries[x].i, B[k].entries[x].j)]
            f == [k \in DOMAIN B |-> Row(k)]
<1>1. BRowMap(B) = Layout(f)
  BY DEF BRowMap
<1>2. /\ DOMAIN B = 1..tree.nCliques
      /\ \A k \in 1..tree.nCliques :
           /\ B[k].first = BlockStart(k) /\ DOMAIN B[k].entries = 1..Size(k)
           /\ \A x \in 1..Size(k) : /\ B[k].entries[x].i = Spot(k, x)[1] /\ B[k].entries[x].j = Spot(k, x)[2]
                                    /\ B[k].entries[x].overlap = Tie(k, x)
  BY BlocksHold
<1>. HIDE DEF B
<1>3. ASSUME NEW k \in 1..tree.nCliques
      PROVE  f[k] = [x \in 1..Size(k) |-> IF Tie(k, x) THEN Unmapped ELSE RowOf(k, x)]
  BY <1>2 DEF RowOf
<1>4. ASSUME NEW k \in 1..tree.nCliques PROVE f[k] \in Seq(Int) /\ Len(f[k]) = Size(k)
  <2>1. Size(k) \in Nat
    BY StackParts
  <2>2. \A x \in 1..Size(k) : RowOf(k, x) \in RowsBefore..(AfterCone - 1)
    BY SpotsAre
  <2>3. \A x \in 1..Size(k) : (IF Tie(k, x) THEN Unmapped ELSE RowOf(k, x)) \in Int
    BY <2>2 DEF Unmapped
  <2>. DEFINE W(x) == IF Tie(k, x) THEN Unmapped ELSE RowOf(k, x)
              g == f[k]
  <2>4. g = [x \in 1..Size(k) |-> W(x)] /\ \A x \in 1..Size(k) : W(x) \in Int
    BY <1>3, <2>3
  <2>. HIDE DEF W, Size, g
  <2>5. g \in Seq(Int) /\ Len(g) = Size(k)
    BY <2>1, <2>4
  <2>. QED  BY <2>5 DEF g
<1>5. Framed
  BY DEF Stack
<1>. HIDE DEF f
<1>6. \A k \in 1..tree.nCliques : \A x \in 1..Size(k) : f[k][x] = IF Tie(k, x) THEN Unmapped ELSE RowOf(k, x)
  BY <1>3
<1>7. Laid(BRowMap(B), f)
  BY <1>1, <1>4, <1>5, LayoutRows
<1>8. Laid(BRowMap(Blocks), f)
  BY <1>7 DEF B
<1>. QED  BY <1>6, <1>8 DEF Laid, Slot

\* The row that a repeated entry is tied to is that of the same entry in the block
\* of the parent.
LEMMA ParentRowIs ==
  ASSUME Stack, NEW k \in 1..tree.nCliques, NEW x \in 1..Size(k), Tie(k, x)
  PROVE  /\ k \in 1..(tree.nCliques - 1)
         /\ \E m \in (k + 1)..tree.nCliques : \E y \in 1..Size(m) :
              ParentRow(k, Spot(k, x)[1], Spot(k, x)[2]) = Slot(m, y) /\ Spot(m, y) = Spot(k, x)
<1>. DEFINE N == tree.nCliques
            o == tree.snodePost
            p == tree.parent[o[k]]
            i == Spot(k, x)[1]
            j == Spot(k, x)[2]
<1>1. N \in Nat /\ DOMAIN o = 1..N /\ Distinct(o) /\ Sep(N) = {}
  BY DEF Stack, Framed
<1>2. i \in Sep(k) /\ j \in Sep(k)
  BY DEF Tie
<1>3. k \in 1..(N - 1)
  BY <1>1, <1>2
<1>4. PICK m \in (k + 1)..N : o[m] = p /\ Sep(k) \subseteq Clique(m)
  BY <1>3 DEF Stack
<1>5. m \in 1..N
  BY <1>1
<1>6. /\ Clique(m) \in SUBSET Nat /\ IsFiniteSet(Clique(m)) /\ Entries(Clique(m)) = 1..Size(m)
      /\ Elems(Original(CliqueOf(tree, o[m]))) = Clique(m)
  BY <1>5, StackParts DEF Stack
<1>7. i <= j /\ Spot(k, x) = <<i, j>>
  BY SpotsAre
<1>. DEFINE y == EntryPlace(Clique(m), i, j)
<1>8. y \in 1..Size(m) /\ PairAt(Clique(m), y) = <<i, j>>
  <2>1. i \in Clique(m) /\ j \in Clique(m)
    BY <1>2, <1>4
  <2>. HIDE DEF i, j
  <2>. QED  BY <1>6, <1>7, <2>1, EntryIs
<1>9. (CHOOSE q \in DOMAIN o : o[q] = p) = m
  <2>1. \A q \in DOMAIN o : o[q] = p => q = m
    BY <1>1, <1>4, <1>5 DEF Distinct
  <2>2. m \in DOMAIN o /\ o[m] = p
    BY <1>1, <1>4, <1>5
  <2>. HIDE DEF o, p
  <2>. QED  BY <2>1, <2>2
<1>10. Elems(Original(CliqueOf(tree, p))) = Clique(m)
  BY <1>4, <1>6
<1>11. ParentRow(k, i, j) = BlockStart(m) + CoordToIndex(Cardinality({v \in Clique(m) : v < i}), Cardinality({v \in Clique(m) : v < j}))
  <2>. HIDE DEF i, j
  <2>. QED  BY <1>9, <1>10 DEF ParentRow
<1>12. ParentRow(k, i, j) = Slot(m, y)
  <2>. DEFINE e == CoordToIndex(Cardinality({v \in Clique(m) : v < i}), Cardinality({v \in Clique(m) : v < j}))
  <2>1. y = e + 1
    BY DEF EntryPlace
  <2>2. y \in Int /\ BlockStart(m) \in Nat
    <3>1. \A q \in 0..N : BlockStart(q) \in Nat
      BY BlockStartIs DEF Stack
    <3>. QED  BY <1>1, <1>5, <1>8, <3>1
  <2>3. e \in Int
    <3>1. Cardinality({v \in Clique(m) : v < i}) \in Nat /\ Cardinality({v \in Clique(m) : v < j}) \in Nat
      <4>1. IsFiniteSet({v \in Clique(m) : v < i}) /\ IsFiniteSet({v \in Clique(m) : v < j})
        BY <1>6, FS_Subset
      <4>. QED  BY <4>1, FS_CardinalityType
    <3>. DEFINE a == Cardinality({v \in Clique(m) : v < i})
                b == Cardinality({v \in Clique(m) : v < j})
    <3>. HIDE DEF a, b
    <3>2. a \in Nat /\ b \in Nat
      BY <3>1 DEF a, b
    <3>3. a <= b
      <4>1. {v \in Clique(m) : v < i} \in SUBSET {v \in Clique(m) : v < j}
        <5>1. i \in Nat /\ j \in Nat /\ i <= j /\ \A v \in Clique(m) : v \in Nat
          BY <1>2, <1>4, <1>6, <1>7
        <5>. QED  BY <5>1
      <4>2. IsFiniteSet({v \in Clique(m) : v < j})
        BY <1>6, FS_Subset
      <4>. QED  BY <4>1, <4>2, FS_Subset DEF a, b
    <3>4. CoordToIndex(a, b) \in Nat
      BY <3>2, <3>3, CoordRoundTrip
    <3>. QED  BY <3>4 DEF a, b
  <2>4. ParentRow(k, i, j) = BlockStart(m) + e
    BY <1>11
  <2>. HIDE DEF e, y
  <2>. QED  BY <2>1, <2>2, <2>3, <2>4 DEF Slot
<1>13. Spot(m, y) = Spot(k, x)
  BY <1>7, <1>8 DEF Spot
<1>. HIDE DEF y
<1>. QED  BY <1>3, <1>4, <1>8, <1>12, <1>13

\* The overlap columns.
LEMMA ColumnsAre ==
  ASSUME Stack
  PROVE  /\ \A c \in OverlapColumns(Blocks) :
              \E k \in 1..(tree.nCliques - 1) : \E x \in 1..Size(k) :
                /\ Tie(k, x) /\ c = [plus |-> Slot(k, x), minus |-> ParentRow(k, Spot(k, x)[1], Spot(k, x)[2])]
                /\ \E m \in (k + 1)..tree.nCliques : \E y \in 1..Size(m) :
                     c.minus = Slot(m, y) /\ Spot(m, y) = Spot(k, x)
         /\ \A k \in 1..tree.nCliques : \A x \in 1..Size(k) :
              Tie(k, x) => [plus |-> Slot(k, x), minus |-> ParentRow(k, Spot(k, x)[1], Spot(k, x)[2])] \in OverlapColumns(Blocks)
<1>. DEFINE B == Blocks
            N == tree.nCliques
            P(k, x) == ParentRow(k, Spot(k, x)[1], Spot(k, x)[2])
            C == OverlapColumns(Blocks)
<1>1. /\ DOMAIN B = 1..tree.nCliques
      /\ \A k \in 1..tree.nCliques :
           /\ B[k].first = BlockStart(k) /\ DOMAIN B[k].entries = 1..Size(k)
           /\ \A x \in 1..Size(k) : /\ B[k].entries[x].i = Spot(k, x)[1] /\ B[k].entries[x].j = Spot(k, x)[2]
                                    /\ B[k].entries[x].overlap = Tie(k, x)
  BY BlocksHold
<1>2. C = UNION {{[plus |-> B[k].first + x - 1, minus |-> ParentRow(k, B[k].entries[x].i, B[k].entries[x].j)] :
                     x \in {y \in DOMAIN B[k].entries : B[k].entries[y].overlap}} : k \in 1..(N - 1)}
  BY DEF OverlapColumns
<1>. HIDE DEF B, C
<1>3. N \in Nat
  BY DEF Stack, Framed
<1>4. ASSUME NEW c
      PROVE  c \in C <=> \E k \in 1..(N - 1) : \E x \in 1..Size(k) : Tie(k, x) /\ c = [plus |-> Slot(k, x), minus |-> P(k, x)]
  <2>1. c \in C <=> \E k \in 1..(N - 1) : \E x \in DOMAIN B[k].entries :
                      B[k].entries[x].overlap /\ c = [plus |-> B[k].first + x - 1, minus |-> ParentRow(k, B[k].entries[x].i, B[k].entries[x].j)]
    BY <1>2
  <2>2. \A k \in 1..(N - 1) : k \in 1..tree.nCliques
    BY <1>3
  <2>3. ASSUME NEW k \in 1..(N - 1)
        PROVE  (\E x \in DOMAIN B[k].entries :
                  B[k].entries[x].overlap /\ c = [plus |-> B[k].first + x - 1, minus |-> ParentRow(k, B[k].entries[x].i, B[k].entries[x].j)])
                <=> \E x \in 1..Size(k) : Tie(k, x) /\ c = [plus |-> Slot(k, x), minus |-> P(k, x)]
    <3>1. /\ B[k].first = BlockStart(k) /\ DOMAIN B[k].entries = 1..Size(k)
          /\ \A x \in 1..Size(k) : /\ B[k].entries[x].i = Spot(k, x)[1] /\ B[k].entries[x].j = Spot(k, x)[2]
                                   /\ B[k].entries[x].overlap = Tie(k, x)
      BY <1>1, <2>2
    <3>2. ASSUME NEW x \in 1..Size(k)
          PROVE  (B[k].entries[x].overlap /\ c = [plus |-> B[k].first + x - 1, minus |-> ParentRow(k, B[k].entries[x].i, B[k].entries[x].j)])
                   <=> (Tie(k, x) /\ c = [plus |-> Slot(k, x), minus |-> P(k, x)])
      <4>1. ParentRow(k, B[k].entries[x].i, B[k].entries[x].j) = P(k, x) /\ B[k].first + x - 1 = Slot(k, x)
        BY <3>1 DEF Slot
      <4>2. B[k].entries[x].overlap <=> Tie(k, x)
        BY <3>1
      <4>. QED  BY <4>1, <4>2
    <3>. QED  BY <3>1, <3>2
  <2>. QED  BY <2>1, <2>3
<1>5. ASSUME NEW c \in C
      PROVE  \E k \in 1..(N - 1) : \E x \in 1..Size(k) :
                /\ Tie(k, x) /\ c = [plus |-> Slot(k, x), minus |-> P(k, x)]
                /\ \E m \in (k + 1)..N : \E y \in 1..Size(m) : c.minus = Slot(m, y) /\ Spot(m, y) = Spot(k, x)
  <2>1. PICK k \in 1..(N - 1) : \E x \in 1..Size(k) : Tie(k, x) /\ c = [plus |-> Slot(k, x), minus |-> P(k, x)]
    BY <1>4
  <2>2. PICK x \in 1..Size(k) : Tie(k, x) /\ c = [plus |-> Slot(k, x), minus |-> P(k, x)]
    BY <2>1
  <2>3. k \in 1..tree.nCliques
    BY <1>3
  <2>4. \E m \in (k + 1)..N : \E y \in 1..Size(m) : P(k, x) = Slot(m, y) /\ Spot(m, y) = Spot(k, x)
    BY <2>2, <2>3, ParentRowIs
  <2>5. c.minus = P(k, x)
    BY <2>2
  <2>. HIDE DEF P
  <2>. QED  BY <2>2, <2>4, <2>5
<1>6. ASSUME NEW k \in 1..tree.nCliques, NEW x \in 1..Size(k), Tie(k, x)
      PROVE  [plus |-> Slot(k, x), minus |-> P(k, x)] \in C
  <2>1. k \in 1..(N - 1)
    BY <1>6, ParentRowIs
  <2>. QED  BY <1>4, <1>6, <2>1
<1>. QED  BY <1>5, <1>6 DEF C

-----------------------------------------------------------------------------
(* The place of an entry                                                    *)

\* An entry has one clique in which it is no overlap.
LEMMA OwnerSpot ==
  ASSUME Stack, NEW k \in 1..tree.nCliques, NEW m \in 1..tree.nCliques, NEW x \in 1..Size(k), NEW y \in 1..Size(m),
         Spot(k, x) = Spot(m, y), ~ Tie(k, x), ~ Tie(m, y)
  PROVE  k = m /\ x = y
<1>. DEFINE i == Spot(k, x)[1]
            j == Spot(k, x)[2]
<1>1. i \in Clique(k) /\ j \in Clique(k) /\ Spot(m, y)[1] = i /\ Spot(m, y)[2] = j
  BY SpotsAre
<1>2. Spot(m, y)[1] \in Clique(m) /\ Spot(m, y)[2] \in Clique(m)
  BY SpotsAre
<1>3. Clique(k) \in SUBSET Vertices
  BY StackParts
<1>4. ~ (i \in Sep(k) /\ j \in Sep(k)) /\ ~ (i \in Sep(m) /\ j \in Sep(m))
  BY <1>1 DEF Tie
<1>. HIDE DEF i, j
<1>5. Owns(k, i, j) /\ Owns(m, i, j) /\ i \in Vertices /\ j \in Vertices
  BY <1>1, <1>2, <1>3, <1>4 DEF Owns
<1>6. k = m
  BY <1>5 DEF Stack
<1>. QED  BY <1>6, SpotsAre

LEMMA PairHasSpot ==
  ASSUME Stack, NEW k \in 1..tree.nCliques, NEW i \in Clique(k), NEW j \in Clique(k), i <= j
  PROVE  /\ \E x \in 1..Size(k) : Spot(k, x) = <<i, j>>
         /\ \E m \in 1..tree.nCliques : \E y \in 1..Size(m) : Spot(m, y) = <<i, j>> /\ ~ Tie(m, y)
<1>1. ASSUME NEW q \in 1..tree.nCliques, i \in Clique(q), j \in Clique(q)
      PROVE  \E x \in 1..Size(q) : Spot(q, x) = <<i, j>>
  <2>1. Clique(q) \in SUBSET Nat /\ IsFiniteSet(Clique(q)) /\ Entries(Clique(q)) = 1..Size(q)
    BY StackParts
  <2>2. EntryPlace(Clique(q), i, j) \in Entries(Clique(q)) /\ PairAt(Clique(q), EntryPlace(Clique(q), i, j)) = <<i, j>>
    BY <1>1, <2>1, EntryIs
  <2>. QED  BY <2>1, <2>2 DEF Spot
<1>2. PICK m \in 1..tree.nCliques : Owns(m, i, j)
  BY DEF Stack
<1>3. i \in Clique(m) /\ j \in Clique(m) /\ ~ (i \in Sep(m) /\ j \in Sep(m))
  BY <1>2 DEF Owns
<1>4. PICK y \in 1..Size(m) : Spot(m, y) = <<i, j>>
  BY <1>1, <1>3
<1>5. ~ Tie(m, y)
  BY <1>3, <1>4 DEF Tie
<1>. QED  BY <1>1, <1>4, <1>5

\* The new row of an entry of the cone is its place in the clique that owns it.
LEMMA NewRowIs ==
  ASSUME Stack, NEW k \in 1..tree.nCliques, NEW x \in 1..Size(k), ~ Tie(k, x)
  PROVE  NewRow(RowOf(k, x), Blocks) = Slot(k, x)
<1>. DEFINE B == Blocks
            at == IndexToCoord(RowOf(k, x) - RowsBefore)
            In(m) == {y \in DOMAIN B[m].entries : ~ B[m].entries[y].overlap /\ <<B[m].entries[y].i, B[m].entries[y].j>> = at}
            ks == {m \in DOMAIN B : In(m) # {}}
<1>1. /\ DOMAIN B = 1..tree.nCliques
      /\ \A m \in 1..tree.nCliques :
           /\ B[m].first = BlockStart(m) /\ DOMAIN B[m].entries = 1..Size(m)
           /\ \A y \in 1..Size(m) : /\ B[m].entries[y].i = Spot(m, y)[1] /\ B[m].entries[y].j = Spot(m, y)[2]
                                    /\ B[m].entries[y].overlap = Tie(m, y)
  BY BlocksHold
<1>2. at = Spot(k, x) /\ RowOf(k, x) \in RowsBefore..(AfterCone - 1)
  BY SpotsAre
<1>3. RowsBefore \in Nat /\ AfterCone \in Int /\ tree.nCliques \in Nat
  <2>1. Order \in Nat /\ RowsBefore \in Nat /\ tree.nCliques \in Nat
    BY DEF Stack, Framed
  <2>. QED  BY <2>1, TriangularIs DEF AfterCone
<1>4. ~ (RowOf(k, x) < RowsBefore) /\ ~ (RowOf(k, x) >= AfterCone)
  BY <1>2, <1>3
<1>5. NewRow(RowOf(k, x), B) = IF ks = {} THEN Unmapped ELSE B[Least(ks)].first + (CHOOSE y \in In(Least(ks)) : TRUE) - 1
  <2>. HIDE DEF B
  <2>. QED  BY <1>4 DEF NewRow
<1>. HIDE DEF B, at
<1>6. ASSUME NEW m \in 1..tree.nCliques, NEW y \in In(m) PROVE m = k /\ y = x
  <2>1. y \in 1..Size(m) /\ ~ Tie(m, y) /\ <<Spot(m, y)[1], Spot(m, y)[2]>> = at
    BY <1>1
  <2>2. Spot(m, y) = <<Spot(m, y)[1], Spot(m, y)[2]>>
    BY <2>1, SpotsAre
  <2>3. Spot(k, x) = Spot(m, y)
    BY <1>2, <2>1, <2>2
  <2>. QED  BY <2>1, <2>3, OwnerSpot
<1>7. x \in In(k)
  <2>1. Spot(k, x) = <<Spot(k, x)[1], Spot(k, x)[2]>>
    BY SpotsAre
  <2>. QED  BY <1>1, <1>2, <2>1
<1>8. In(k) = {x}
  BY <1>6, <1>7
<1>9. ks = {k}
  BY <1>1, <1>6, <1>7
<1>. HIDE DEF ks, In
<1>10. Least({k}) = k
  <2>1. {k} \in SUBSET Nat /\ {k} # {}
    BY <1>3
  <2>. QED  BY <2>1, LeastIs
<1>11. NewRow(RowOf(k, x), B) = B[k].first + (CHOOSE y \in {x} : TRUE) - 1
  BY <1>5, <1>8, <1>9, <1>10
<1>12. (CHOOSE y \in {x} : TRUE) = x
  OBVIOUS
<1>. QED  BY <1>1, <1>11, <1>12 DEF B, Slot

\* The rows that keep a place: those of the other cones, and those of the cone
\* that lie within a clique.
Carries(o) ==
  \/ o \in 0..(RowsBefore - 1)
  \/ o \in AfterCone..(AfterCone + RowsAfter - 1)
  \/ \E k \in 1..tree.nCliques : \E x \in 1..Size(k) : o = RowOf(k, x)
AugmentedRows == 0..(BlockStart(0) + RowsAfter - 1)
Tied(r) == \E c \in OverlapColumns(Blocks) : c.plus = r

RowsFit ==
  /\ AugmentedRows \in SUBSET Nat /\ IsFiniteSet(AugmentedRows) /\ DOMAIN ReverseMap = AugmentedRows
  /\ \A r \in AugmentedRows : /\ ReverseMap[r] \in Nat
                              /\ BRowMap(Blocks)[r] = IF Tied(r) THEN Unmapped ELSE ReverseMap[r]
  /\ \A c \in OverlapColumns(Blocks) : /\ c.plus \in AugmentedRows /\ c.minus \in AugmentedRows
                                       /\ ReverseMap[c.plus] = ReverseMap[c.minus] /\ c.minus < c.plus
  /\ \A c, d \in OverlapColumns(Blocks) : c.plus = d.plus => c = d
  /\ \A r, q \in AugmentedRows : ReverseMap[r] = ReverseMap[q] /\ ~ Tied(r) /\ ~ Tied(q) => r = q
  /\ \A o : Carries(o) =>
       /\ o \in Nat /\ NewRow(o, Blocks) \in AugmentedRows /\ ~ Tied(NewRow(o, Blocks))
       /\ ReverseMap[NewRow(o, Blocks)] = o

LEMMA FrameSizes ==
  ASSUME Framed
  PROVE  /\ tree.nCliques \in Nat /\ RowsBefore \in Nat /\ RowsAfter \in Nat /\ AfterCone \in Nat
         /\ RowsBefore <= AfterCone /\ BlockStart(0) \in Nat /\ RowsBefore <= BlockStart(0)
<1>1. Order \in Nat /\ tree.nCliques \in Nat /\ RowsBefore \in Nat /\ RowsAfter \in Nat
  BY DEF Framed
<1>2. AfterCone \in Nat /\ RowsBefore <= AfterCone
  <2>1. TriangularNumber(Order) \in Nat
    BY <1>1, TriangularIs
  <2>. QED  BY <1>1, <2>1 DEF AfterCone
<1>3. 0 \in 0..tree.nCliques /\ tree.nCliques \in 0..tree.nCliques /\ 0 <= tree.nCliques
  BY <1>1
<1>4. BlockStart(0) \in Nat /\ BlockStart(tree.nCliques) = RowsBefore /\ BlockStart(tree.nCliques) <= BlockStart(0)
  BY <1>3, BlockStartIs, BlocksApart
<1>. QED  BY <1>1, <1>2, <1>4

\* A row is tied to another one when it is the place of a repeated entry.
LEMMA TiedIs ==
  ASSUME Stack
  PROVE  /\ \A r : Tied(r) => \E k \in 1..tree.nCliques : \E x \in 1..Size(k) : r = Slot(k, x) /\ Tie(k, x)
         /\ \A k \in 1..tree.nCliques : \A x \in 1..Size(k) : Tied(Slot(k, x)) <=> Tie(k, x)
         /\ \A r \in 0..(RowsBefore - 1) : ~ Tied(r)
         /\ \A y \in 0..(RowsAfter - 1) : ~ Tied(BlockStart(0) + y)
<1>0. Framed
  BY DEF Stack
<1>1. tree.nCliques \in Nat /\ RowsBefore \in Nat /\ RowsAfter \in Nat /\ BlockStart(0) \in Nat
  BY <1>0, FrameSizes
<1>2. ASSUME NEW r, Tied(r)
      PROVE  \E k \in 1..tree.nCliques : \E x \in 1..Size(k) : r = Slot(k, x) /\ Tie(k, x)
  <2>1. PICK c \in OverlapColumns(Blocks) : c.plus = r
    BY <1>2 DEF Tied
  <2>2. PICK k \in 1..(tree.nCliques - 1) : \E x \in 1..Size(k) :
          Tie(k, x) /\ c = [plus |-> Slot(k, x), minus |-> ParentRow(k, Spot(k, x)[1], Spot(k, x)[2])]
    BY ColumnsAre
  <2>3. PICK x \in 1..Size(k) :
          Tie(k, x) /\ c = [plus |-> Slot(k, x), minus |-> ParentRow(k, Spot(k, x)[1], Spot(k, x)[2])]
    BY <2>2
  <2>4. k \in 1..tree.nCliques /\ r = Slot(k, x)
    BY <1>1, <2>1, <2>3
  <2>. QED  BY <2>3, <2>4
<1>3. ASSUME NEW k \in 1..tree.nCliques, NEW x \in 1..Size(k) PROVE Tied(Slot(k, x)) <=> Tie(k, x)
  <2>1. ASSUME Tied(Slot(k, x)) PROVE Tie(k, x)
    <3>1. PICK m \in 1..tree.nCliques : \E y \in 1..Size(m) : Slot(k, x) = Slot(m, y) /\ Tie(m, y)
      BY <1>2, <2>1
    <3>2. PICK y \in 1..Size(m) : Slot(k, x) = Slot(m, y) /\ Tie(m, y)
      BY <3>1
    <3>3. k = m /\ x = y
      BY <1>0, <3>2, SlotsAre
    <3>. QED  BY <3>2, <3>3
  <2>2. ASSUME Tie(k, x) PROVE Tied(Slot(k, x))
    <3>. DEFINE c == [plus |-> Slot(k, x), minus |-> ParentRow(k, Spot(k, x)[1], Spot(k, x)[2])]
    <3>1. c \in OverlapColumns(Blocks) /\ c.plus = Slot(k, x)
      BY <2>2, ColumnsAre
    <3>. QED  BY <3>1 DEF Tied
  <2>. QED  BY <2>1, <2>2
<1>4. ASSUME NEW r, Tied(r) PROVE r \in Nat /\ RowsBefore <= r /\ r < BlockStart(0)
  <2>1. PICK k \in 1..tree.nCliques : \E x \in 1..Size(k) : r = Slot(k, x)
    BY <1>2, <1>4
  <2>2. PICK x \in 1..Size(k) : r = Slot(k, x)
    BY <2>1
  <2>. QED  BY <1>0, <2>2, SlotsAre
<1>5. \A r \in 0..(RowsBefore - 1) : ~ Tied(r)
  BY <1>1, <1>4
<1>6. \A y \in 0..(RowsAfter - 1) : ~ Tied(BlockStart(0) + y)
  BY <1>1, <1>4
<1>. QED  BY <1>2, <1>3, <1>5, <1>6

LEMMA RowsFitIs ==
  ASSUME Stack
  PROVE  RowsFit
<1>0. Framed
  BY DEF Stack
<1>1. /\ tree.nCliques \in Nat /\ RowsBefore \in Nat /\ RowsAfter \in Nat /\ AfterCone \in Nat
      /\ RowsBefore <= AfterCone /\ BlockStart(0) \in Nat /\ RowsBefore <= BlockStart(0)
  BY <1>0, FrameSizes
<1>2. /\ DOMAIN ReverseMap = AugmentedRows
      /\ \A r \in 0..(RowsBefore - 1) : ReverseMap[r] = r
      /\ \A k \in 1..tree.nCliques : \A x \in 1..Size(k) : ReverseMap[Slot(k, x)] = RowOf(k, x)
      /\ \A y \in 0..(RowsAfter - 1) : ReverseMap[BlockStart(0) + y] = AfterCone + y
  BY ReverseIs DEF AugmentedRows
<1>3. /\ \A r \in 0..(RowsBefore - 1) : BRowMap(Blocks)[r] = r
      /\ \A k \in 1..tree.nCliques : \A x \in 1..Size(k) :
           BRowMap(Blocks)[Slot(k, x)] = IF Tie(k, x) THEN Unmapped ELSE RowOf(k, x)
      /\ \A y \in 0..(RowsAfter - 1) : BRowMap(Blocks)[BlockStart(0) + y] = AfterCone + y
  BY BRowMapIs
<1>4. /\ \A k \in 1..tree.nCliques : \A x \in 1..Size(k) : Tied(Slot(k, x)) <=> Tie(k, x)
      /\ \A r \in 0..(RowsBefore - 1) : ~ Tied(r)
      /\ \A y \in 0..(RowsAfter - 1) : ~ Tied(BlockStart(0) + y)
  BY TiedIs
<1>5. AugmentedRows \in SUBSET Nat /\ IsFiniteSet(AugmentedRows)
  <2>. DEFINE b == BlockStart(0) + RowsAfter - 1
  <2>1. b \in Int
    BY <1>1
  <2>. HIDE DEF b
  <2>2. IsFiniteSet(0..b) /\ 0..b \in SUBSET Nat
    BY <2>1, FS_Interval
  <2>. QED  BY <2>2 DEF AugmentedRows, b
\* The kinds of rows.
<1>. DEFINE First(r) == r \in 0..(RowsBefore - 1) /\ ReverseMap[r] = r
            Mid(r) == \E k \in 1..tree.nCliques : \E x \in 1..Size(k) : r = Slot(k, x) /\ ReverseMap[r] = RowOf(k, x)
            Last(r) == \E y \in 0..(RowsAfter - 1) : r = BlockStart(0) + y /\ ReverseMap[r] = AfterCone + y
<1>6. \A r \in AugmentedRows : First(r) \/ Mid(r) \/ Last(r)
  <2>. TAKE r \in AugmentedRows
  <2>1. \/ r \in 0..(RowsBefore - 1)
        \/ \E k \in 1..tree.nCliques : \E x \in 1..Size(k) : r = Slot(k, x)
        \/ \E y \in 0..(RowsAfter - 1) : r = BlockStart(0) + y
    BY <1>0, RowKinds DEF AugmentedRows
  <2>. QED  BY <1>2, <2>1
<1>7. \A k \in 1..tree.nCliques : \A x \in 1..Size(k) :
        RowOf(k, x) \in Nat /\ RowsBefore <= RowOf(k, x) /\ RowOf(k, x) < AfterCone /\ Slot(k, x) \in AugmentedRows
  <2>. TAKE k \in 1..tree.nCliques
  <2>. TAKE x \in 1..Size(k)
  <2>1. RowOf(k, x) \in RowsBefore..(AfterCone - 1)
    BY SpotsAre
  <2>2. Slot(k, x) \in Nat /\ Slot(k, x) < BlockStart(0)
    BY <1>0, SlotsAre
  <2>. QED  BY <1>1, <2>1, <2>2 DEF AugmentedRows
<1>8. ASSUME NEW r \in AugmentedRows
      PROVE  /\ ReverseMap[r] \in Nat /\ BRowMap(Blocks)[r] = IF Tied(r) THEN Unmapped ELSE ReverseMap[r]
             /\ First(r) => ReverseMap[r] < RowsBefore
             /\ Mid(r) => RowsBefore <= ReverseMap[r] /\ ReverseMap[r] < AfterCone
             /\ Last(r) => AfterCone <= ReverseMap[r]
  <2>1. CASE First(r)
    <3>1. ReverseMap[r] = r /\ BRowMap(Blocks)[r] = r /\ ~ Tied(r) /\ r \in Nat
      BY <1>3, <1>4, <2>1
    <3>2. ReverseMap[r] < RowsBefore
      BY <1>1, <2>1
    <3>3. ~ Mid(r) /\ ~ Last(r)
      <4>. HIDE DEF Tied
      <4>. QED  BY <1>1, <1>7, <3>2
    <3>. HIDE DEF First, Mid, Last
    <3>. QED  BY <3>1, <3>2, <3>3
  <2>2. CASE Mid(r)
    BY <1>1, <1>3, <1>4, <1>7, <2>2
  <2>3. CASE Last(r)
    <3>1. PICK y \in 0..(RowsAfter - 1) : r = BlockStart(0) + y /\ ReverseMap[r] = AfterCone + y
      BY <2>3
    <3>2. BRowMap(Blocks)[r] = AfterCone + y /\ ~ Tied(r) /\ AfterCone + y \in Nat /\ AfterCone <= AfterCone + y
      BY <1>1, <1>3, <1>4, <3>1
    <3>3. ~ First(r) /\ ~ Mid(r)
      BY <1>1, <1>7, <3>1, <3>2
    <3>. HIDE DEF First, Mid, Last
    <3>. QED  BY <3>1, <3>2, <3>3
  <2>4. First(r) => ReverseMap[r] < RowsBefore
    BY <1>1
  <2>5. Mid(r) => RowsBefore <= ReverseMap[r] /\ ReverseMap[r] < AfterCone
    BY <1>7
  <2>6. Last(r) => AfterCone <= ReverseMap[r]
    BY <1>1
  <2>. QED  BY <1>6, <2>1, <2>2, <2>3, <2>4, <2>5, <2>6
<1>9. ASSUME NEW c \in OverlapColumns(Blocks)
      PROVE  /\ c.plus \in AugmentedRows /\ c.minus \in AugmentedRows
             /\ ReverseMap[c.plus] = ReverseMap[c.minus] /\ c.minus < c.plus
  <2>1. PICK k \in 1..(tree.nCliques - 1) : \E x \in 1..Size(k) :
          /\ c = [plus |-> Slot(k, x), minus |-> ParentRow(k, Spot(k, x)[1], Spot(k, x)[2])]
          /\ \E m \in (k + 1)..tree.nCliques : \E y \in 1..Size(m) : c.minus = Slot(m, y) /\ Spot(m, y) = Spot(k, x)
    BY ColumnsAre
  <2>2. PICK x \in 1..Size(k) :
          /\ c = [plus |-> Slot(k, x), minus |-> ParentRow(k, Spot(k, x)[1], Spot(k, x)[2])]
          /\ \E m \in (k + 1)..tree.nCliques : \E y \in 1..Size(m) : c.minus = Slot(m, y) /\ Spot(m, y) = Spot(k, x)
    BY <2>1
  <2>3. PICK m \in (k + 1)..tree.nCliques : \E y \in 1..Size(m) : c.minus = Slot(m, y) /\ Spot(m, y) = Spot(k, x)
    BY <2>2
  <2>4. PICK y \in 1..Size(m) : c.minus = Slot(m, y) /\ Spot(m, y) = Spot(k, x)
    BY <2>3
  <2>5. k \in 1..tree.nCliques /\ m \in 1..tree.nCliques /\ k < m
    BY <1>1
  <2>6. c.plus = Slot(k, x)
    BY <2>2
  <2>7. RowOf(k, x) = RowOf(m, y)
    BY <2>4, <2>5, RowsTell
  <2>8. Slot(m, y) < Slot(k, x)
    BY <1>0, <2>5, SlotsAre
  <2>. QED  BY <1>2, <1>7, <2>4, <2>5, <2>6, <2>7, <2>8
<1>10. ASSUME NEW c \in OverlapColumns(Blocks), NEW d \in OverlapColumns(Blocks), c.plus = d.plus PROVE c = d
  <2>1. PICK k \in 1..(tree.nCliques - 1) : \E x \in 1..Size(k) :
          c = [plus |-> Slot(k, x), minus |-> ParentRow(k, Spot(k, x)[1], Spot(k, x)[2])]
    BY ColumnsAre
  <2>2. PICK x \in 1..Size(k) : c = [plus |-> Slot(k, x), minus |-> ParentRow(k, Spot(k, x)[1], Spot(k, x)[2])]
    BY <2>1
  <2>3. PICK m \in 1..(tree.nCliques - 1) : \E y \in 1..Size(m) :
          d = [plus |-> Slot(m, y), minus |-> ParentRow(m, Spot(m, y)[1], Spot(m, y)[2])]
    BY ColumnsAre
  <2>4. PICK y \in 1..Size(m) : d = [plus |-> Slot(m, y), minus |-> ParentRow(m, Spot(m, y)[1], Spot(m, y)[2])]
    BY <2>3
  <2>5. Slot(k, x) = Slot(m, y) /\ k \in 1..tree.nCliques /\ m \in 1..tree.nCliques
    BY <1>1, <1>10, <2>2, <2>4
  <2>6. k = m /\ x = y
    BY <1>0, <2>5, SlotsAre
  <2>. QED  BY <2>2, <2>4, <2>6
<1>. DEFINE R(r) == ReverseMap[r]
<1>13. \A r \in AugmentedRows : /\ R(r) \in Nat /\ (First(r) => R(r) < RowsBefore)
                                 /\ (Mid(r) => RowsBefore <= R(r) /\ R(r) < AfterCone) /\ (Last(r) => AfterCone <= R(r))
  BY <1>8
<1>11. ASSUME NEW r \in AugmentedRows, NEW q \in AugmentedRows, ReverseMap[r] = ReverseMap[q], ~ Tied(r), ~ Tied(q)
       PROVE  r = q
  <2>1. CASE First(r)
    <3>1. ~ Mid(q) /\ ~ Last(q)
      <4>1. R(r) = R(q)
        BY <1>11
      <4>. HIDE DEF First, Mid, Last, R
      <4>. QED  BY <1>1, <1>13, <4>1, <2>1
    <3>2. First(q)
      BY <1>6, <3>1
    <3>. QED  BY <1>11, <2>1, <3>2
  <2>2. CASE Last(r)
    <3>1. ~ Mid(q) /\ ~ First(q)
      <4>1. R(r) = R(q)
        BY <1>11
      <4>. HIDE DEF First, Mid, Last, R
      <4>. QED  BY <1>1, <1>13, <4>1, <2>2
    <3>2. Last(q)
      BY <1>6, <3>1
    <3>3. PICK y \in 0..(RowsAfter - 1) : r = BlockStart(0) + y /\ ReverseMap[r] = AfterCone + y
      BY <2>2
    <3>4. PICK z \in 0..(RowsAfter - 1) : q = BlockStart(0) + z /\ ReverseMap[q] = AfterCone + z
      BY <3>2
    <3>5. y = z
      BY <1>1, <1>11, <3>3, <3>4
    <3>. QED  BY <3>3, <3>4, <3>5
  <2>3. CASE Mid(r)
    <3>1. ~ First(q) /\ ~ Last(q)
      <4>1. R(r) = R(q)
        BY <1>11
      <4>. HIDE DEF First, Mid, Last, R
      <4>. QED  BY <1>1, <1>13, <4>1, <2>3
    <3>2. Mid(q)
      BY <1>6, <3>1
    <3>3. PICK k \in 1..tree.nCliques : \E x \in 1..Size(k) : r = Slot(k, x) /\ ReverseMap[r] = RowOf(k, x)
      BY <2>3
    <3>4. PICK x \in 1..Size(k) : r = Slot(k, x) /\ ReverseMap[r] = RowOf(k, x)
      BY <3>3
    <3>5. PICK m \in 1..tree.nCliques : \E y \in 1..Size(m) : q = Slot(m, y) /\ ReverseMap[q] = RowOf(m, y)
      BY <3>2
    <3>6. PICK y \in 1..Size(m) : q = Slot(m, y) /\ ReverseMap[q] = RowOf(m, y)
      BY <3>5
    <3>7. Spot(k, x) = Spot(m, y)
      <4>1. RowOf(k, x) = RowOf(m, y)
        BY <1>11, <3>4, <3>6
      <4>. QED  BY <4>1, RowsTell
    <3>8. ~ Tie(k, x) /\ ~ Tie(m, y)
      BY <1>4, <1>11, <3>4, <3>6
    <3>9. k = m /\ x = y
      BY <3>7, <3>8, OwnerSpot
    <3>. QED  BY <3>4, <3>6, <3>9
  <2>. QED  BY <1>6, <2>1, <2>2, <2>3
<1>12. ASSUME NEW o, Carries(o)
       PROVE  /\ o \in Nat /\ NewRow(o, Blocks) \in AugmentedRows /\ ~ Tied(NewRow(o, Blocks))
              /\ ReverseMap[NewRow(o, Blocks)] = o
  <2>. DEFINE B == Blocks
  <2>1. CASE o \in 0..(RowsBefore - 1)
    <3>1. o \in Nat /\ o < RowsBefore
      BY <1>1, <2>1
    <3>2. NewRow(o, B) = o
      <4>. HIDE DEF B
      <4>. QED  BY <3>1 DEF NewRow
    <3>3. o \in AugmentedRows
      BY <1>1, <3>1 DEF AugmentedRows
    <3>. QED  BY <1>2, <1>4, <2>1, <3>1, <3>2, <3>3
  <2>2. CASE o \in AfterCone..(AfterCone + RowsAfter - 1)
    <3>1. o \in Nat /\ ~ (o < RowsBefore) /\ o >= AfterCone
      BY <1>1, <2>2
    <3>2. NewRow(o, B) = o - AfterCone + BlockStart(0)
      <4>. HIDE DEF B
      <4>. QED  BY <3>1 DEF NewRow
    <3>. DEFINE y == o - AfterCone
    <3>3. y \in 0..(RowsAfter - 1) /\ BlockStart(0) + y = NewRow(o, B) /\ AfterCone + y = o /\ BlockStart(0) + y \in AugmentedRows
      BY <1>1, <2>2, <3>2 DEF AugmentedRows
    <3>. HIDE DEF y
    <3>. QED  BY <1>2, <1>4, <3>1, <3>3
  <2>3. CASE \E k \in 1..tree.nCliques : \E x \in 1..Size(k) : o = RowOf(k, x)
    <3>1. PICK k \in 1..tree.nCliques : \E x \in 1..Size(k) : o = RowOf(k, x)
      BY <2>3
    <3>2. PICK x \in 1..Size(k) : o = RowOf(k, x)
      BY <3>1
    <3>. DEFINE i == Spot(k, x)[1]
                j == Spot(k, x)[2]
    <3>3. i \in Clique(k) /\ j \in Clique(k) /\ i <= j /\ Spot(k, x) = <<i, j>>
      BY SpotsAre
    <3>. HIDE DEF i, j
    <3>4. PICK m \in 1..tree.nCliques : \E y \in 1..Size(m) : Spot(m, y) = <<i, j>> /\ ~ Tie(m, y)
      BY <3>3, PairHasSpot
    <3>5. PICK y \in 1..Size(m) : Spot(m, y) = <<i, j>> /\ ~ Tie(m, y)
      BY <3>4
    <3>6. RowOf(m, y) = o
      <4>1. Spot(k, x) = Spot(m, y)
        BY <3>3, <3>5
      <4>. QED  BY <3>2, <4>1, RowsTell
    <3>7. NewRow(o, Blocks) = Slot(m, y)
      BY <3>5, <3>6, NewRowIs
    <3>. QED  BY <1>2, <1>4, <1>7, <3>5, <3>6, <3>7
  <2>. QED  BY <1>12, <2>1, <2>2, <2>3 DEF Carries
<1>. HIDE DEF First, Mid, Last
<1>. QED  BY <1>2, <1>5, <1>8, <1>9, <1>10, <1>11, <1>12 DEF RowsFit

-----------------------------------------------------------------------------
(* Copies of an entry                                                       *)

\* The augmented problem is made of the problem, whose rows all keep a place.
Made ==
  /\ augmented = Augmentation(problem.A, problem.b, Blocks)
  /\ (\A e \in problem.A : Carries(e.row)) /\ \A o \in problem.b : Carries(o)

LEMMA MadeIs ==
  ASSUME Made
  PROVE  /\ augmented.overlaps = OverlapColumns(Blocks) /\ augmented.bRowMap = BRowMap(Blocks)
         /\ augmented.reverse = ReverseMap
         /\ \A e \in augmented.A : e.of \in problem.A /\ e.row = NewRow(e.of.row, Blocks)
         /\ DOMAIN augmented.b = {NewRow(o, Blocks) : o \in problem.b}
         /\ \A r \in DOMAIN augmented.b : augmented.b[r] \in problem.b /\ NewRow(augmented.b[r], Blocks) = r
<1>. DEFINE B == Blocks
            A == problem.A
            b == problem.b
            new == [r \in {e.row : e \in A} \cup b |-> NewRow(r, B)]
<1>1. augmented = [A |-> {[row |-> new[e.row], of |-> e] : e \in A},
                   b |-> [r \in {new[x] : x \in b} |-> CHOOSE x \in b : new[x] = r],
                   overlaps |-> OverlapColumns(B), bRowMap |-> BRowMap(B), reverse |-> ReverseMap]
  <2>. HIDE DEF B, A, b
  <2>1. augmented = Augmentation(A, b, B)
    BY DEF Made, A, b, B
  <2>. QED  BY <2>1 DEF Augmentation
<1>2. (\A e \in A : new[e.row] = NewRow(e.row, B)) /\ \A o \in b : new[o] = NewRow(o, B)
  <2>. HIDE DEF B, A, b
  <2>. QED  OBVIOUS
<1>. HIDE DEF new, A, b, B
<1>3. /\ augmented.overlaps = OverlapColumns(B) /\ augmented.bRowMap = BRowMap(B) /\ augmented.reverse = ReverseMap
      /\ augmented.A = {[row |-> new[e.row], of |-> e] : e \in A}
      /\ augmented.b = [r \in {new[x] : x \in b} |-> CHOOSE x \in b : new[x] = r]
  BY <1>1
<1>4. \A e \in augmented.A : e.of \in A /\ e.row = NewRow(e.of.row, B)
  BY <1>2, <1>3
<1>5. DOMAIN augmented.b = {NewRow(o, B) : o \in b}
  <2>1. {new[x] : x \in b} = {NewRow(o, B) : o \in b}
    BY <1>2
  <2>. QED  BY <1>3, <2>1
<1>6. ASSUME NEW r \in DOMAIN augmented.b PROVE augmented.b[r] \in b /\ NewRow(augmented.b[r], B) = r
  <2>1. augmented.b[r] = CHOOSE x \in b : new[x] = r
    BY <1>3
  <2>2. \E x \in b : new[x] = r
    BY <1>3
  <2>3. augmented.b[r] \in b /\ new[augmented.b[r]] = r
    BY <2>1, <2>2
  <2>. QED  BY <1>2, <2>3
<1>. QED  BY <1>3, <1>4, <1>5, <1>6 DEF A, b, B

\* The only copy of a row that is no overlap is its new row.
LEMMA EntryOfRow ==
  ASSUME RowsFit, Made, NEW o, Carries(o)
  PROVE  Entry(o) = {NewRow(o, Blocks)}
<1>1. augmented.overlaps = OverlapColumns(Blocks) /\ augmented.reverse = ReverseMap
  BY MadeIs
<1>2. /\ DOMAIN ReverseMap = AugmentedRows
      /\ NewRow(o, Blocks) \in AugmentedRows /\ ~ Tied(NewRow(o, Blocks)) /\ ReverseMap[NewRow(o, Blocks)] = o
      /\ \A r, q \in AugmentedRows : ReverseMap[r] = ReverseMap[q] /\ ~ Tied(r) /\ ~ Tied(q) => r = q
  BY DEF RowsFit
<1>3. \A r : r \in Entry(o) <=> r \in AugmentedRows /\ ReverseMap[r] = o /\ ~ Tied(r)
  <2>1. Copies(o) = {r \in AugmentedRows : ReverseMap[r] = o}
    BY <1>1, <1>2 DEF Copies
  <2>2. \A r : (\A c \in augmented.overlaps : c.plus # r) <=> ~ Tied(r)
    BY <1>1 DEF Tied
  <2>. QED  BY <2>1, <2>2 DEF Entry
<1>. DEFINE n == NewRow(o, Blocks)
<1>. HIDE DEF n
<1>4. n \in AugmentedRows /\ ~ Tied(n) /\ ReverseMap[n] = o
  BY <1>2 DEF n
<1>5. Entry(o) = {n}
  BY <1>2, <1>3, <1>4
<1>. QED  BY <1>5 DEF n

\* The first parts of CopiesAgree: rows and overlap columns.
RowsAgree ==
  /\ \A e \in augmented.A : e.row # Unmapped /\ augmented.reverse[e.row] = e.of.row
                             /\ {e.row} = Entry(e.of.row)
  /\ \A r \in DOMAIN augmented.b : r # Unmapped /\ {r} = Entry(augmented.b[r])
  /\ \A c \in augmented.overlaps :
       augmented.reverse[c.plus] = augmented.reverse[c.minus] /\ c.minus < c.plus
  /\ \A o \in problem.b \cup {e.row : e \in problem.A} :
       \A r \in Copies(o) \ Entry(o) :
         Cardinality({c \in augmented.overlaps : c.plus = r}) = 1

LEMMA RowsDoAgree ==
  ASSUME RowsFit, Made
  PROVE  RowsAgree
<1>1. /\ augmented.overlaps = OverlapColumns(Blocks) /\ augmented.reverse = ReverseMap
      /\ \A e \in augmented.A : e.of \in problem.A /\ e.row = NewRow(e.of.row, Blocks)
      /\ \A r \in DOMAIN augmented.b : augmented.b[r] \in problem.b /\ NewRow(augmented.b[r], Blocks) = r
  BY MadeIs
<1>2. ASSUME NEW o, Carries(o)
      PROVE  /\ NewRow(o, Blocks) # Unmapped /\ ReverseMap[NewRow(o, Blocks)] = o /\ {NewRow(o, Blocks)} = Entry(o)
  <2>1. NewRow(o, Blocks) \in Nat /\ ReverseMap[NewRow(o, Blocks)] = o
    BY <1>2 DEF RowsFit
  <2>2. Entry(o) = {NewRow(o, Blocks)}
    BY <1>2, EntryOfRow
  <2>. QED  BY <2>1, <2>2 DEF Unmapped
<1>3. (\A e \in problem.A : Carries(e.row)) /\ \A o \in problem.b : Carries(o)
  BY DEF Made
<1>4. ASSUME NEW e \in augmented.A
      PROVE  e.row # Unmapped /\ augmented.reverse[e.row] = e.of.row /\ {e.row} = Entry(e.of.row)
  BY <1>1, <1>2, <1>3
<1>5. ASSUME NEW r \in DOMAIN augmented.b PROVE r # Unmapped /\ {r} = Entry(augmented.b[r])
  BY <1>1, <1>2, <1>3
<1>6. \A c \in augmented.overlaps : augmented.reverse[c.plus] = augmented.reverse[c.minus] /\ c.minus < c.plus
  BY <1>1 DEF RowsFit
<1>7. ASSUME NEW o, NEW r \in Copies(o) \ Entry(o)
      PROVE  Cardinality({c \in augmented.overlaps : c.plus = r}) = 1
  <2>1. PICK c \in augmented.overlaps : c.plus = r
    BY DEF Entry
  <2>2. \A d \in augmented.overlaps : d.plus = r => d = c
    BY <1>1, <2>1 DEF RowsFit
  <2>3. {d \in augmented.overlaps : d.plus = r} = {c}
    BY <2>1, <2>2
  <2>. QED  BY <2>3, FS_Singleton
<1>. QED  BY <1>4, <1>5, <1>6, <1>7 DEF RowsAgree

LEMMA BatchHolds ==
  ASSUME RowsFit, Made
  PROVE  BatchMatchesDirect
<1>. DEFINE new(o) == NewRow(o, Blocks)
            bmap == BRowMap(Blocks)
<1>1. /\ augmented.bRowMap = bmap /\ augmented.reverse = ReverseMap
      /\ \A e \in augmented.A : e.of \in problem.A /\ e.row = new(e.of.row)
      /\ DOMAIN augmented.b = {new(o) : o \in problem.b}
      /\ \A r \in DOMAIN augmented.b : augmented.b[r] \in problem.b /\ new(augmented.b[r]) = r
  BY MadeIs
<1>2. /\ DOMAIN ReverseMap = AugmentedRows /\ AugmentedRows \in SUBSET Nat
      /\ \A r \in AugmentedRows : ReverseMap[r] \in Nat /\ bmap[r] = IF Tied(r) THEN Unmapped ELSE ReverseMap[r]
      /\ \A r, q \in AugmentedRows : ReverseMap[r] = ReverseMap[q] /\ ~ Tied(r) /\ ~ Tied(q) => r = q
      /\ \A o : Carries(o) => o \in Nat /\ new(o) \in AugmentedRows /\ ~ Tied(new(o)) /\ ReverseMap[new(o)] = o
  BY DEF RowsFit
<1>3. (\A e \in problem.A : Carries(e.row)) /\ \A o \in problem.b : Carries(o)
  BY DEF Made
<1>. HIDE DEF new, bmap
<1>4. ASSUME NEW o, Carries(o), NEW r \in AugmentedRows PROVE bmap[r] = o <=> r = new(o)
  <2>1. o \in Nat /\ new(o) \in AugmentedRows /\ ~ Tied(new(o)) /\ ReverseMap[new(o)] = o
    BY <1>2, <1>4
  <2>2. bmap[new(o)] = o
    BY <1>2, <2>1
  <2>3. ASSUME bmap[r] = o PROVE r = new(o)
    <3>1. ~ Tied(r) /\ ReverseMap[r] = o
      BY <1>2, <2>1, <2>3 DEF Unmapped
    <3>. QED  BY <1>2, <2>1, <3>1
  <2>. QED  BY <2>2, <2>3
<1>5. ScatteredB(problem.b) = {[row |-> r, of |-> augmented.b[r]] : r \in DOMAIN augmented.b}
  <2>1. ASSUME NEW r PROVE (r \in DOMAIN augmented.reverse /\ augmented.bRowMap[r] \in problem.b) <=> r \in DOMAIN augmented.b
    <3>1. ASSUME r \in DOMAIN augmented.reverse, augmented.bRowMap[r] \in problem.b PROVE r \in DOMAIN augmented.b
      <4>1. PICK o \in problem.b : bmap[r] = o
        BY <1>1, <3>1
      <4>2. r = new(o)
        BY <1>1, <1>2, <1>3, <1>4, <3>1, <4>1
      <4>. QED  BY <1>1, <4>2
    <3>2. ASSUME r \in DOMAIN augmented.b PROVE r \in DOMAIN augmented.reverse /\ augmented.bRowMap[r] \in problem.b
      <4>1. PICK o \in problem.b : r = new(o)
        BY <1>1, <3>2
      <4>2. r \in AugmentedRows
        BY <1>2, <1>3, <4>1
      <4>3. bmap[r] = o
        BY <1>3, <1>4, <4>1, <4>2
      <4>. QED  BY <1>1, <1>2, <4>2, <4>3
    <3>. QED  BY <3>1, <3>2
  <2>2. ASSUME NEW r \in DOMAIN augmented.b PROVE augmented.bRowMap[r] = augmented.b[r]
    <3>. DEFINE o == augmented.b[r]
    <3>1. o \in problem.b /\ r = new(o)
      BY <1>1
    <3>. HIDE DEF o
    <3>2. r \in AugmentedRows
      BY <1>2, <1>3, <3>1
    <3>3. bmap[r] = o
      BY <1>3, <1>4, <3>1, <3>2
    <3>. QED  BY <1>1, <3>3 DEF o
  <2>. DEFINE X == {x \in DOMAIN augmented.reverse : augmented.bRowMap[x] \in problem.b}
  <2>3. X = DOMAIN augmented.b
    BY <2>1
  <2>4. ScatteredB(problem.b) = {[row |-> r, of |-> augmented.bRowMap[r]] : r \in X}
    BY DEF ScatteredB
  <2>. HIDE DEF X
  <2>. QED  BY <2>2, <2>3, <2>4
<1>6. ASSUME NEW e \in augmented.A PROVE AugRowOf(e.of.row) = e.row
  <2>. DEFINE o == e.of.row
  <2>1. Carries(o) /\ e.row = new(o)
    BY <1>1, <1>3
  <2>. HIDE DEF o
  <2>2. new(o) \in AugmentedRows /\ new(o) \in Nat
    BY <1>2, <2>1
  <2>3. {r \in DOMAIN augmented.reverse : augmented.bRowMap[r] = o} = {new(o)}
    <3>1. \A r \in AugmentedRows : bmap[r] = o <=> r = new(o)
      BY <1>4, <2>1
    <3>2. DOMAIN augmented.reverse = AugmentedRows /\ augmented.bRowMap = bmap
      BY <1>1, <1>2
    <3>. HIDE DEF AugmentedRows
    <3>. QED  BY <2>2, <3>1, <3>2
  <2>. DEFINE n == new(o)
  <2>4. AugRowOf(o) = Greatest({n})
    BY <2>3 DEF AugRowOf
  <2>5. n \in Nat
    BY <2>2
  <2>. HIDE DEF n
  <2>6. Greatest({n}) = n
    <3>1. {n} \in SUBSET (0..n) /\ {n} # {}
      BY <2>5
    <3>. QED  BY <2>5, <3>1, GreatestIs
  <2>. QED  BY <2>1, <2>4, <2>6 DEF n, o
<1>. QED  BY <1>5, <1>6 DEF BatchMatchesDirect

\* The size of a union of parts that have nothing in common.
LEMMA SumOfSizes ==
  ASSUME NEW n \in Nat, NEW g, NEW part, \A k \in 1..n : IsFiniteSet(part[k]) /\ Cardinality(part[k]) = g[k],
         \A k, l \in 1..n : k # l => part[k] \cap part[l] = {}
  PROVE  Cardinality(UNION {part[k] : k \in 1..n}) = SumOver(g, 1..n)
<1>. DEFINE U(i) == UNION {part[k] : k \in 1..i}
            T == {i \in 0..n : IsFiniteSet(U(i)) /\ Cardinality(U(i)) = SumOver(g, 1..i)}
<1>1. \A i \in 0..n : Summing(g, 1..i)
  <2>. TAKE i \in 0..n
  <2>1. IsFiniteSet(1..i) /\ 1..i \in SUBSET Nat
    BY FS_Interval
  <2>2. \A k \in 1..n : g[k] \in Int
    <3>1. \A k \in 1..n : Cardinality(part[k]) \in Nat
      BY FS_CardinalityType
    <3>. QED  BY <3>1
  <2>. QED  BY <2>1, <2>2 DEF Summing
<1>2. 0 \in T
  <2>1. 1..0 = {} /\ 0 \in 0..n
    OBVIOUS
  <2>2. SumOver(g, {}) = 0
    BY <1>1, <2>1, SumIs
  <2>3. U(0) = {}
    BY <2>1
  <2>4. IsFiniteSet({}) /\ Cardinality({}) = 0
    BY FS_EmptySet
  <2>. QED  BY <2>1, <2>2, <2>3, <2>4
<1>3. ASSUME NEW i \in 1..n, i - 1 \in T PROVE i \in T
  <2>1. i \in 0..n /\ (1..i) \ {i} = 1..(i - 1) /\ i \in 1..i /\ \A k \in 1..i : k \in 1..(i - 1) \/ k = i
    OBVIOUS
  <2>2. IsFiniteSet(U(i - 1)) /\ Cardinality(U(i - 1)) = SumOver(g, 1..(i - 1))
    BY <1>3
  <2>3. SumOver(g, 1..i) = g[i] + SumOver(g, 1..(i - 1))
    <3>1. Summing(g, 1..i)
      BY <1>1, <2>1
    <3>2. \A x \in 1..i : SumOver(g, 1..i) = g[x] + SumOver(g, (1..i) \ {x})
      BY <3>1, SumIs
    <3>. QED  BY <2>1, <3>2
  <2>4. U(i) = U(i - 1) \cup part[i]
    <3>1. \A k : k \in 1..i <=> k \in 1..(i - 1) \/ k = i
      BY <2>1
    <3>. QED  BY <3>1
  <2>5. U(i - 1) \cap part[i] = {}
    <3>1. \A k \in 1..(i - 1) : k \in 1..n /\ k # i
      OBVIOUS
    <3>2. \A k \in 1..(i - 1) : part[k] \cap part[i] = {}
      BY <3>1
    <3>. QED  BY <3>2
  <2>6. IsFiniteSet(part[i]) /\ Cardinality(part[i]) = g[i]
    OBVIOUS
  <2>. DEFINE V == U(i - 1)
              W == part[i]
  <2>7. IsFiniteSet(V) /\ IsFiniteSet(W) /\ V \cap W = {} /\ U(i) = V \cup W /\ Cardinality(V) = SumOver(g, 1..(i - 1))
        /\ Cardinality(W) = g[i]
    BY <2>2, <2>4, <2>5, <2>6
  <2>. HIDE DEF V, W
  <2>8. IsFiniteSet(V \cup W) /\ Cardinality(V \cup W) = Cardinality(V) + Cardinality(W) - Cardinality(V \cap W)
    BY <2>7, FS_Union
  <2>9. Cardinality(V \cap W) = 0 /\ Cardinality(V) \in Nat /\ Cardinality(W) \in Nat
    BY <2>7, FS_EmptySet, FS_CardinalityType
  <2>10. Cardinality(V \cup W) = Cardinality(W) + Cardinality(V)
    BY <2>8, <2>9
  <2>11. IsFiniteSet(U(i)) /\ Cardinality(U(i)) = SumOver(g, 1..i)
    BY <2>3, <2>7, <2>8, <2>10
  <2>. HIDE DEF U
  <2>. QED  BY <2>1, <2>11
<1>. HIDE DEF U
<1>4. Carried(n, T)
  BY Induction
<1>5. 0..n \subseteq T
  <2>. HIDE DEF T
  <2>. QED  BY <1>2, <1>3, <1>4 DEF Carried
<1>6. n \in T
  <2>1. n \in 0..n
    OBVIOUS
  <2>. QED  BY <1>5, <2>1
<1>7. Cardinality(U(n)) = SumOver(g, 1..n)
  BY <1>6
<1>. QED  BY <1>7 DEF U

\* The columns of the standard form, one per entry.
Column(k, x) == [clique |-> k, place |-> x, row |-> RowOf(k, x)]

LEMMA StandardColumnsAre ==
  ASSUME Stack
  PROVE  \A c : c \in StandardColumns <=> \E k \in 1..tree.nCliques : \E x \in 1..Size(k) : c = Column(k, x)
<1>1. \A k \in 1..tree.nCliques : Walk(k) = [x \in 1..Size(k) |-> RowOf(k, x)]
  BY WalkRows
<1>2. \A k \in 1..tree.nCliques : {[clique |-> k, place |-> x, row |-> Walk(k)[x]] : x \in DOMAIN Walk(k)}
                                     = {Column(k, x) : x \in 1..Size(k)}
  BY <1>1 DEF Column
<1>3. StandardColumns = UNION {{Column(k, x) : x \in 1..Size(k)} : k \in 1..tree.nCliques}
  BY <1>2 DEF StandardColumns
<1>. QED  BY <1>3

\* get_decomposed_dim_and_overlaps counts them.
LEMMA DimensionIs ==
  ASSUME Stack
  PROVE  DecomposedDimension = Cardinality(StandardColumns)
<1>. DEFINE N == tree.nCliques
            M == BlockStart(0) - RowsBefore
            g == [k \in 1..N |-> TriangularNumber(tree.nblk[k])]
            At(c) == Slot(c.clique, c.place)
            f == [i \in 1..M |-> CHOOSE c \in StandardColumns : At(c) = RowsBefore + i - 1]
<1>0. Framed
  BY DEF Stack
<1>1. N \in Nat /\ RowsBefore \in Nat /\ BlockStart(0) \in Nat /\ RowsBefore <= BlockStart(0) /\ DOMAIN tree.nblk = 1..N
  BY <1>0, FrameSizes DEF Framed
<1>2. DecomposedDimension = M
  <2>1. DecomposedDimension = SumOver(g, 1..N)
    BY DEF DecomposedDimension
  <2>2. BlockStart(0) = RowsBefore + SumOver(g, 1..N)
    <3>1. (0 + 1)..N = 1..N
      OBVIOUS
    <3>. QED  BY <1>1, <3>1 DEF BlockStart
  <2>3. SumOver(g, 1..N) \in Int
    <3>1. \A k \in 1..N : g[k] \in Int
      <4>1. \A k \in 1..N : Size(k) \in Nat
        BY <1>0, BlockStartIs
      <4>. QED  BY <4>1 DEF Size
    <3>2. IsFiniteSet(1..N) /\ 1..N \in SUBSET Nat
      BY <1>1, CountTo
    <3>. HIDE DEF g
    <3>3. Summing(g, 1..N)
      BY <3>1, <3>2 DEF Summing
    <3>. QED  BY <3>3, SumIs
  <2>. HIDE DEF g
  <2>. QED  BY <1>1, <2>1, <2>2, <2>3
<1>3. M \in Nat
  BY <1>1
<1>4. \A c : c \in StandardColumns <=> \E k \in 1..N : \E x \in 1..Size(k) : c = Column(k, x)
  BY StandardColumnsAre
<1>5. \A c, d \in StandardColumns : At(c) = At(d) => c = d
  <2>. TAKE c, d \in StandardColumns
  <2>1. PICK k \in 1..N : \E x \in 1..Size(k) : c = Column(k, x)
    BY <1>4
  <2>2. PICK x \in 1..Size(k) : c = Column(k, x)
    BY <2>1
  <2>3. PICK m \in 1..N : \E y \in 1..Size(m) : d = Column(m, y)
    BY <1>4
  <2>4. PICK y \in 1..Size(m) : d = Column(m, y)
    BY <2>3
  <2>5. At(c) = Slot(k, x) /\ At(d) = Slot(m, y)
    BY <2>2, <2>4 DEF Column
  <2>6. Slot(k, x) = Slot(m, y) => k = m /\ x = y
    BY <1>0, SlotsAre
  <2>. QED  BY <2>2, <2>4, <2>5, <2>6
<1>6. ASSUME NEW i \in 1..M PROVE \E c \in StandardColumns : At(c) = RowsBefore + i - 1
  <2>. DEFINE r == RowsBefore + i - 1
  <2>1. r \in Nat /\ RowsBefore <= r /\ r < BlockStart(0)
    BY <1>1
  <2>. HIDE DEF r
  <2>2. PICK k \in 1..N : \E x \in 1..Size(k) : r = BlockStart(k) + x - 1
    BY <1>0, <2>1, BlockExists
  <2>3. PICK x \in 1..Size(k) : r = BlockStart(k) + x - 1
    BY <2>2
  <2>4. Column(k, x) \in StandardColumns
    BY <1>4
  <2>5. At(Column(k, x)) = r
    BY <2>3 DEF Column, Slot
  <2>. QED  BY <2>4, <2>5 DEF r
<1>7. ASSUME NEW c \in StandardColumns PROVE At(c) \in Nat /\ RowsBefore <= At(c) /\ At(c) < BlockStart(0)
  <2>1. PICK k \in 1..N : \E x \in 1..Size(k) : c = Column(k, x)
    BY <1>4
  <2>2. PICK x \in 1..Size(k) : c = Column(k, x)
    BY <2>1
  <2>3. At(c) = Slot(k, x)
    BY <2>2 DEF Column
  <2>. QED  BY <1>0, <2>3, SlotsAre
<1>. HIDE DEF At
<1>8. \A i \in 1..M : f[i] \in StandardColumns /\ At(f[i]) = RowsBefore + i - 1
  <2>. HIDE DEF M
  <2>. QED  BY <1>6
<1>9. f = [i \in 1..M |-> f[i]]
  OBVIOUS
<1>. HIDE DEF f
<1>10. \A i, j \in 1..M : f[i] = f[j] => i = j
  <2>. TAKE i, j \in 1..M
  <2>1. f[i] = f[j] => RowsBefore + i - 1 = RowsBefore + j - 1
    BY <1>8
  <2>. QED  BY <1>1, <2>1
<1>11. ASSUME NEW c \in StandardColumns PROVE \E i \in 1..M : f[i] = c
  <2>. DEFINE i == At(c) - RowsBefore + 1
  <2>1. i \in 1..M /\ RowsBefore + i - 1 = At(c)
    BY <1>1, <1>7
  <2>. HIDE DEF i
  <2>2. f[i] = c
    BY <1>5, <1>8, <2>1
  <2>. QED  BY <2>1, <2>2
<1>12. IsFiniteSet(1..M) /\ Cardinality(1..M) = M
  <2>. HIDE DEF M
  <2>. QED  BY <1>3, CountTo
<1>. DEFINE J == 1..M
            C == StandardColumns
<1>13. /\ IsFiniteSet(J) /\ f = [i \in J |-> f[i]] /\ (\A i \in J : f[i] \in C)
       /\ (\A i, j \in J : f[i] = f[j] => i = j) /\ \A c \in C : \E i \in J : f[i] = c
  BY <1>8, <1>9, <1>10, <1>11, <1>12
<1>. HIDE DEF J, C, M
<1>14. Cardinality(C) = Cardinality(J)
  BY <1>13, SameSize
<1>. QED  BY <1>2, <1>12, <1>14 DEF J, C

\* The overlap columns of one clique.
TieOf(k, x) == [plus |-> Slot(k, x), minus |-> ParentRow(k, Spot(k, x)[1], Spot(k, x)[2])]
TiedPlaces(k) == {x \in 1..Size(k) : Tie(k, x)}
Ties(k) == {TieOf(k, x) : x \in TiedPlaces(k)}

LEMMA TiesAre ==
  ASSUME Stack
  PROVE  /\ OverlapColumns(Blocks) = UNION {Ties(k) : k \in 1..tree.nCliques}
         /\ \A k, l \in 1..tree.nCliques : k # l => Ties(k) \cap Ties(l) = {}
<1>0. Framed
  BY DEF Stack
<1>1. tree.nCliques \in Nat
  BY <1>0 DEF Framed
<1>2. ASSUME NEW c \in OverlapColumns(Blocks) PROVE \E k \in 1..tree.nCliques : c \in Ties(k)
  <2>1. PICK k \in 1..(tree.nCliques - 1) : \E x \in 1..Size(k) : Tie(k, x) /\ c = TieOf(k, x)
    BY ColumnsAre DEF TieOf
  <2>. QED  BY <1>1, <2>1 DEF Ties, TiedPlaces
<1>3. ASSUME NEW k \in 1..tree.nCliques, NEW c \in Ties(k) PROVE c \in OverlapColumns(Blocks)
  <2>1. PICK x \in 1..Size(k) : Tie(k, x) /\ c = TieOf(k, x)
    BY DEF Ties, TiedPlaces
  <2>. QED  BY <2>1, ColumnsAre DEF TieOf
<1>4. ASSUME NEW k \in 1..tree.nCliques, NEW l \in 1..tree.nCliques, NEW c \in Ties(k), c \in Ties(l) PROVE k = l
  <2>1. PICK x \in 1..Size(k) : c = TieOf(k, x)
    BY DEF Ties, TiedPlaces
  <2>2. PICK y \in 1..Size(l) : c = TieOf(l, y)
    BY <1>4 DEF Ties, TiedPlaces
  <2>3. Slot(k, x) = Slot(l, y)
    BY <2>1, <2>2 DEF TieOf
  <2>. QED  BY <1>0, <2>3, SlotsAre
<1>. QED  BY <1>2, <1>3, <1>4

LEMMA TiesCounted ==
  ASSUME Stack, NEW k \in 1..tree.nCliques
  PROVE  /\ IsFiniteSet(Ties(k))
         /\ Cardinality(Ties(k)) = TriangularNumber(Len(tree.separators[tree.snodePost[k]]))
<1>0. Framed
  BY DEF Stack
<1>. DEFINE X == TiedPlaces(k)
            f == [x \in X |-> TieOf(k, x)]
<1>1. /\ Clique(k) \in SUBSET Nat /\ IsFiniteSet(Clique(k)) /\ Sep(k) \in SUBSET Clique(k) /\ Entries(Clique(k)) = 1..Size(k)
      /\ Len(tree.separators[tree.snodePost[k]]) = Cardinality(Sep(k))
  BY StackParts DEF Stack
<1>2. X = {x \in Entries(Clique(k)) : PairAt(Clique(k), x)[1] \in Sep(k) /\ PairAt(Clique(k), x)[2] \in Sep(k)}
  BY <1>1 DEF TiedPlaces, Tie, Spot
<1>3. IsFiniteSet(X) /\ Cardinality(X) = TriangularNumber(Cardinality(Sep(k)))
  <2>. DEFINE Y == {x \in Entries(Clique(k)) : PairAt(Clique(k), x)[1] \in Sep(k) /\ PairAt(Clique(k), x)[2] \in Sep(k)}
  <2>1. IsFiniteSet(Y) /\ Cardinality(Y) = TriangularNumber(Cardinality(Sep(k)))
    BY <1>1, EntriesWithin
  <2>. HIDE DEF X
  <2>2. X = Y
    BY <1>2
  <2>. HIDE DEF Y
  <2>. QED  BY <2>1, <2>2
<1>4. (\A x \in X : f[x] \in Ties(k)) /\ (\A c \in Ties(k) : \E x \in X : f[x] = c)
  BY DEF Ties
<1>5. \A x, y \in X : f[x] = f[y] => x = y
  <2>. TAKE x, y \in X
  <2>1. x \in 1..Size(k) /\ y \in 1..Size(k)
    BY DEF TiedPlaces
  <2>2. f[x] = f[y] => Slot(k, x) = Slot(k, y)
    BY DEF TieOf
  <2>. QED  BY <1>0, <2>1, <2>2, SlotsAre
<1>6. f = [x \in X |-> f[x]]
  OBVIOUS
<1>. HIDE DEF f, X
<1>7. IsFiniteSet(Ties(k)) /\ Cardinality(Ties(k)) = Cardinality(X)
  BY <1>3, <1>4, <1>5, <1>6, SameSize
<1>. QED  BY <1>1, <1>3, <1>7

LEMMA OverlapsCounted ==
  ASSUME Stack
  PROVE  DecomposedOverlaps = Cardinality(OverlapColumns(Blocks))
<1>. DEFINE N == tree.nCliques
            g == [k \in 1..N |-> TriangularNumber(Len(tree.separators[tree.snodePost[k]]))]
            part == [k \in 1..N |-> Ties(k)]
<1>1. N \in Nat
  BY DEF Stack, Framed
<1>2. \A k \in 1..N : IsFiniteSet(part[k]) /\ Cardinality(part[k]) = g[k]
  BY TiesCounted
<1>3. \A k, l \in 1..N : k # l => part[k] \cap part[l] = {}
  BY TiesAre
<1>4. OverlapColumns(Blocks) = UNION {part[k] : k \in 1..N}
  <2>1. {part[k] : k \in 1..N} = {Ties(k) : k \in 1..N}
    OBVIOUS
  <2>. QED  BY <2>1, TiesAre
<1>5. DecomposedOverlaps = SumOver(g, 1..N)
  BY DEF DecomposedOverlaps
<1>. HIDE DEF g, part, N
<1>6. Cardinality(UNION {part[k] : k \in 1..N}) = SumOver(g, 1..N)
  BY <1>1, <1>2, <1>3, SumOfSizes
<1>. QED  BY <1>4, <1>5, <1>6

\* number_of_overlaps_in_rows counts the cliques that hold the entry.
LEMMA CopiesCounted ==
  ASSUME Stack, OneToOne(ordering), NEW k \in Nat, NEW i \in Vertices, NEW j \in Vertices, i <= j,
         IndexToCoord(k) = <<i, j>>, CoordToIndex(i, j) = k
  PROVE  OverlapCount(RowsBefore + k)
           = Cardinality({d \in Active : {InversePerm(ordering)[i], InversePerm(ordering)[j]} \subseteq VerticesOf(d)})
<1>. DEFINE N == tree.nCliques
            o == tree.snodePost
            v == InversePerm(ordering)[i]
            w == InversePerm(ordering)[j]
            D == {d \in Active : {v, w} \subseteq VerticesOf(d)}
            Q == {q \in 1..N : i \in Clique(q) /\ j \in Clique(q)}
            C == {c \in StandardColumns : c.row = RowsBefore + k}
            f == [q \in Q |-> o[q]]
            x(q) == CHOOSE y \in 1..Size(q) : Spot(q, y) = <<i, j>>
            h == [q \in Q |-> Column(q, x(q))]
<1>1. N \in Nat /\ DOMAIN o = 1..N /\ Distinct(o) /\ Elems(o) = Active /\ RowsBefore \in Nat
  BY DEF Stack, Framed
<1>2. IsFiniteSet(Q)
  <2>1. IsFiniteSet(1..N)
    BY <1>1, CountTo
  <2>. QED  BY <2>1, FS_Subset
<1>3. v \in Vertices /\ w \in Vertices /\ ordering[v] = i /\ ordering[w] = j
  <2>1. OneToOne(InversePerm(ordering)) /\ \A u \in Vertices : ordering[InversePerm(ordering)[u]] = u
    BY InverseIs
  <2>. QED  BY <2>1 DEF OneToOne
<1>. HIDE DEF v, w
<1>4. \A q \in 1..N : (i \in Clique(q) /\ j \in Clique(q)) <=> {v, w} \subseteq VerticesOf(o[q])
  <2>. TAKE q \in 1..N
  <2>1. \A u \in Vertices : ordering[u] \in Clique(q) <=> u \in VerticesOf(o[q])
    BY DEF Stack
  <2>. QED  BY <1>3, <2>1
<1>5. Cardinality(D) = Cardinality(Q)
  <2>1. \A q \in Q : f[q] \in D
    <3>1. \A q \in Q : o[q] \in Active
      BY <1>1 DEF Elems
    <3>. QED  BY <1>4, <3>1
  <2>2. \A q, m \in Q : f[q] = f[m] => q = m
    BY <1>1 DEF Distinct
  <2>3. \A d \in D : \E q \in Q : f[q] = d
    <3>. TAKE d \in D
    <3>1. PICK q \in 1..N : d = o[q]
      BY <1>1 DEF Elems
    <3>2. q \in Q
      BY <1>4, <3>1
    <3>. QED  BY <3>1, <3>2
  <2>4. f = [q \in Q |-> f[q]]
    OBVIOUS
  <2>. HIDE DEF f, D, Q
  <2>. QED  BY <1>2, <2>1, <2>2, <2>3, <2>4, SameSize
<1>6. \A q \in Q : x(q) \in 1..Size(q) /\ Spot(q, x(q)) = <<i, j>>
  <2>. TAKE q \in Q
  <2>1. \E y \in 1..Size(q) : Spot(q, y) = <<i, j>>
    BY PairHasSpot
  <2>. QED  BY <2>1
<1>7. \A c : c \in StandardColumns <=> \E q \in 1..N : \E y \in 1..Size(q) : c = Column(q, y)
  BY StandardColumnsAre
<1>. HIDE DEF x
<1>8. Cardinality(C) = Cardinality(Q)
  <2>1. ASSUME NEW q \in Q PROVE h[q] \in C
    <3>1. h[q] = Column(q, x(q)) /\ x(q) \in 1..Size(q) /\ q \in 1..N
      BY <1>6
    <3>2. Column(q, x(q)).row = RowsBefore + k
      BY <1>6 DEF Column, RowOf
    <3>. QED  BY <1>7, <3>1, <3>2
  <2>2. \A q, m \in Q : h[q] = h[m] => q = m
    BY DEF Column
  <2>3. ASSUME NEW c \in C PROVE \E q \in Q : h[q] = c
    <3>1. PICK q \in 1..N : \E y \in 1..Size(q) : c = Column(q, y)
      BY <1>7
    <3>2. PICK y \in 1..Size(q) : c = Column(q, y)
      BY <3>1
    <3>3. RowOf(q, y) = RowsBefore + k
      BY <3>2 DEF Column
    <3>4. Spot(q, y) = <<i, j>>
      <4>1. IndexToCoord(RowOf(q, y) - RowsBefore) = Spot(q, y)
        BY SpotsAre
      <4>2. RowOf(q, y) - RowsBefore = k
        BY <1>1, <3>3
      <4>. QED  BY <4>1, <4>2
    <3>5. Spot(q, y)[1] \in Clique(q) /\ Spot(q, y)[2] \in Clique(q)
      BY SpotsAre
    <3>6. q \in Q
      BY <3>4, <3>5
    <3>7. x(q) = y
      <4>1. x(q) \in 1..Size(q) /\ Spot(q, x(q)) = Spot(q, y)
        BY <1>6, <3>4, <3>6
      <4>. QED  BY <4>1, SpotsAre
    <3>. QED  BY <3>2, <3>6, <3>7
  <2>4. h = [q \in Q |-> h[q]]
    OBVIOUS
  <2>5. (\A q \in Q : h[q] \in C) /\ \A c \in C : \E q \in Q : h[q] = c
    BY <2>1, <2>3
  <2>. HIDE DEF h, C, Q
  <2>. QED  BY <1>2, <2>2, <2>4, <2>5, SameSize
<1>. QED  BY <1>5, <1>8 DEF OverlapCount, v, w

\* Every entry of the pattern lies in a block.
LEMMA MaskCarried ==
  ASSUME Stack, Coordinates(mask), Kept(tree, mask, ordering), Well(tree), OneToOne(ordering)
  PROVE  \A k \in mask : Carries(RowsBefore + k)
<1>. TAKE k \in mask
<1>1. PICK i \in Vertices, j \in Vertices : i <= j /\ IndexToCoord(k) = <<i, j>> /\ CoordToIndex(i, j) = k
  BY DEF Coordinates
<1>. DEFINE v == InversePerm(ordering)[i]
            w == InversePerm(ordering)[j]
<1>2. v \in Vertices /\ w \in Vertices /\ ordering[v] = i /\ ordering[w] = j
  <2>1. /\ OneToOne(InversePerm(ordering))
        /\ \A x \in Vertices : ordering[InversePerm(ordering)[x]] = x
    BY InverseIs
  <2>. QED  BY <2>1 DEF OneToOne
<1>3. Together(tree, v, w)
  <2>1. Together(tree, InversePerm(ordering)[IndexToCoord(k)[1]], InversePerm(ordering)[IndexToCoord(k)[2]])
    BY DEF Kept
  <2>. QED  BY <1>1, <2>1
<1>. HIDE DEF v, w
<1>4. PICK c \in DOMAIN tree.snode :
        tree.snode[c] # <<>> /\ {v, w} \subseteq Elems(tree.snode[c]) \cup Elems(tree.separators[c])
  BY <1>3 DEF Together
<1>5. c \in Active /\ v \in VerticesOf(c) /\ w \in VerticesOf(c)
  <2>1. Elems(CliqueOf(tree, c)) = Elems(tree.snode[c]) \cup Elems(tree.separators[c])
    BY CliqueOfIs
  <2>. QED  BY <1>4, <2>1 DEF Active, VerticesOf
<1>6. PICK m \in 1..tree.nCliques : tree.snodePost[m] = c
  <2>1. Elems(tree.snodePost) = Active /\ DOMAIN tree.snodePost = 1..tree.nCliques
    BY DEF Stack
  <2>. QED  BY <1>5, <2>1 DEF Elems
<1>7. i \in Clique(m) /\ j \in Clique(m)
  <2>1. \A x \in Vertices : ordering[x] \in Clique(m) <=> x \in VerticesOf(tree.snodePost[m])
    BY DEF Stack
  <2>. QED  BY <1>2, <1>5, <1>6, <2>1
<1>8. PICK x \in 1..Size(m) : Spot(m, x) = <<i, j>>
  <2>1. \E x \in 1..Size(m) : Spot(m, x) = <<i, j>>
    BY <1>1, <1>7, PairHasSpot
  <2>. QED  BY <2>1
<1>9. RowOf(m, x) = RowsBefore + k
  BY <1>1, <1>8 DEF RowOf
<1>. QED  BY <1>9 DEF Carries

\* The copies of the rows of a problem agree.
LEMMA CopiesHold ==
  ASSUME Stack, Made, Coordinates(mask), OneToOne(ordering)
  PROVE  CopiesAgree
<1>1. RowsFit
  BY RowsFitIs
<1>2. RowsAgree
  BY <1>1, RowsDoAgree
<1>3. DecomposedDimension = Cardinality(StandardColumns)
  BY DimensionIs
<1>4. DecomposedOverlaps = Cardinality(augmented.overlaps)
  <2>1. DecomposedOverlaps = Cardinality(OverlapColumns(Blocks)) /\ augmented.overlaps = OverlapColumns(Blocks)
    BY OverlapsCounted, MadeIs
  <2>. QED  BY <2>1
<1>5. ASSUME NEW k \in mask
      PROVE  OverlapCount(RowsBefore + k)
               = Cardinality({d \in Active : {InversePerm(ordering)[IndexToCoord(k)[1]],
                                              InversePerm(ordering)[IndexToCoord(k)[2]]} \subseteq VerticesOf(d)})
  <2>1. PICK i \in Vertices, j \in Vertices : i <= j /\ IndexToCoord(k) = <<i, j>> /\ CoordToIndex(i, j) = k
    BY DEF Coordinates
  <2>2. k \in Nat
    <3>1. Order \in Nat \ {0}
      BY DEF Stack, Framed
    <3>2. CoordToIndex(i, j) \in 0..(TriangularNumber(Order) - 1)
      BY <2>1, <3>1, PlaceInCone
    <3>. QED  BY <2>1, <3>2
  <2>3. OverlapCount(RowsBefore + k)
          = Cardinality({d \in Active : {InversePerm(ordering)[i], InversePerm(ordering)[j]} \subseteq VerticesOf(d)})
    BY <2>1, <2>2, CopiesCounted
  <2>4. IndexToCoord(k)[1] = i /\ IndexToCoord(k)[2] = j
    BY <2>1
  <2>. QED  BY <2>3, <2>4
<1>. QED  BY <1>2, <1>3, <1>4, <1>5 DEF RowsAgree, CopiesAgree

\* The maps are made of the tree and the ordering.
LEMMA RowMapsStay ==
  ASSUME tree' = tree, ordering' = ordering
  PROVE  /\ \A A, b : Augmentation(A, b, Blocks)' = Augmentation(A, b, Blocks)
         /\ \A o : Carries(o)' <=> Carries(o)
<1>1. \A k : BlockStart(k)' = BlockStart(k)
  BY DEF BlockStart
<1>2. \A s : Original(s)' = Original(s)
  BY DEF Original
<1>3. Blocks' = Blocks
  BY <1>1, <1>2 DEF Blocks
<1>4. \A k, i, j : ParentRow(k, i, j)' = ParentRow(k, i, j)
  BY <1>1, <1>2 DEF ParentRow
<1>5. \A B : OverlapColumns(B)' = OverlapColumns(B)
  BY <1>4 DEF OverlapColumns
<1>6. \A f : Layout(f)' = Layout(f)
  <2>. DEFINE Laying(f, n) ==
                LET Of(h) == ToArray([r \in 1..RowsBefore |-> r - 1]
                                       \o Fold(LAMBDA rows, k : rows \o h[k], <<>>, Descending(1..n))
                                       \o [r \in 1..RowsAfter |-> AfterCone + r - 1])
                IN  CHOOSE a \in {Of(h) : h \in {f}} : TRUE
  <2>1. \A f : Layout(f) = Laying(f, tree.nCliques)
    BY Zenon DEF Layout, Fold
  <2>2. \A f : Layout(f)' = Laying(f, tree'.nCliques)
    BY Zenon DEF Layout, Fold
  <2>. HIDE DEF Laying
  <2>. QED  BY <2>1, <2>2
<1>7. \A B : BRowMap(B)' = BRowMap(B)
  BY <1>6 DEF BRowMap
<1>8. \A k : Walk(k)' = Walk(k)
  BY <1>2 DEF Walk
<1>9. ReverseMap' = ReverseMap
  BY <1>6, <1>8 DEF ReverseMap
<1>10. \A r, B : NewRow(r, B)' = NewRow(r, B)
  <2>. DEFINE Row(r, B, first) ==
                IF r < RowsBefore THEN r
                ELSE IF r >= AfterCone THEN r - AfterCone + first
                ELSE LET at == IndexToCoord(r - RowsBefore)
                         In(k) == {x \in DOMAIN B[k].entries :
                                     /\ ~B[k].entries[x].overlap
                                     /\ <<B[k].entries[x].i, B[k].entries[x].j>> = at}
                         ks == {k \in DOMAIN B : In(k) # {}}
                     IN  IF ks = {} THEN Unmapped
                         ELSE LET k == Least(ks) IN B[k].first + (CHOOSE x \in In(k) : TRUE) - 1
  <2>1. \A r, B : NewRow(r, B) = Row(r, B, BlockStart(0))
    BY Zenon DEF NewRow
  <2>2. \A r, B : NewRow(r, B)' = Row(r, B, BlockStart(0)')
    BY Zenon DEF NewRow
  <2>. HIDE DEF Row
  <2>. QED  BY <1>1, <2>1, <2>2
<1>11. \A A, b, B : Augmentation(A, b, B)' = Augmentation(A, b, B)
  <2>. TAKE A, b, B
  <2>. DEFINE X == {e.row : e \in A} \cup b
              Parts(new, overlaps, map, reverse) ==
                [A |-> {[row |-> new[e.row], of |-> e] : e \in A},
                 b |-> [r \in {new[x] : x \in b} |-> CHOOSE x \in b : new[x] = r],
                 overlaps |-> overlaps, bRowMap |-> map, reverse |-> reverse]
  <2>1. Augmentation(A, b, B) = Parts([r \in X |-> NewRow(r, B)], OverlapColumns(B), BRowMap(B), ReverseMap)
    BY Zenon DEF Augmentation
  <2>2. Augmentation(A, b, B)' = Parts([r \in X |-> NewRow(r, B)'], OverlapColumns(B)', BRowMap(B)', ReverseMap')
    BY Zenon DEF Augmentation
  <2>. HIDE DEF X, Parts
  <2>3. [r \in X |-> NewRow(r, B)'] = [r \in X |-> NewRow(r, B)]
    BY <1>10
  <2>. QED  BY <1>5, <1>7, <1>9, <2>1, <2>2, <2>3
<1>12. \A A, b : Augmentation(A, b, Blocks)' = Augmentation(A, b, Blocks)
  BY <1>3, <1>11
<1>13. \A k : Clique(k)' = Clique(k)
  BY DEF Clique, VerticesOf
<1>14. \A k, x : Spot(k, x)' = Spot(k, x)
  BY <1>13 DEF Spot
<1>15. \A k, x : RowOf(k, x)' = RowOf(k, x)
  BY <1>14 DEF RowOf
<1>16. \A o : Carries(o)' <=> Carries(o)
  BY <1>15 DEF Carries, Size
<1>. QED  BY <1>12, <1>16

\* An augmented problem that is made of its problem stays so.
LEMMA MadeNext ==
  ASSUME tree' = tree, ordering' = ordering, augmented' = Augmentation(problem'.A, problem'.b, Blocks),
         \A e \in problem'.A : Carries(e.row), \A o \in problem'.b : Carries(o)
  PROVE  Made'
<1>1. \A A, b : Augmentation(A, b, Blocks)' = Augmentation(A, b, Blocks)
  BY RowMapsStay
<1>2. Augmentation(problem.A, problem.b, Blocks)' = Augmentation(problem'.A, problem'.b, Blocks)
  BY <1>1
<1>3. \A o : Carries(o)' <=> Carries(o)
  BY RowMapsStay
<1>4. (\A e \in problem'.A : Carries(e.row)') /\ \A o \in problem'.b : Carries(o)'
  BY <1>3
<1>. QED  BY <1>2, <1>4 DEF Made

\* The rows of the problem lie in the pattern or in another cone.
LEMMA SourcesCarried ==
  ASSUME OrderAssumption, \A k \in mask : Carries(RowsBefore + k), NEW src \in Sources, NEW prob, prob = ProblemOf(src)
  PROVE  (\A e \in prob.A : Carries(e.row)) /\ \A o \in prob.b : Carries(o)
<1>. DEFINE A == {[row |-> RowsBefore + k, col |-> c] : k \in src.A, c \in {0, 1}}
                  \cup {[row |-> o, col |-> 0] : o \in {AfterCone} \cap OriginalRows}
            b == {RowsBefore + k : k \in src.b} \cup {o \in {0} : o < RowsBefore}
<1>0. prob.A = A /\ prob.b = b
  BY DEF ProblemOf
<1>1. src.A \in SUBSET mask /\ src.b \in SUBSET mask
  BY DEF Sources
<1>2. \A o \in {AfterCone} \cap OriginalRows : Carries(o)
  BY DEF OriginalRows, Carries
<1>3. \A o \in {0} : o < RowsBefore => Carries(o)
  BY DEF OrderAssumption, Carries
<1>4. ASSUME NEW e \in prob.A PROVE Carries(e.row)
  <2>1. (\E k \in src.A : e.row = RowsBefore + k) \/ e.row \in {AfterCone} \cap OriginalRows
    BY <1>0
  <2>. QED  BY <1>1, <1>2, <2>1
<1>5. ASSUME NEW o \in prob.b PROVE Carries(o)
  <2>1. (\E k \in src.b : o = RowsBefore + k) \/ (o \in {0} /\ o < RowsBefore)
    BY <1>0
  <2>. QED  BY <1>1, <1>3, <2>1
<1>. QED  BY <1>4, <1>5

\* The reversal takes every row to one of the problem.
LEMMA ReversedRows ==
  ASSUME Stack
  PROVE  \E m \in Nat : DOMAIN ReverseMap = 0..(m - 1) /\ \A r \in 0..(m - 1) : ReverseMap[r] \in OriginalRows
<1>1. Framed
  BY DEF Stack
<1>2. /\ tree.nCliques \in Nat /\ RowsBefore \in Nat /\ RowsAfter \in Nat /\ AfterCone \in Nat
      /\ RowsBefore <= AfterCone /\ BlockStart(0) \in Nat
  BY <1>1, FrameSizes
<1>3. DOMAIN ReverseMap = 0..(BlockStart(0) + RowsAfter - 1)
  BY ReverseIs
<1>4. \A r \in 0..(BlockStart(0) + RowsAfter - 1) : ReverseMap[r] \in OriginalRows
  <2>. TAKE r \in 0..(BlockStart(0) + RowsAfter - 1)
  <2>1. CASE r \in 0..(RowsBefore - 1)
    <3>1. ReverseMap[r] = r
      BY <2>1, ReverseIs
    <3>. QED  BY <1>2, <2>1, <3>1 DEF OriginalRows
  <2>2. ASSUME NEW k \in 1..tree.nCliques, NEW x \in 1..Size(k), r = Slot(k, x) PROVE ReverseMap[r] \in OriginalRows
    <3>1. ReverseMap[r] = RowOf(k, x)
      BY <2>2, ReverseIs
    <3>2. RowOf(k, x) \in RowsBefore..(AfterCone - 1)
      BY SpotsAre
    <3>. QED  BY <1>2, <3>1, <3>2 DEF OriginalRows
  <2>3. ASSUME NEW y \in 0..(RowsAfter - 1), r = BlockStart(0) + y PROVE ReverseMap[r] \in OriginalRows
    <3>1. ReverseMap[r] = AfterCone + y
      BY <2>3, ReverseIs
    <3>. QED  BY <1>2, <3>1 DEF OriginalRows
  <2>. QED  BY <1>1, <2>1, <2>2, <2>3, RowKinds
<1>5. BlockStart(0) + RowsAfter \in Nat
  BY <1>2
<1>. DEFINE n == BlockStart(0) + RowsAfter
<1>6. n \in Nat /\ DOMAIN ReverseMap = 0..(n - 1) /\ \A r \in 0..(n - 1) : ReverseMap[r] \in OriginalRows
  BY <1>2, <1>3, <1>4, <1>5
<1>. HIDE DEF n
<1>. QED  BY <1>6

-----------------------------------------------------------------------------
(* The invariant                                                            *)

\* What holds of the state, for the strategies that keep the elimination tree.
Regular ==
  /\ Reordering(ordering)
  /\ pc = "merging" => method = "parent_child" /\ next \in Nat \ {0} /\ Waiting(tree, next)
  /\ pc \in {"merging", "merged", "pattern", "augmented"} => Well(tree) /\ Kept(tree, mask, ordering)
  /\ pc \in {"pattern", "augmented"} \/ (pc = "merged" /\ method = "none") => InPostOrder(tree)
  /\ pc \in {"pattern", "augmented"} => Arranged(tree) /\ Sized(tree)
  /\ pc = "augmented" => Made
PatternInv ==
  /\ method \in {"none", "parent_child", "clique_graph"} /\ Coordinates(mask)
  /\ method # "clique_graph" => Regular

\* What keeps pairs together keeps the pattern covered.
LEMMA KeptStays ==
  ASSUME NEW t, NEW u, NEW m, Coordinates(m), NEW p, NEW q, Kept(t, m, p),
         \A v, w \in Vertices : Together(t, InversePerm(p)[v], InversePerm(p)[w])
                                  => Together(u, InversePerm(q)[v], InversePerm(q)[w])
  PROVE  Kept(u, m, q)
<1>. SUFFICES ASSUME NEW k \in m
              PROVE  Together(u, InversePerm(q)[IndexToCoord(k)[1]], InversePerm(q)[IndexToCoord(k)[2]])
  BY DEF Kept
<1>1. PICK i \in Vertices, j \in Vertices : IndexToCoord(k) = <<i, j>>
  BY DEF Coordinates
<1>2. Together(t, InversePerm(p)[i], InversePerm(p)[j])
  <2>1. Together(t, InversePerm(p)[IndexToCoord(k)[1]], InversePerm(p)[IndexToCoord(k)[2]])
    BY DEF Kept
  <2>. QED  BY <1>1, <2>1
<1>3. Together(u, InversePerm(q)[i], InversePerm(q)[j])
  BY <1>2
<1>. QED  BY <1>1, <1>3

\* A merge within a numbering keeps the pattern covered.
LEMMA KeptByMerge ==
  ASSUME OrderAssumption, NEW t, NEW u, NEW m, Coordinates(m), NEW p, Reordering(p), Kept(t, m, p),
         \A v, w \in Vertices : Together(t, v, w) => Together(u, v, w)
  PROVE  Kept(u, m, p)
<1>1. InversePerm(p) \in [Vertices -> Vertices]
  BY FindGraphIs
<1>2. \A v, w \in Vertices : Together(t, InversePerm(p)[v], InversePerm(p)[w])
                               => Together(u, InversePerm(p)[v], InversePerm(p)[w])
  BY <1>1
<1>. QED  BY <1>2, KeptStays

\* The first clique tree.
LEMMA FirstTreeIs ==
  ASSUME OrderAssumption, NEW m, Coordinates(m), NEW p, Reordering(p),
         NEW L, L = FindGraph(m, p), NEW parent, parent = ParentFromL(L, Order),
         NEW post, post = PostOrder(parent, ChildrenFromParent(parent)),
         NEW ps, ps = PothenSun(parent, post, HigherDegree(L, Order)), NEW t, t = NewTree(L, post, ps)
  PROVE  Well(t) /\ InPostOrder(t) /\ Kept(t, m, p)
<1>1. Order \in Nat \ {0}
  BY DEF OrderAssumption
<1>2. Factor(L)
  BY FindGraphIs
<1>. DEFINE degree == HigherDegree(L, Order)
<1>3. /\ ETree(L, parent) /\ Posted(Vertices, parent, Order - 1, post)
      /\ \A v \in Vertices : v # Order - 1 => (degree[v] - 1 = degree[parent[v]] <=> Fits(L, parent, v))
  BY <1>1, <1>2, EliminationTree
<1>4. Grouped(L, parent, Vertices, Vertices, ps.index, ps.par)
  <2>1. ps = PothenSun(parent, post, degree)
    OBVIOUS
  <2>. HIDE DEF degree
  <2>. QED  BY <1>3, <2>1, PothenSunIs
<1>5. post \in Seq(Vertices)
  BY <1>3 DEF Posted
<1>6. Well(t) /\ InPostOrder(t) /\ \A v \in Vertices : \A w \in L[v] \cup {v} : Together(t, v, w)
  BY <1>3, <1>4, <1>5, NewTreeIs
<1>7. Kept(t, m, p)
  <2>. SUFFICES ASSUME NEW k \in m
                PROVE  Together(t, InversePerm(p)[IndexToCoord(k)[1]], InversePerm(p)[IndexToCoord(k)[2]])
    BY DEF Kept
  <2>. DEFINE v == InversePerm(p)[IndexToCoord(k)[1]]
              w == InversePerm(p)[IndexToCoord(k)[2]]
  <2>1. v \in Vertices /\ w \in Vertices /\ (v = w \/ w \in L[v] \/ v \in L[w])
    BY FindGraphIs
  <2>. HIDE DEF v, w
  <2>2. Together(t, v, w) \/ Together(t, w, v)
    BY <1>6, <2>1
  <2>3. Together(t, w, v) => Together(t, v, w)
    BY DEF Together
  <2>. QED  BY <2>2, <2>3 DEF v, w
<1>. QED  BY <1>6, <1>7

\* The invariant of the decomposition holds of a new pattern,
LEMMA InitPattern == OrderAssumption /\ Init => PatternInv
<1>. SUFFICES ASSUME OrderAssumption, Init PROVE PatternInv
  OBVIOUS
<1>1. Coordinates(mask)
  <2>1. PICK g \in Graphs : mask = Diagonal \cup {CoordToIndex(e[1], e[2]) : e \in g}
    BY DEF Init
  <2>. QED  BY <2>1, MaskCoordinates
<1>2. method \in {"none", "parent_child", "clique_graph"} /\ Reordering(ordering) /\ pc = "new"
  BY DEF Init, OrderAssumption, Reordering
<1>. QED  BY <1>1, <1>2 DEF PatternInv, Regular

\* and every step keeps it.
LEMMA NextPattern == OrderAssumption /\ PatternInv /\ [Next]_vars => PatternInv'
<1>. SUFFICES ASSUME OrderAssumption, PatternInv, [Next]_vars PROVE PatternInv'
  OBVIOUS
<1>1. method \in {"none", "parent_child", "clique_graph"} /\ Coordinates(mask)
  BY DEF PatternInv
<1>2. mask' = mask /\ method' = method
  BY DEF Next, vars, BuildTree, MergeParentChild, MergeOnGraph, StopMerging, FinishPattern, Augment, Finished
<1>. SUFFICES ASSUME method # "clique_graph" PROVE Regular'
  BY <1>1, <1>2 DEF PatternInv
<1>3. Regular /\ Reordering(ordering)
  BY DEF PatternInv, Regular
<1>4. CASE BuildTree
  <2>1. ordering' = ordering /\ pc = "new" /\ augmented' = augmented
    BY <1>4 DEF BuildTree
  <2>2. CASE pc' = "whole"
    BY <1>3, <2>1, <2>2 DEF Regular
  <2>3. CASE pc' # "whole"
    <3>1. PICK L \in {FindGraph(mask, ordering)} : \E parent \in {ParentFromL(L, Order)} :
            \E post \in {PostOrder(parent, ChildrenFromParent(parent))} :
            \E ps \in {PothenSun(parent, post, HigherDegree(L, Order))} :
            \E t \in {NewTree(L, post, ps)} :
              \/ t.nCliques > 1 /\ method = "parent_child" /\ tree' = t /\ next' = Len(t.snodePost) - 1 /\ pc' = "merging"
              \/ t.nCliques > 1 /\ method = "none" /\ tree' = t /\ pc' = "merged"
      BY <1>4, <2>3 DEF BuildTree
    <3>2. PICK parent \in {ParentFromL(L, Order)} :
            \E post \in {PostOrder(parent, ChildrenFromParent(parent))} :
            \E ps \in {PothenSun(parent, post, HigherDegree(L, Order))} :
            \E t \in {NewTree(L, post, ps)} :
              \/ t.nCliques > 1 /\ method = "parent_child" /\ tree' = t /\ next' = Len(t.snodePost) - 1 /\ pc' = "merging"
              \/ t.nCliques > 1 /\ method = "none" /\ tree' = t /\ pc' = "merged"
      BY <3>1
    <3>3. PICK post \in {PostOrder(parent, ChildrenFromParent(parent))} :
            \E ps \in {PothenSun(parent, post, HigherDegree(L, Order))} :
            \E t \in {NewTree(L, post, ps)} :
              \/ t.nCliques > 1 /\ method = "parent_child" /\ tree' = t /\ next' = Len(t.snodePost) - 1 /\ pc' = "merging"
              \/ t.nCliques > 1 /\ method = "none" /\ tree' = t /\ pc' = "merged"
      BY <3>2
    <3>30. PICK ps \in {PothenSun(parent, post, HigherDegree(L, Order))} :
            \E t \in {NewTree(L, post, ps)} :
              \/ t.nCliques > 1 /\ method = "parent_child" /\ tree' = t /\ next' = Len(t.snodePost) - 1 /\ pc' = "merging"
              \/ t.nCliques > 1 /\ method = "none" /\ tree' = t /\ pc' = "merged"
      BY <3>3
    <3>31. PICK t \in {NewTree(L, post, ps)} :
              \/ t.nCliques > 1 /\ method = "parent_child" /\ tree' = t /\ next' = Len(t.snodePost) - 1 /\ pc' = "merging"
              \/ t.nCliques > 1 /\ method = "none" /\ tree' = t /\ pc' = "merged"
      BY <3>30
    <3>4. /\ L = FindGraph(mask, ordering) /\ parent = ParentFromL(L, Order)
          /\ post = PostOrder(parent, ChildrenFromParent(parent))
          /\ ps = PothenSun(parent, post, HigherDegree(L, Order)) /\ t = NewTree(L, post, ps)
      OBVIOUS
    <3>5. Well(t) /\ InPostOrder(t) /\ Kept(t, mask, ordering)
      BY <1>1, <1>3, <3>4, FirstTreeIs
    <3>6. Waiting(t, Len(t.snodePost) - 1) /\ Len(t.snodePost) = t.nCliques /\ t.nCliques \in Nat
      <4>1. t.nCliques \in Nat
        BY <3>5 DEF Well, Trees
      <4>. QED  BY <3>5, <4>1, WaitingFirst
    <3>7. t.nCliques > 1 /\ tree' = t
      BY <3>31
    <3>8. Well(tree') /\ InPostOrder(tree') /\ Kept(tree', mask', ordering')
      BY <1>2, <2>1, <3>5, <3>7
    <3>9. CASE method = "parent_child" /\ next' = Len(t.snodePost) - 1 /\ pc' = "merging"
      <4>1. next' \in Nat \ {0} /\ Waiting(tree', next')
        BY <3>6, <3>7, <3>9
      <4>. QED  BY <1>2, <1>3, <2>1, <3>8, <3>9, <4>1 DEF Regular
    <3>10. CASE method = "none" /\ pc' = "merged"
      BY <1>2, <1>3, <2>1, <3>8, <3>10 DEF Regular
    <3>. QED  BY <3>31, <3>9, <3>10
  <2>. QED  BY <2>2, <2>3
<1>5. CASE MergeParentChild
  <2>. DEFINE c == tree.snodePost[next]
              p == tree.parent[c]
              u == MergeIntoParent(tree, p, c)
  <2>1. /\ pc = "merging" /\ method = "parent_child" /\ ordering' = ordering
        /\ tree' = (IF ParentChildWants(tree, p, c) THEN u ELSE tree) /\ next' = next - 1
        /\ pc' = (IF next = 1 \/ tree'.nCliques = 1 THEN "merged" ELSE "merging")
    BY <1>5 DEF MergeParentChild
  <2>2. next \in Nat /\ next # 0 /\ Waiting(tree, next) /\ Well(tree) /\ Kept(tree, mask, ordering)
    BY <1>3, <2>1 DEF Regular
  <2>3. /\ Well(u) /\ Waiting(u, next - 1) /\ Waiting(tree, next - 1)
        /\ \A v, w \in Vertices : Together(tree, v, w) => Together(u, v, w)
    <3>. DEFINE k == next
    <3>1. k \in Nat /\ k # 0 /\ Waiting(tree, k)
      BY <2>2
    <3>. QED  BY <2>2, <3>1, MergeStep
  <2>. HIDE DEF u, p, c
  <2>4. Kept(u, mask, ordering)
    BY <1>1, <1>3, <2>2, <2>3, KeptByMerge
  <2>5. Well(tree') /\ Waiting(tree', next') /\ Kept(tree', mask', ordering')
    BY <1>2, <2>1, <2>2, <2>3, <2>4
  <2>6. next' \in Nat /\ (pc' = "merging" => next' # 0)
    BY <2>1, <2>2
  <2>7. pc' \in {"merging", "merged"} /\ method' = "parent_child" /\ Reordering(ordering')
    BY <1>2, <1>3, <2>1
  <2>. QED  BY <2>5, <2>6, <2>7 DEF Regular
<1>6. CASE MergeOnGraph
  BY <1>6 DEF MergeOnGraph
<1>7. CASE StopMerging
  BY <1>7 DEF StopMerging
<1>8. CASE FinishPattern
  <2>0. PICK hung \in {IF method = "clique_graph" THEN HangCliques(tree, edges) ELSE tree} :
          \E t \in {IF method = "clique_graph" THEN PostProcessGraph(hung)
                    ELSE IF method = "parent_child" THEN PostProcessTree(tree) ELSE tree} :
          \E r \in {ReorderConsecutively(t, ordering)} :
             /\ tree' = BlockDimensions(r.tree) /\ ordering' = r.ordering
             /\ pc' = IF t.nCliques = 1 THEN "whole" ELSE "pattern"
    BY <1>8 DEF FinishPattern
  <2>10. PICK t \in {IF method = "clique_graph" THEN PostProcessGraph(hung)
                     ELSE IF method = "parent_child" THEN PostProcessTree(tree) ELSE tree} :
          \E r \in {ReorderConsecutively(t, ordering)} :
             /\ tree' = BlockDimensions(r.tree) /\ ordering' = r.ordering
             /\ pc' = IF t.nCliques = 1 THEN "whole" ELSE "pattern"
    BY <2>0
  <2>1. PICK r \in {ReorderConsecutively(t, ordering)} :
          /\ tree' = BlockDimensions(r.tree) /\ ordering' = r.ordering
          /\ pc' = IF t.nCliques = 1 THEN "whole" ELSE "pattern"
    BY <2>10
  <2>2. pc = "merged" /\ t = (IF method = "parent_child" THEN PostProcessTree(tree) ELSE tree)
        /\ r = ReorderConsecutively(t, ordering)
    BY <1>8, <2>1 DEF FinishPattern
  <2>3. Well(tree) /\ Kept(tree, mask, ordering) /\ (method = "none" => InPostOrder(tree))
    BY <1>3, <2>2 DEF Regular
  <2>4. Well(t) /\ InPostOrder(t) /\ \A v, w \in Vertices : Together(tree, v, w) => Together(t, v, w)
    <3>1. CASE method = "parent_child"
      <4>1. t = PostProcessTree(tree)
        BY <2>2, <3>1
      <4>. QED  BY <2>3, <4>1, PostProcessTreeIs
    <3>2. CASE method = "none"
      <4>1. t = tree
        BY <2>2, <3>2
      <4>. QED  BY <2>3, <3>2, <4>1
    <3>. QED  BY <1>1, <3>1, <3>2
  <2>5. Kept(t, mask, ordering)
    BY <1>1, <1>3, <2>3, <2>4, KeptByMerge
  <2>. DEFINE u == BlockDimensions(r.tree)
  <2>6. /\ Well(u) /\ InPostOrder(u) /\ Arranged(u) /\ Sized(u) /\ Reordering(r.ordering)
        /\ \A v, w \in Vertices : Together(t, InversePerm(ordering)[v], InversePerm(ordering)[w])
                                    => Together(u, InversePerm(r.ordering)[v], InversePerm(r.ordering)[w])
    <3>. DEFINE ord == ordering
    <3>1. r = ReorderConsecutively(t, ord) /\ Reordering(ord)
      BY <1>3, <2>2
    <3>. HIDE DEF ord
    <3>2. /\ Well(u) /\ InPostOrder(u) /\ Arranged(u) /\ Sized(u) /\ Reordering(r.ordering)
          /\ \A v, w \in Vertices : Together(t, InversePerm(ord)[v], InversePerm(ord)[w])
                                      => Together(u, InversePerm(r.ordering)[v], InversePerm(r.ordering)[w])
      BY <2>4, <3>1, ReorderIs
    <3>. QED  BY <3>2 DEF ord
  <2>7. tree' = u /\ ordering' = r.ordering /\ pc' \in {"whole", "pattern"}
    BY <2>1
  <2>. HIDE DEF u
  <2>8. Kept(u, mask, r.ordering)
    BY <1>1, <2>5, <2>6, KeptStays
  <2>9. Well(tree') /\ InPostOrder(tree') /\ Arranged(tree') /\ Sized(tree') /\ Kept(tree', mask', ordering') /\ Reordering(ordering')
    BY <1>2, <2>6, <2>7, <2>8
  <2>. QED  BY <2>7, <2>9 DEF Regular
<1>9. CASE Augment
  <2>1. pc = "pattern" /\ pc' = "augmented" /\ ordering' = ordering /\ tree' = tree
    BY <1>9 DEF Augment
  <2>2. Well(tree) /\ InPostOrder(tree) /\ Arranged(tree) /\ Sized(tree) /\ Kept(tree, mask, ordering)
    BY <1>3, <2>1 DEF Regular
  <2>3. Well(tree') /\ InPostOrder(tree') /\ Arranged(tree') /\ Sized(tree') /\ Kept(tree', mask', ordering') /\ Reordering(ordering')
    BY <1>2, <1>3, <2>1, <2>2
  <2>4. Made'
    <3>1. Stack /\ OneToOne(ordering)
      <4>1. Order \in Nat \ {0}
        BY DEF OrderAssumption
      <4>. QED  BY <1>3, <2>2, <4>1, StackIs, ReorderingIsOneToOne
    <3>2. \A k \in mask : Carries(RowsBefore + k)
      BY <1>1, <2>2, <3>1, MaskCarried
    <3>3. PICK src \in Sources : problem' = ProblemOf(src)
      BY <1>9 DEF Augment
    <3>4. (\A e \in problem'.A : Carries(e.row)) /\ \A o \in problem'.b : Carries(o)
      BY <3>2, <3>3, SourcesCarried
    <3>5. augmented' = Augmentation(problem'.A, problem'.b, Blocks)
      <4>1. PICK blocks \in {Blocks} : augmented' = Augmentation(problem'.A, problem'.b, blocks)
        BY <1>9 DEF Augment
      <4>2. blocks = Blocks
        OBVIOUS
      <4>. QED  BY <4>1, <4>2
    <3>. QED  BY <2>1, <3>4, <3>5, MadeNext
  <2>. QED  BY <2>1, <2>3, <2>4 DEF Regular
<1>10. CASE Finished \/ UNCHANGED vars
  <2>1. UNCHANGED vars
    BY <1>10 DEF Finished
  <2>2. pc = "augmented" => Made'
    <3>. SUFFICES ASSUME pc = "augmented" PROVE Made'
      OBVIOUS
    <3>1. Made
      BY <1>3 DEF Regular
    <3>2. tree' = tree /\ ordering' = ordering /\ augmented' = augmented /\ problem' = problem
      BY <2>1 DEF vars
    <3>3. augmented' = Augmentation(problem'.A, problem'.b, Blocks)
      BY <3>1, <3>2 DEF Made
    <3>4. (\A e \in problem'.A : Carries(e.row)) /\ \A o \in problem'.b : Carries(o)
      BY <3>1, <3>2 DEF Made
    <3>. QED  BY <3>2, <3>3, <3>4, MadeNext
  <2>. QED  BY <1>3, <2>1, <2>2 DEF Regular, vars
<1>. QED  BY <1>4, <1>5, <1>6, <1>7, <1>8, <1>9, <1>10 DEF Next

-----------------------------------------------------------------------------
(* What the properties state                                                *)

\* Whatever cone, sparsity pattern and elimination order, the state of the
\* decomposition is regular: ordering is a permutation, the parent-child strategy
\* finds a parent for every clique it comes to, and the tree it leaves is a clique
\* tree in post order whose supernodes are numbered consecutively.
THEOREM PatternAlways == Spec => []PatternInv
<1>1. Init => PatternInv
  BY OrderAssumption, InitPattern
<1>2. PatternInv /\ [Next]_vars => PatternInv'
  BY OrderAssumption, NextPattern
<1>. QED  BY <1>1, <1>2, PTL DEF Spec

\* No merge or renumbering loses an entry, and what the strategies "none" and
\* "parent_child" leave is a clique tree (SparsityPattern::new, for every order of
\* the cone, mask, elimination order and thresholds).
THEOREM CliqueTreeAlways == Spec => [](method # "clique_graph" => TreeIsCliqueTree)
<1>1. PatternInv => (method # "clique_graph" => TreeIsCliqueTree)
  <2>. SUFFICES ASSUME PatternInv, method # "clique_graph" PROVE TreeIsCliqueTree
    OBVIOUS
  <2>1. Regular
    BY DEF PatternInv
  <2>2. pc \in {"merging", "merged", "pattern", "augmented"} => Covered
    BY <2>1, KeptIsCovered DEF Regular
  <2>3. ASSUME pc \in {"pattern", "augmented"} PROVE CliqueTreeHolds
    <3>1. Well(tree) /\ InPostOrder(tree)
      BY <2>1, <2>3 DEF Regular
    <3>. QED  BY <3>1, WellIsCliqueTree
  <2>. QED  BY <2>2, <2>3 DEF TreeIsCliqueTree, CliqueTreeHolds
<1>. QED  BY <1>1, PatternAlways, PTL

\* psd_complete on such a pattern reads only entries that are known, overwrites
\* none that a clique fixes, and completes the whole matrix.
THEOREM CompletionAlways == Spec => [](method # "clique_graph" => CompletionReadsKnown)
<1>1. PatternInv => (method # "clique_graph" => CompletionReadsKnown)
  <2>. SUFFICES ASSUME PatternInv, method # "clique_graph", pc \in {"pattern", "augmented"}
                PROVE  PsdComplete.sound /\ PsdComplete.known = Vertices \X Vertices
    BY DEF CompletionReadsKnown
  <2>1. Well(tree) /\ InPostOrder(tree) /\ Arranged(tree)
    BY DEF PatternInv, Regular
  <2>. QED  BY <2>1, PsdCompleteIs
<1>. QED  BY <1>1, PatternAlways, PTL

\* Of a finished pattern the blocks and the copies of their rows are as Stack says.
LEMMA PatternStacks == PatternInv /\ method # "clique_graph" /\ pc \in {"pattern", "augmented"} => Stack
<1>. SUFFICES ASSUME PatternInv, method # "clique_graph", pc \in {"pattern", "augmented"} PROVE Stack
  OBVIOUS
<1>1. Well(tree) /\ InPostOrder(tree) /\ Reordering(ordering) /\ Sized(tree)
  BY DEF PatternInv, Regular
<1>. QED  BY <1>1, OrderAssumption, StackIs

\* adjoint_decomp_reverse_compact is the transpose of decomp_reverse_compact, on
\* the maps made of such a pattern.
THEOREM AdjointAlways == Spec => [](method # "clique_graph" => AdjointIsTranspose)
<1>1. PatternInv => (method # "clique_graph" => AdjointIsTranspose)
  <2>. SUFFICES ASSUME PatternInv, method # "clique_graph" PROVE AdjointIsTranspose
    OBVIOUS
  <2>1. CASE pc # "augmented"
    BY <2>1 DEF AdjointIsTranspose
  <2>2. CASE pc = "augmented"
    <3>1. Stack
      BY <2>2, PatternStacks
    <3>2. Made
      BY <2>2 DEF PatternInv, Regular
    <3>3. augmented.reverse = ReverseMap
      BY <3>2, MadeIs
    <3>4. PICK m \in Nat : DOMAIN ReverseMap = 0..(m - 1) /\ \A r \in 0..(m - 1) : ReverseMap[r] \in OriginalRows
      BY <3>1, ReversedRows
    <3>. QED  BY <3>3, <3>4, AdjointHolds
  <2>. QED  BY <2>1, <2>2
<1>. QED  BY <1>1, PatternAlways, PTL

\* The maps between the rows of a decomposed cone and its cliques agree: an
\* original entry has one place that is no overlap and comes back from it, the
\* other places are tied to it by one overlap column each, and the sizes counted
\* before the split are those found after it.
THEOREM CopiesAlways == Spec => [](method # "clique_graph" => CopiesAgree)
<1>1. PatternInv => (method # "clique_graph" => CopiesAgree)
  <2>. SUFFICES ASSUME PatternInv, method # "clique_graph" PROVE CopiesAgree
    OBVIOUS
  <2>1. CASE pc # "augmented"
    BY <2>1 DEF CopiesAgree
  <2>2. CASE pc = "augmented"
    <3>1. Stack
      BY <2>2, PatternStacks
    <3>2. Made /\ Coordinates(mask) /\ Reordering(ordering)
      BY <2>2 DEF PatternInv, Regular
    <3>3. OneToOne(ordering)
      BY <3>2, OrderAssumption, ReorderingIsOneToOne DEF OrderAssumption
    <3>. QED  BY <3>1, <3>2, <3>3, CopiesHold
  <2>. QED  BY <2>1, <2>2
<1>. QED  BY <1>1, PatternAlways, PTL

\* The row maps of the batch path put every value where the direct decomposition
\* puts it.
THEOREM BatchAlways == Spec => [](method # "clique_graph" => BatchMatchesDirect)
<1>1. PatternInv => (method # "clique_graph" => BatchMatchesDirect)
  <2>. SUFFICES ASSUME PatternInv, method # "clique_graph" PROVE BatchMatchesDirect
    OBVIOUS
  <2>1. CASE pc # "augmented"
    BY <2>1 DEF BatchMatchesDirect
  <2>2. CASE pc = "augmented"
    <3>1. RowsFit
      BY <2>2, PatternStacks, RowsFitIs
    <3>2. Made
      BY <2>2 DEF PatternInv, Regular
    <3>. QED  BY <3>1, <3>2, BatchHolds
  <2>. QED  BY <2>1, <2>2
<1>. QED  BY <1>1, PatternAlways, PTL
=============================================================================

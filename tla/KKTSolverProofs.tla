----------------------------- MODULE KKTSolverProofs -----------------------------
(***************************************************************************)
(* Proofs about the KKT solver, for every pattern, list of cones, ordering *)
(* and engine.  Two invariants carry them.  ControlOK follows the versions *)
(* of the two solutions of a step and what the refinement keeps; it needs  *)
(* nothing else.  MatricesOK says what KKT and the engine's copy hold in   *)
(* every slot; it rests on the conditions MapFits on the map that the      *)
(* assembly makes.  The assembly counts and fills by recursion over data,  *)
(* so that AssemblyFits is checked by TLC and a premise here; the theorems *)
(* say that the loads, rescalings, updates, factorizations, refinements    *)
(* and failures of a whole life never leave a stale or misplaced number.   *)
(***************************************************************************)
EXTENDS KKTSolver, FiniteSetTheorems, TLAPS

-----------------------------------------------------------------------------
(* Operators: writing by slots, and permutations made by counting.          *)

\* Writing values at slots that are all different changes exactly these slots.
LEMMA Written ==
  ASSUME NEW K, NEW slots, NEW values, OneToOne(slots)
  PROVE  /\ DOMAIN WriteKKT(K, slots, values) = DOMAIN K
         /\ \A s \in DOMAIN K :
              (\A k \in DOMAIN slots : slots[k] # s) => WriteKKT(K, slots, values)[s] = K[s]
         /\ \A k \in DOMAIN slots :
              slots[k] \in DOMAIN K => WriteKKT(K, slots, values)[slots[k]] = values[k]
<1>1. ASSUME NEW k \in DOMAIN slots
      PROVE  (CHOOSE j \in DOMAIN slots : slots[j] = slots[k]) = k
  BY DEF OneToOne
<1>. QED  BY <1>1 DEF WriteKKT

\* A permutation of 0..(dim - 1) hits everything, and InversePerm undoes it.
LEMMA PermutationIsBijection ==
  ASSUME NEW dim \in Nat, NEW f, IsPermutation(f, dim)
  PROVE  /\ \A v \in 0..(dim - 1) : \E i \in 0..(dim - 1) : f[i] = v
         /\ InversePerm(f) \in [0..(dim - 1) -> 0..(dim - 1)]
         /\ \A i \in 0..(dim - 1) : InversePerm(f)[f[i]] = i /\ f[InversePerm(f)[i]] = i
<1>. DEFINE I == 0..(dim - 1)
<1>1. IsFiniteSet(I)
  BY FS_Interval
<1>2. f \in Injection(I, I)
  BY DEF IsPermutation, Injection, IsInjective
<1>3. f \in Surjection(I, I)
  BY <1>1, <1>2, FS_Injection
<1>4. \A v \in I : \E i \in I : f[i] = v
  BY <1>3 DEF Surjection
<1>5. DOMAIN f = I /\ \A i \in I : f[i] \in I
  BY DEF IsPermutation
<1>6. InversePerm(f) = [v \in I |-> CHOOSE i \in I : f[i] = v]
  BY <1>5 DEF InversePerm
<1>7. \A v \in I : InversePerm(f)[v] \in I /\ f[InversePerm(f)[v]] = v
  BY <1>4, <1>6
<1>8. InversePerm(f) \in [I -> I]
  BY <1>6, <1>7
<1>9. \A i \in I : InversePerm(f)[f[i]] = i
  BY <1>5, <1>7 DEF IsPermutation
<1>. QED  BY <1>4, <1>7, <1>8, <1>9

\* The number of what comes before, in a strict total order, is a permutation.
LEMMA RankIsPermutation ==
  ASSUME NEW n \in Nat, NEW below \in [0..(n - 1) -> SUBSET (0..(n - 1))],
         \A s \in 0..(n - 1) : s \notin below[s],
         \A s, t \in 0..(n - 1) : s # t => s \in below[t] \/ t \in below[s],
         \A s, t \in 0..(n - 1) : s \in below[t] => below[s] \subseteq below[t]
  PROVE  IsPermutation([s \in 0..(n - 1) |-> Cardinality(below[s])], n)
<1>. DEFINE I == 0..(n - 1)
<1>1. IsFiniteSet(I) /\ Cardinality(I) = n
  BY FS_Interval
<1>2. \A s \in I : IsFiniteSet(below[s]) /\ Cardinality(below[s]) \in Nat
  BY <1>1, FS_Subset, FS_CardinalityType
<1>3. ASSUME NEW s \in I, NEW t, t \in SUBSET I, s \notin below[s], s \in t, below[s] \subseteq t
      PROVE  Cardinality(below[s]) < Cardinality(t) /\ Cardinality(t) <= n
  <2>1. /\ below[s] \in SUBSET (t \ {s})
        /\ IsFiniteSet(t) /\ Cardinality(t) <= n
    <3>1. below[s] \in SUBSET (t \ {s})
      BY <1>3
    <3>2. IsFiniteSet(t) /\ Cardinality(t) <= n
      <4>1. t \in SUBSET I
        BY <1>3
      <4>. HIDE DEF I
      <4>. QED  BY <1>1, <4>1, FS_Subset
    <3>. QED  BY <3>1, <3>2
  <2>2. IsFiniteSet(t \ {s}) /\ Cardinality(t \ {s}) = Cardinality(t) - 1
    BY <2>1, <1>3, FS_RemoveElement
  <2>3. Cardinality(below[s]) <= Cardinality(t \ {s})
    BY <2>1, <2>2, FS_Subset
  <2>4. Cardinality(t) \in Nat
    BY <2>1, FS_CardinalityType
  <2>. QED  BY <1>2, <2>1, <2>2, <2>3, <2>4
<1>4. \A s \in I : Cardinality(below[s]) \in I
  BY <1>1, <1>2, <1>3
<1>5. ASSUME NEW s \in I, NEW t \in I, s \in below[t]
      PROVE  Cardinality(below[s]) < Cardinality(below[t])
  BY <1>3, <1>5
<1>6. ASSUME NEW s \in I, NEW t \in I, Cardinality(below[s]) = Cardinality(below[t])
      PROVE  s = t
  BY <1>2, <1>5, <1>6
<1>. QED  BY <1>4, <1>6 DEF IsPermutation

\* Permutations compose and can be inverted.
LEMMA PermuteIsPermutation ==
  ASSUME NEW dim \in Nat, NEW f, NEW g, IsPermutation(f, dim), IsPermutation(g, dim)
  PROVE  IsPermutation(PermuteArray(f, g), dim)
BY DEF IsPermutation, PermuteArray

LEMMA InverseIsPermutation ==
  ASSUME NEW dim \in Nat, NEW f, IsPermutation(f, dim)
  PROVE  IsPermutation(InversePerm(f), dim)
<1>1. /\ InversePerm(f) \in [0..(dim - 1) -> 0..(dim - 1)]
      /\ \A i \in 0..(dim - 1) : f[InversePerm(f)[i]] = i
  BY PermutationIsBijection
<1>. QED  BY <1>1 DEF IsPermutation

\* Pulling rows to the front of an elimination order keeps it one.
LEMMA PullToFrontIsPermutation ==
  ASSUME NEW dim \in Nat, NEW order, NEW wanted, IsPermutation(order, dim)
  PROVE  IsPermutation(PullToFront(order, dim, wanted), dim)
<1>. DEFINE I == 0..(dim - 1)
            Wanted(i) == order[i] \in wanted
            Before(j, i) == IF Wanted(j) = Wanted(i) THEN j < i ELSE Wanted(j)
            below == [i \in I |-> {j \in I : Before(j, i)}]
            rank == [i \in I |-> Cardinality({j \in I : Before(j, i)})]
<1>1. \A s \in I : s \notin below[s]
  OBVIOUS
<1>2. \A s, t \in I : s # t => s \in below[t] \/ t \in below[s]
  OBVIOUS
<1>3. \A s, t \in I : s \in below[t] => below[s] \subseteq below[t]
  OBVIOUS
<1>4. below \in [I -> SUBSET I]
  OBVIOUS
<1>5. IsPermutation([s \in I |-> Cardinality(below[s])], dim)
  <2>. HIDE DEF below
  <2>. QED  BY <1>1, <1>2, <1>3, <1>4, RankIsPermutation
<1>6. rank = [s \in I |-> Cardinality(below[s])]
  OBVIOUS
<1>7. IsPermutation(rank, dim)
  BY <1>5, <1>6
<1>8. PullToFront(order, dim, wanted) = PermuteArray(order, InversePerm(rank))
  BY DEF PullToFront
<1>. HIDE DEF rank
<1>. QED  BY <1>7, <1>8, InverseIsPermutation, PermuteIsPermutation

\* So is the place by keys, equal keys in the order they had.
LEMMA StableSortIsPermutation ==
  ASSUME NEW n \in Nat, NEW key, \A s \in 0..(n - 1) : key[s] \in Int
  PROVE  IsPermutation([s \in 0..(n - 1) |->
             Cardinality({t \in 0..(n - 1) : key[t] < key[s]})
               + Cardinality({t \in 0..(s - 1) : key[t] = key[s]})], n)
<1>. DEFINE I == 0..(n - 1)
            before(s) == {t \in I : key[t] < key[s]}
            ties(s) == {t \in 0..(s - 1) : key[t] = key[s]}
            below == [s \in I |-> before(s) \cup ties(s)]
<1>1. IsFiniteSet(I)
  BY FS_Interval
<1>2. ASSUME NEW s \in I
      PROVE  /\ Cardinality(before(s)) + Cardinality(ties(s)) = Cardinality(below[s])
             /\ below[s] \in SUBSET I
  <2>1. ties(s) \in SUBSET I /\ before(s) \in SUBSET I /\ before(s) \cap ties(s) = {}
    OBVIOUS
  <2>2. IsFiniteSet(before(s)) /\ IsFiniteSet(ties(s))
    BY <1>1, <2>1, FS_Subset
  <2>3. Cardinality(before(s) \cup ties(s)) = Cardinality(before(s)) + Cardinality(ties(s))
    <3>. HIDE DEF before, ties
    <3>1. /\ Cardinality(before(s) \cup ties(s))
               = Cardinality(before(s)) + Cardinality(ties(s)) - Cardinality(before(s) \cap ties(s))
          /\ Cardinality(before(s)) \in Nat /\ Cardinality(ties(s)) \in Nat
      BY <2>2, FS_Union, FS_CardinalityType
    <3>2. Cardinality(before(s) \cap ties(s)) = 0
      BY <2>1, FS_EmptySet
    <3>. QED  BY <3>1, <3>2
  <2>. QED  BY <2>1, <2>3
<1>3. \A s \in I : s \notin below[s]
  OBVIOUS
<1>4. \A s, t \in I : s # t => s \in below[t] \/ t \in below[s]
  OBVIOUS
<1>5. \A s, t \in I : s \in below[t] => below[s] \subseteq below[t]
  OBVIOUS
<1>6. below \in [I -> SUBSET I]
  <2>. HIDE DEF before, ties
  <2>. QED  BY <1>2
<1>7. IsPermutation([s \in I |-> Cardinality(below[s])], n)
  <2>. HIDE DEF below
  <2>. QED  BY <1>3, <1>4, <1>5, <1>6, RankIsPermutation
<1>8. [s \in I |-> Cardinality(before(s)) + Cardinality(ties(s))] = [s \in I |-> Cardinality(below[s])]
  <2>. HIDE DEF before, ties, below
  <2>. QED  BY <1>2
<1>. QED  BY <1>7, <1>8

\* And the place by column and row, where no two entries have both in common.
LEMMA ColumnSortIsPermutation ==
  ASSUME NEW n \in Nat, NEW at,
         \A d \in 0..(n - 1) : at[d].row \in Int /\ at[d].col \in Int,
         \A d, e \in 0..(n - 1) : at[d].row = at[e].row /\ at[d].col = at[e].col => d = e
  PROVE  IsPermutation([d \in 0..(n - 1) |-> Cardinality({x \in 0..(n - 1) :
             \/ at[x].col < at[d].col
             \/ at[x].col = at[d].col /\ at[x].row < at[d].row})], n)
<1>. DEFINE I == 0..(n - 1)
            below == [d \in I |-> {x \in I : \/ at[x].col < at[d].col
                                             \/ at[x].col = at[d].col /\ at[x].row < at[d].row}]
<1>1. \A s \in I : s \notin below[s]
  OBVIOUS
<1>2. \A s, t \in I : s # t => s \in below[t] \/ t \in below[s]
  OBVIOUS
<1>3. \A s, t \in I : s \in below[t] => below[s] \subseteq below[t]
  OBVIOUS
<1>4. below \in [I -> SUBSET I]
  OBVIOUS
<1>5. IsPermutation([s \in I |-> Cardinality(below[s])], n)
  <2>. HIDE DEF below
  <2>. QED  BY <1>1, <1>2, <1>3, <1>4, RankIsPermutation
<1>. QED  BY <1>5

\* The copy of an engine in its own order: every slot has one slot in the copy,
\* where the permuted row and column are.
CopyLaid(mp, perm, c) ==
  /\ IsPermutation(perm, mp.dim) /\ IsPermutation(c.to, mp.nnz)
  /\ DOMAIN c.at = 0..(mp.nnz - 1)
  /\ \A d \in DOMAIN c.at : c.at[d].row \in 0..(mp.dim - 1) /\ c.at[d].col \in 0..(mp.dim - 1)
  /\ \A s \in 0..(mp.nnz - 1) :
       Position(perm[c.at[c.to[s]].row], perm[c.at[c.to[s]].col]) = PositionAt(mp.at, s)

\* The cursor of a column is a place for every entry, and no two share it.
LEMMA PermuteSymmetricLaid ==
  ASSUME NEW mp, NEW order, SlotsLaid(mp), IsPermutation(order, mp.dim)
  PROVE  CopyLaid(mp, order, PermuteSymmetric(mp.at, InversePerm(order), mp.dim))
<1>. DEFINE K == mp.at
            I == 0..(mp.nnz - 1)
            R == 0..(mp.dim - 1)
            iperm == InversePerm(order)
            colOf == [s \in DOMAIN K |-> ColumnAfter(K[s], iperm)]
            rowOf == [s \in DOMAIN K |-> Min2(iperm[K[s].row], iperm[K[s].col])]
            Start(c) == Cardinality({s \in DOMAIN K : colOf[s] < c})
            start == [c \in 0..(mp.dim - 1) |-> Start(c)]
            Cursor(s) == start[colOf[s]] + Cardinality({t \in 0..(s - 1) : colOf[t] = colOf[s]})
            to == [s \in DOMAIN K |-> Cursor(s)]
            from == InversePerm(to)
            at == [d \in DOMAIN K |-> [row |-> rowOf[from[d]], col |-> colOf[from[d]]]]
<1>1. PermuteSymmetric(mp.at, InversePerm(order), mp.dim) = [to |-> to, at |-> at]
  BY DEF PermuteSymmetric
<1>2. /\ mp.dim \in Nat /\ mp.nnz \in Nat /\ DOMAIN K = I
      /\ \A s \in I : K[s].row \in R /\ K[s].col \in R
  BY DEF SlotsLaid
<1>3. /\ iperm \in [R -> R] /\ order \in [R -> R]
      /\ \A r \in R : order[iperm[r]] = r
  BY <1>2, PermutationIsBijection DEF IsPermutation
<1>. HIDE DEF iperm, K
<1>4. \A s \in I : /\ colOf[s] = Max2(iperm[K[s].row], iperm[K[s].col]) /\ colOf[s] \in R
                   /\ rowOf[s] = Min2(iperm[K[s].row], iperm[K[s].col]) /\ rowOf[s] \in R
  BY <1>2, <1>3 DEF ColumnAfter, Max2, Min2
<1>. HIDE DEF colOf, rowOf
<1>5. IsPermutation(to, mp.nnz)
  <2>1. ASSUME NEW n \in Nat, n = mp.nnz
        PROVE  IsPermutation([s \in 0..(n - 1) |->
                   Cardinality({t \in 0..(n - 1) : colOf[t] < colOf[s]})
                     + Cardinality({t \in 0..(s - 1) : colOf[t] = colOf[s]})], n)
    <3>1. \A s \in 0..(n - 1) : colOf[s] \in Int
      BY <1>2, <1>4, <2>1
    <3>. QED  BY <3>1, StableSortIsPermutation
  <2>2. to = [s \in I |-> Cardinality({t \in I : colOf[t] < colOf[s]})
                            + Cardinality({t \in 0..(s - 1) : colOf[t] = colOf[s]})]
    BY <1>2, <1>4
  <2>. HIDE DEF to
  <2>. QED  BY <1>2, <2>1, <2>2
<1>. HIDE DEF to
<1>6. /\ to \in [I -> I] /\ from \in [I -> I]
      /\ \A s \in I : from[to[s]] = s
  BY <1>2, <1>5, PermutationIsBijection DEF IsPermutation
<1>. HIDE DEF from
<1>7. \A d \in DOMAIN at : at[d].row \in R /\ at[d].col \in R
  BY <1>2, <1>4, <1>6
<1>8. ASSUME NEW s \in I
      PROVE  Position(order[at[to[s]].row], order[at[to[s]].col]) = PositionAt(K, s)
  <2>1. at[to[s]] = [row |-> rowOf[s], col |-> colOf[s]]
    BY <1>2, <1>6
  <2>2. \/ rowOf[s] = iperm[K[s].row] /\ colOf[s] = iperm[K[s].col]
        \/ rowOf[s] = iperm[K[s].col] /\ colOf[s] = iperm[K[s].row]
    BY <1>2, <1>3, <1>4 DEF Max2, Min2
  <2>3. \/ order[rowOf[s]] = K[s].row /\ order[colOf[s]] = K[s].col
        \/ order[rowOf[s]] = K[s].col /\ order[colOf[s]] = K[s].row
    BY <1>2, <1>3, <2>2
  <2>4. K[s].row \in Int /\ K[s].col \in Int
    BY <1>2
  <2>. QED  BY <2>1, <2>3, <2>4 DEF Position, PositionAt, Max2, Min2
<1>9. DOMAIN at = I
  BY <1>2
<1>. QED
  <2>. HIDE DEF at
  <2>1. CopyLaid(mp, order, [to |-> to, at |-> at])
    BY <1>5, <1>7, <1>8, <1>9 DEF CopyLaid, K
  <2>. QED  BY <1>1, <2>1

\* Sorting the columns moves the entries and the map to them alike.
LEMMA SortColumnsLaid ==
  ASSUME NEW mp, NEW perm, NEW c, SlotsLaid(mp), CopyLaid(mp, perm, c)
  PROVE  CopyLaid(mp, perm, SortColumns(c))
<1>. DEFINE I == 0..(mp.nnz - 1)
            R == 0..(mp.dim - 1)
            Before(a, b) == \/ c.at[a].col < c.at[b].col
                            \/ c.at[a].col = c.at[b].col /\ c.at[a].row < c.at[b].row
            rank == [d \in DOMAIN c.at |-> Cardinality({x \in DOMAIN c.at : Before(x, d)})]
            to == [s \in DOMAIN c.to |-> rank[c.to[s]]]
            at == PermuteArray(c.at, InversePerm(rank))
<1>1. SortColumns(c) = [to |-> to, at |-> at]
  BY DEF SortColumns
<1>2. /\ mp.nnz \in Nat /\ mp.dim \in Nat /\ c.to \in [I -> I] /\ DOMAIN c.at = I
      /\ \A d \in I : c.at[d].row \in R /\ c.at[d].col \in R
      /\ \A d \in I : \E s \in I : c.to[s] = d
  <2>1. mp.nnz \in Nat /\ mp.dim \in Nat /\ IsPermutation(c.to, mp.nnz)
    BY DEF SlotsLaid, CopyLaid
  <2>2. \A d \in I : \E s \in I : c.to[s] = d
    BY <2>1, PermutationIsBijection
  <2>. QED  BY <2>1, <2>2 DEF CopyLaid, IsPermutation
<1>3. ASSUME NEW d \in I, NEW e \in I, c.at[d].row = c.at[e].row, c.at[d].col = c.at[e].col
      PROVE  d = e
  <2>1. PICK s \in I : c.to[s] = d
    BY <1>2
  <2>2. PICK t \in I : c.to[t] = e
    BY <1>2
  <2>3. PositionAt(mp.at, s) = PositionAt(mp.at, t)
    BY <1>3, <2>1, <2>2 DEF CopyLaid
  <2>. QED  BY <2>1, <2>2, <2>3 DEF SlotsLaid
<1>4. IsPermutation(rank, mp.nnz)
  <2>1. ASSUME NEW n \in Nat, n = mp.nnz
        PROVE  IsPermutation([d \in 0..(n - 1) |-> Cardinality({x \in 0..(n - 1) : Before(x, d)})], n)
    <3>1. \A d \in 0..(n - 1) : c.at[d].row \in Int /\ c.at[d].col \in Int
      BY <1>2, <2>1
    <3>2. \A d, e \in 0..(n - 1) : c.at[d].row = c.at[e].row /\ c.at[d].col = c.at[e].col => d = e
      BY <1>3, <2>1
    <3>. QED  BY <3>1, <3>2, ColumnSortIsPermutation
  <2>2. rank = [d \in I |-> Cardinality({x \in I : Before(x, d)})]
    BY <1>2
  <2>. HIDE DEF rank
  <2>. QED  BY <1>2, <2>1, <2>2
<1>. HIDE DEF rank
<1>5. /\ rank \in [I -> I] /\ InversePerm(rank) \in [I -> I]
      /\ \A i \in I : InversePerm(rank)[rank[i]] = i
  BY <1>2, <1>4, PermutationIsBijection DEF IsPermutation
<1>6. IsPermutation(to, mp.nnz)
  <2>1. DOMAIN c.to = I /\ \A s \in I : c.to[s] \in I
    BY <1>2
  <2>2. \A d \in I : rank[d] \in I
    BY <1>5
  <2>3. to \in [I -> I] /\ \A s \in I : to[s] = rank[c.to[s]]
    BY <2>1, <2>2
  <2>4. /\ \A d, e \in I : rank[d] = rank[e] => d = e
        /\ \A s, t \in I : c.to[s] = c.to[t] => s = t
    BY <1>4 DEF CopyLaid, IsPermutation
  <2>5. \A s, t \in I : rank[c.to[s]] = rank[c.to[t]] => s = t
    BY <2>1, <2>4
  <2>. HIDE DEF to
  <2>. QED  BY <2>3, <2>5 DEF IsPermutation
<1>7. /\ DOMAIN at = I
      /\ \A d \in DOMAIN at : at[d].row \in R /\ at[d].col \in R
      /\ \A s \in I : at[to[s]] = c.at[c.to[s]]
  BY <1>2, <1>5 DEF PermuteArray
<1>8. CopyLaid(mp, perm, [to |-> to, at |-> at])
  <2>. HIDE DEF to, at
  <2>. QED  BY <1>6, <1>7 DEF CopyLaid
<1>. QED  BY <1>1, <1>8

\* The copy that an engine makes holds every entry once, where it belongs.
LEMMA NewCopyLaid ==
  ASSUME NEW mp, NEW order, SlotsLaid(mp), IsPermutation(order, mp.dim)
  PROVE  /\ CopyLaid(mp, order, NewCopy(mp.at, mp.dim, order))
         /\ NewCopy(mp.at, mp.dim, order).perm = order
<1>. DEFINE plain == PermuteSymmetric(mp.at, InversePerm(order), mp.dim)
            c == IF engine = "faer" THEN SortColumns(plain) ELSE plain
<1>1. CopyLaid(mp, order, c)
  BY PermuteSymmetricLaid, SortColumnsLaid
<1>2. NewCopy(mp.at, mp.dim, order) = [perm |-> order, to |-> c.to, at |-> c.at]
  BY DEF NewCopy
<1>. HIDE DEF c
<1>3. CopyLaid(mp, order, [perm |-> order, to |-> c.to, at |-> c.at])
  BY <1>1 DEF CopyLaid
<1>. QED  BY <1>2, <1>3

-----------------------------------------------------------------------------
(* One factorization for the two parts of a step, and what the refinement   *)
(* keeps: facts about the control alone.                                    *)

\* The solution for the constant right-hand side is that of the factorization
\* in use, both parts of a step are of one factorization, and the solution that
\* is kept has the least of the norms seen.
Kept(st) == /\ st.seen \subseteq Nat /\ st.kept \in st.seen
            /\ \A norm \in st.seen : st.kept <= norm
ControlOK ==
  /\ Factored => x2 = Version
  /\ step.x1 = step.x2
  /\ step = NoStep \/ Kept(step)
  /\ pc = "refining" => Kept(step)
  /\ step = [x1 |-> step.x1, x2 |-> step.x2, seen |-> step.seen, kept |-> step.kept]

LEMMA ControlInit == Init => ControlOK
  BY DEF Init, ControlOK, Factored, NoStep, NoVersion

\* A refined solution is taken only if its residual is no larger.
LEMMA TakesLess ==
  ASSUME NEW last \in Nat, NEW next \in Nat
  PROVE  /\ Takes(last, next) => next <= last
         /\ ~Takes(last, next) => last <= next
<1>1. StopRatio \in Nat /\ StopRatio >= 1
  BY RefinementAssumption
<1>2. StopRatio * next >= next
  BY <1>1
<1>. QED  BY <1>1, <1>2 DEF Takes

LEMMA ControlStep == ControlOK /\ [Next]_vars => ControlOK'
<1>. SUFFICES ASSUME ControlOK, [Next]_vars PROVE ControlOK'
  OBVIOUS
<1>. USE DEF ControlOK, Factored, Version, Kept
<1>1. CASE Construct
  BY <1>1 DEF Construct
<1>2. CASE LoadData \/ UpdateSettings
  BY <1>2 DEF LoadData, UpdateSettings
<1>3. CASE Rescale
  BY <1>3 DEF Rescale
<1>4. CASE Update
  <2>1. /\ UNCHANGED <<dataVer, scaleVer, step>>
        /\ \E factors, constant \in BOOLEAN :
             /\ x2' = IF factors /\ constant THEN Version ELSE x2
             /\ pc' = IF UpdateSucceeds(factors, constant) THEN "ready" ELSE "failed"
    BY <1>4 DEF Update
  <2>. QED  BY <2>1 DEF UpdateSucceeds
<1>5. CASE Solve
  <2>1. UNCHANGED <<dataVer, scaleVer, x2>> /\ pc = "ready"
    BY <1>5 DEF Solve, unrefined
  <2>2. PICK norm \in Norms \cup {NotFinite} :
           \/ Rejects(norm) /\ Fail
           \/ /\ ~Rejects(norm)
              /\ step' = [x1 |-> Version, x2 |-> x2, seen |-> {norm}, kept |-> norm]
              /\ rounds' = 0 /\ pc' = "refining"
    BY <1>5 DEF Solve
  <2>3. CASE Rejects(norm) /\ Fail
    BY <2>1, <2>3 DEF Fail, NoStep, NoVersion
  <2>4. CASE ~Rejects(norm) /\ pc' = "refining"
             /\ step' = [x1 |-> Version, x2 |-> x2, seen |-> {norm}, kept |-> norm]
    <3>1. norm \in Nat
      BY <2>4, RefinementAssumption DEF Rejects
    <3>. QED  BY <2>1, <2>4, <3>1
  <2>. QED  BY <2>2, <2>3, <2>4
<1>6. CASE Refine
  <2>1. UNCHANGED <<dataVer, scaleVer, x2>> /\ pc = "refining"
    BY <1>6 DEF Refine, unrefined
  <2>2. PICK norm \in Norms \cup {NotFinite} :
           \/ Rejects(norm) /\ Fail
           \/ /\ ~Rejects(norm)
              /\ step' = [step EXCEPT !.seen = @ \cup {norm},
                                      !.kept = IF Takes(@, norm) THEN norm ELSE @]
              /\ rounds' = rounds + 1
              /\ pc' = IF step.kept < StopRatio * norm THEN "ready" ELSE "refining"
    BY <1>6 DEF Refine
  <2>3. CASE Rejects(norm) /\ Fail
    BY <2>1, <2>3 DEF Fail, NoStep, NoVersion
  <2>4. CASE ~Rejects(norm) /\ pc' \in {"ready", "refining"}
             /\ step' = [step EXCEPT !.seen = @ \cup {norm},
                                     !.kept = IF Takes(@, norm) THEN norm ELSE @]
    <3>1. norm \in Nat /\ step.kept \in Nat
      BY <2>1, <2>4, RefinementAssumption DEF Rejects
    <3>2. step' = [x1 |-> step.x1, x2 |-> step.x2, seen |-> step.seen \cup {norm},
                   kept |-> IF Takes(step.kept, norm) THEN norm ELSE step.kept]
      BY <2>4
    <3>3. Kept(step')
      BY <2>1, <3>1, <3>2, TakesLess
    <3>. QED  BY <2>1, <2>4, <3>2, <3>3
  <2>. QED  BY <2>2, <2>3, <2>4
<1>7. CASE Refined
  BY <1>7 DEF Refined, unrefined
<1>8. CASE Finished
  BY <1>8 DEF Finished, vars
<1>9. CASE UNCHANGED vars
  BY <1>9 DEF vars
<1>. QED  BY <1>1, <1>2, <1>3, <1>4, <1>5, <1>6, <1>7, <1>8, <1>9 DEF Next

\* The control of a solver's life: whenever the factorization is used, both
\* solutions come from it, and the refinement keeps the best it has seen.
THEOREM Control == Spec => []ControlOK
  BY ControlInit, ControlStep, PTL DEF Spec

\* StepUsesOneFactor: the variable and the constant part of a step are solved with
\* one factorization, however updates fail and data are replaced in between.
THEOREM OneFactor == Spec => []StepUsesOneFactor
<1>1. ControlOK => StepUsesOneFactor
  BY DEF ControlOK, StepUsesOneFactor
<1>. QED  BY <1>1, Control, PTL

-----------------------------------------------------------------------------
(* The matrices over loads, rescalings and updates.                         *)

\* The terms of the data in a slot, and all terms of it; the slots the cones
\* write; what is factored in a slot.
HeldAt(s) ==
  {<<<<"P", k>>, dataVer>> : k \in {j \in DOMAIN map.P : map.P[j] = s}}
  \cup {<<<<"A", k>>, dataVer>> : k \in {j \in DOMAIN map.A : map.A[j] = s}}
Scaled(s) == \/ \E of \in DOMAIN map.cones : map.cones[of] = s
             \/ \E k \in DOMAIN map.Hx : map.Hx[k] = s
EntryAt(s) == {Stamp(source) : source \in SourcesAt(problem, pdSigns, map, s)}
OnDiagonal(s) == map.at[s].row = map.at[s].col
ShiftedAt(s) ==
  EntryAt(s) \cup (IF regularize /\ OnDiagonal(s)
                  THEN Shift(Signs(problem, pdSigns)[map.at[s].row]) ELSE {})
Plain(terms) == {t \in terms : t[1][1] # "eps"}
FactoredAt(s) == IF engine = "pardiso" THEN ShiftedAt(s) ELSE copy.val[copy.to[s]]

\* From the construction on, every slot that only data are written to holds those
\* of the last load, as does the cache under the direct-x blocks, and the copy of
\* the engine agrees with KKT but for shifts on the diagonal, which it keeps from
\* the last factorization that was regularized.  After an update every slot holds
\* all of its terms, and the matrix that was factored is that with the shifts.
Built ==
  /\ MapFits
  /\ DOMAIN KKT = DOMAIN map.at
  /\ pxBaseline = [k \in DOMAIN map.HxToP |->
                     IF map.HxToP[k] # 0 THEN {<<<<"P", map.HxToP[k]>>, dataVer>>} ELSE {}]
  /\ \A s \in DOMAIN map.at : ~Scaled(s) => KKT[s] = HeldAt(s)
Copied ==
  engine # "pardiso" =>
    /\ copy = [perm |-> copy.perm, to |-> copy.to, at |-> copy.at, val |-> copy.val]
    /\ CopyLaid(map, copy.perm, copy) /\ DOMAIN copy.val = DOMAIN map.at
    /\ \A s \in DOMAIN map.at : /\ ~OnDiagonal(s) => copy.val[copy.to[s]] = KKT[s]
                                /\ Plain(copy.val[copy.to[s]]) = Plain(KKT[s])
Updated ==
  /\ \A s \in DOMAIN map.at : KKT[s] = EntryAt(s)
  /\ dsigns = Signs(problem, pdSigns)
  /\ engine # "pardiso" => ldlSigns = PermuteArray(dsigns, copy.perm)
  /\ factored = {<<PositionAt(map.at, s), FactoredAt(s)>> :
                   s \in {t \in DOMAIN map.at : FactoredAt(t) # {}}}
  /\ regularize => \A s \in DOMAIN map.at : FactoredAt(s) = ShiftedAt(s)
MatricesOK ==
  /\ \E p \in Problems : problem = ProblemOf(p) /\ engine = p.engine
  /\ pdSigns \in PDSignsSet \cup {AllPlus}
  /\ pc = "new" => dataVer = 0 /\ scaleVer = 0
  /\ pc # "new" => Built /\ Copied
  /\ Factored => Updated

LEMMA MatricesInit == Init => MatricesOK
  BY DEF Init, MatricesOK, Factored

\* The construction lays the matrix and its copy out alike, with the first data.
LEMMA ConstructStep ==
  ASSUME MatricesOK, Construct, AssemblyFits'
  PROVE  Built' /\ Copied'
<1>. DEFINE asm == Assembled(problem)
            mp == NewMap(problem, asm)
            Values ==
              [s \in DOMAIN mp.at |->
                 IF \E k \in DOMAIN mp.P : mp.P[k] = s
                 THEN P0(CHOOSE k \in DOMAIN mp.P : mp.P[k] = s)
                 ELSE IF \E k \in DOMAIN mp.A : mp.A[k] = s
                      THEN {<<<<"A", CHOOSE k \in DOMAIN mp.A : mp.A[k] = s>>, 0>>} ELSE {}]
            Perm(given, order) ==
              IF given \/ WantFirst(problem) = {} THEN order
              ELSE PullToFront(order, asm.dim, WantFirst(problem))
            Values0(c) == [d \in DOMAIN c.at |-> Values[InversePerm(c.to)[d]]]
<1>1. /\ pc = "new" /\ pc' = "loaded"
      /\ UNCHANGED <<problem, engine, dataVer, scaleVer, pdSigns>>
  BY DEF Construct
<1>2. PICK given \in BOOLEAN, order \in {o[asm.dim] : o \in Orders} :
        /\ map' = mp /\ KKT' = Values
        /\ pxBaseline' = [k \in DOMAIN mp.HxToP |->
                            IF mp.HxToP[k] # 0 THEN P0(mp.HxToP[k]) ELSE {}]
        /\ engine # "pardiso" =>
             \E c \in {NewCopy(mp.at, asm.dim, Perm(given, order))} :
               copy' = [perm |-> c.perm, to |-> c.to, at |-> c.at, val |-> Values0(c)]
  <2>. DEFINE Choice(a, m, given, order) ==
         LET wanted == WantFirst(problem)
             perm == IF given \/ wanted = {} THEN order ELSE PullToFront(order, a.dim, wanted)
             values == [s \in DOMAIN m.at |->
                          IF \E k \in DOMAIN m.P : m.P[k] = s
                          THEN P0(CHOOSE k \in DOMAIN m.P : m.P[k] = s)
                          ELSE IF \E k \in DOMAIN m.A : m.A[k] = s
                               THEN {<<<<"A", CHOOSE k \in DOMAIN m.A : m.A[k] = s>>, 0>>} ELSE {}]
             signs == Signs(problem, AllPlus)
         IN  /\ map' = m /\ KKT' = values /\ dsigns' = signs
             /\ pxBaseline' = [k \in DOMAIN m.HxToP |->
                                 IF m.HxToP[k] # 0 THEN P0(m.HxToP[k]) ELSE {}]
             /\ IF engine = "pardiso" THEN copy' = NoCopy /\ ldlSigns' = <<>>
                ELSE \E c \in {NewCopy(m.at, a.dim, perm)} :
                     /\ copy' = [perm |-> c.perm, to |-> c.to, at |-> c.at,
                                 val |-> [d \in DOMAIN c.at |-> values[InversePerm(c.to)[d]]]]
                     /\ ldlSigns' = PermuteArray(signs, perm)
  <2>1. \E a \in {Assembled(problem)} : \E m \in {NewMap(problem, a)} :
        \E given \in BOOLEAN, order \in {o[a.dim] : o \in Orders} : Choice(a, m, given, order)
    BY DEF Construct
  <2>2. \E given \in BOOLEAN, order \in {o[asm.dim] : o \in Orders} : Choice(asm, mp, given, order)
    <3>. HIDE DEF Choice
    <3>. QED  BY <2>1
  <2>3. PICK given \in BOOLEAN, order \in {o[asm.dim] : o \in Orders} : Choice(asm, mp, given, order)
    BY <2>2
  <2>4. /\ map' = mp /\ KKT' = Values
        /\ pxBaseline' = [k \in DOMAIN mp.HxToP |->
                            IF mp.HxToP[k] # 0 THEN P0(mp.HxToP[k]) ELSE {}]
        /\ engine # "pardiso" =>
             \E c \in {NewCopy(mp.at, asm.dim, Perm(given, order))} :
               copy' = [perm |-> c.perm, to |-> c.to, at |-> c.at, val |-> Values0(c)]
    <3>. HIDE DEF asm, mp
    <3>. QED  BY <2>3, Zenon
  <2>. HIDE DEF asm, mp, Values, Perm, Values0, Choice
  <2>. QED  BY <2>3, <2>4
<1>3. asm.dim = Dim(problem) /\ mp.dim = asm.dim
  BY DEF Assembled, NewMap
<1>4. dataVer' = 0 /\ scaleVer' = 0
  BY <1>1 DEF MatricesOK
<1>5. MapFits'
  BY <1>1, <1>4 DEF AssemblyFits, JustBuilt
<1>6. SlotsLaid(mp) /\ PlacesApart(mp)
  <2>. HIDE DEF mp
  <2>. QED  BY <1>2, <1>5 DEF MapFits
<1>7. mp.dim \in Nat /\ mp.nnz \in Nat /\ DOMAIN mp.at = 0..(mp.nnz - 1)
  <2>. HIDE DEF mp
  <2>. QED  BY <1>6 DEF SlotsLaid
<1>8. IsPermutation(order, mp.dim)
  <2>1. PICK p \in Problems : problem = ProblemOf(p)
    BY DEF MatricesOK
  <2>2. PICK o \in Orders : order = o[mp.dim]
    <3>. HIDE DEF asm, mp
    <3>. QED  BY <1>2, <1>3
  <2>. HIDE DEF asm, mp
  <2>. QED  BY <1>3, <2>1, <2>2, OrdersAssumption
<1>9. IsPermutation(Perm(given, order), mp.dim)
  <2>. HIDE DEF asm, mp
  <2>. QED  BY <1>3, <1>7, <1>8, PullToFrontIsPermutation
<1>. HIDE DEF asm, mp
<1>10. ASSUME NEW s \in DOMAIN mp.at
       PROVE  Values[s] = {<<<<"P", k>>, 0>> : k \in {j \in DOMAIN mp.P : mp.P[j] = s}}
                          \cup {<<<<"A", k>>, 0>> : k \in {j \in DOMAIN mp.A : mp.A[j] = s}}
  <2>1. /\ \A j, k \in DOMAIN mp.P : mp.P[j] = mp.P[k] => j = k
        /\ \A j, k \in DOMAIN mp.A : mp.A[j] = mp.A[k] => j = k
        /\ \A j \in DOMAIN mp.P, k \in DOMAIN mp.A : mp.P[j] # mp.A[k]
    BY <1>6 DEF PlacesApart, OneToOne, Disjoint
  <2>2. CASE \E k \in DOMAIN mp.P : mp.P[k] = s
    <3>1. PICK k \in DOMAIN mp.P : mp.P[k] = s
      BY <2>2
    <3>2. (CHOOSE j \in DOMAIN mp.P : mp.P[j] = s) = k
      BY <2>1, <3>1
    <3>3. {j \in DOMAIN mp.P : mp.P[j] = s} = {k} /\ {j \in DOMAIN mp.A : mp.A[j] = s} = {}
      BY <2>1, <3>1
    <3>. QED  BY <3>1, <3>2, <3>3 DEF P0
  <2>3. CASE (\A k \in DOMAIN mp.P : mp.P[k] # s) /\ \E k \in DOMAIN mp.A : mp.A[k] = s
    <3>1. PICK k \in DOMAIN mp.A : mp.A[k] = s
      BY <2>3
    <3>2. (CHOOSE j \in DOMAIN mp.A : mp.A[j] = s) = k
      BY <2>1, <3>1
    <3>3. {j \in DOMAIN mp.A : mp.A[j] = s} = {k} /\ {j \in DOMAIN mp.P : mp.P[j] = s} = {}
      BY <2>1, <2>3, <3>1
    <3>. QED  BY <2>3, <3>1, <3>2, <3>3
  <2>4. CASE (\A k \in DOMAIN mp.P : mp.P[k] # s) /\ \A k \in DOMAIN mp.A : mp.A[k] # s
    BY <2>4
  <2>. QED  BY <2>2, <2>3, <2>4
<1>11. DOMAIN Values = DOMAIN mp.at
  OBVIOUS
<1>. HIDE DEF Values
<1>12. Built'
  <2>1. \A s \in DOMAIN map'.at : KKT'[s] = HeldAt(s)'
    BY <1>2, <1>4, <1>10 DEF HeldAt
  <2>2. DOMAIN KKT' = DOMAIN map'.at
    BY <1>2, <1>11
  <2>3. pxBaseline' = [k \in DOMAIN map'.HxToP |->
                         IF map'.HxToP[k] # 0 THEN {<<<<"P", map'.HxToP[k]>>, dataVer'>>} ELSE {}]
    BY <1>2, <1>4 DEF P0
  <2>. QED  BY <1>5, <2>1, <2>2, <2>3 DEF Built
<1>13. Copied'
  <2>. SUFFICES ASSUME engine # "pardiso" PROVE Copied'
    BY <1>1 DEF Copied
  <2>. DEFINE c == NewCopy(mp.at, mp.dim, Perm(given, order))
  <2>1. copy' = [perm |-> c.perm, to |-> c.to, at |-> c.at, val |-> Values0(c)]
    BY <1>2, <1>3
  <2>2. CopyLaid(mp, Perm(given, order), c) /\ c.perm = Perm(given, order)
    BY <1>6, <1>9, NewCopyLaid
  <2>. HIDE DEF c
  <2>3. /\ DOMAIN c.at = DOMAIN mp.at /\ IsPermutation(c.to, mp.nnz)
    BY <1>7, <2>2 DEF CopyLaid
  <2>4. ASSUME NEW s \in DOMAIN mp.at
        PROVE  c.to[s] \in DOMAIN mp.at /\ InversePerm(c.to)[c.to[s]] = s
    <3>1. c.to[s] \in 0..(mp.nnz - 1)
      BY <1>7, <2>3 DEF IsPermutation
    <3>2. InversePerm(c.to)[c.to[s]] = s
      BY <1>7, <2>3, PermutationIsBijection
    <3>. QED  BY <1>7, <3>1, <3>2
  <2>5. \A s \in DOMAIN mp.at : Values0(c)[c.to[s]] = Values[s]
    BY <2>3, <2>4
  <2>6. DOMAIN Values0(c) = DOMAIN mp.at
    BY <2>3
  <2>. HIDE DEF Values0
  <2>7. CopyLaid(map', copy'.perm, copy')
    BY <1>2, <2>1, <2>2 DEF CopyLaid
  <2>. QED  BY <1>2, <2>1, <2>5, <2>6, <2>7 DEF Copied
<1>. QED  BY <1>12, <1>13

\* Two lists of slots with none in common, written one after the other.
LEMMA WrittenTwice ==
  ASSUME NEW K, NEW f, NEW u, NEW g, NEW v, OneToOne(f), OneToOne(g),
         \A j \in DOMAIN f, k \in DOMAIN g : f[j] # g[k]
  PROVE  /\ DOMAIN WriteKKT(WriteKKT(K, f, u), g, v) = DOMAIN K
         /\ \A j \in DOMAIN f : f[j] \in DOMAIN K =>
              WriteKKT(WriteKKT(K, f, u), g, v)[f[j]] = u[j]
         /\ \A k \in DOMAIN g : g[k] \in DOMAIN K =>
              WriteKKT(WriteKKT(K, f, u), g, v)[g[k]] = v[k]
         /\ \A s \in DOMAIN K :
              (\A j \in DOMAIN f : f[j] # s) /\ (\A k \in DOMAIN g : g[k] # s) =>
                WriteKKT(WriteKKT(K, f, u), g, v)[s] = K[s]
<1>. DEFINE one == WriteKKT(K, f, u)
            two == WriteKKT(one, g, v)
<1>1. /\ DOMAIN one = DOMAIN K
      /\ \A s \in DOMAIN K : (\A j \in DOMAIN f : f[j] # s) => one[s] = K[s]
      /\ \A j \in DOMAIN f : f[j] \in DOMAIN K => one[f[j]] = u[j]
  BY Written
<1>. HIDE DEF one
<1>2. /\ DOMAIN two = DOMAIN one
      /\ \A s \in DOMAIN one : (\A k \in DOMAIN g : g[k] # s) => two[s] = one[s]
      /\ \A k \in DOMAIN g : g[k] \in DOMAIN one => two[g[k]] = v[k]
  BY Written
<1>. HIDE DEF two
<1>3. /\ DOMAIN two = DOMAIN K
      /\ \A j \in DOMAIN f : f[j] \in DOMAIN K => two[f[j]] = u[j]
      /\ \A k \in DOMAIN g : g[k] \in DOMAIN K => two[g[k]] = v[k]
      /\ \A s \in DOMAIN K :
           (\A j \in DOMAIN f : f[j] # s) /\ (\A k \in DOMAIN g : g[k] # s) => two[s] = K[s]
  BY <1>1, <1>2
<1>. QED  BY <1>3 DEF one, two

\* The values of the engine's copy in the order of the slots of KKT.  Writing the
\* copy through its own slots is writing these values as those of KKT are written.
InOrder(c, n) == [s \in 0..(n - 1) |-> c.val[c.to[s]]]

LEMMA CopyWritten ==
  ASSUME NEW n \in Nat, NEW c, NEW slots, NEW values, engine # "pardiso",
         IsPermutation(c.to, n), DOMAIN c.val = 0..(n - 1), OneToOne(slots),
         c = [perm |-> c.perm, to |-> c.to, at |-> c.at, val |-> c.val],
         \A k \in DOMAIN slots : slots[k] \in 0..(n - 1)
  PROVE  /\ WriteCopy(c, slots, values) =
              [perm |-> c.perm, to |-> c.to, at |-> c.at, val |-> WriteCopy(c, slots, values).val]
         /\ DOMAIN WriteCopy(c, slots, values).val = 0..(n - 1)
         /\ InOrder(WriteCopy(c, slots, values), n) = WriteKKT(InOrder(c, n), slots, values)
<1>. DEFINE I == 0..(n - 1)
            through == [k \in DOMAIN slots |-> c.to[slots[k]]]
            new == WriteKKT(c.val, through, values)
            old == InOrder(c, n)
<1>1. WriteCopy(c, slots, values) = [perm |-> c.perm, to |-> c.to, at |-> c.at, val |-> new]
  <2>1. WriteCopy(c, slots, values) = [c EXCEPT !.val = new]
    BY DEF WriteCopy
  <2>. HIDE DEF new
  <2>. QED  BY <2>1
<1>2. /\ \A s \in I : c.to[s] \in I
      /\ \A s, t \in I : c.to[s] = c.to[t] => s = t
  BY DEF IsPermutation
<1>3. OneToOne(through)
  BY <1>2 DEF OneToOne
<1>4. DOMAIN through = DOMAIN slots /\ \A k \in DOMAIN slots : through[k] = c.to[slots[k]]
  OBVIOUS
<1>. HIDE DEF through
<1>5. /\ DOMAIN new = I
      /\ \A d \in I : (\A k \in DOMAIN slots : through[k] # d) => new[d] = c.val[d]
      /\ \A k \in DOMAIN slots : through[k] \in I => new[through[k]] = values[k]
  BY <1>3, <1>4, Written
<1>. HIDE DEF new
<1>6. DOMAIN old = I /\ \A s \in I : old[s] = c.val[c.to[s]]
  BY DEF InOrder
<1>. HIDE DEF old
<1>7. /\ DOMAIN WriteKKT(old, slots, values) = I
      /\ \A s \in I : (\A k \in DOMAIN slots : slots[k] # s) =>
           WriteKKT(old, slots, values)[s] = old[s]
      /\ \A k \in DOMAIN slots : slots[k] \in I =>
           WriteKKT(old, slots, values)[slots[k]] = values[k]
  BY <1>6, Written
<1>8. ASSUME NEW s \in I
      PROVE  new[c.to[s]] = WriteKKT(old, slots, values)[s]
  <2>1. CASE \E k \in DOMAIN slots : slots[k] = s
    <3>1. PICK k \in DOMAIN slots : slots[k] = s
      BY <2>1
    <3>. QED  BY <1>2, <1>4, <1>5, <1>7, <3>1
  <2>2. CASE \A k \in DOMAIN slots : slots[k] # s
    <3>1. \A k \in DOMAIN slots : through[k] # c.to[s]
      BY <1>2, <1>4, <2>2
    <3>. QED  BY <1>2, <1>5, <1>6, <1>7, <2>2, <3>1
  <2>. QED  BY <2>1, <2>2
<1>9. WriteKKT(old, slots, values) = [s \in I |-> WriteKKT(old, slots, values)[s]]
  BY <1>6 DEF WriteKKT
<1>10. InOrder(WriteCopy(c, slots, values), n) = [s \in I |-> new[c.to[s]]]
  BY <1>1 DEF InOrder
<1>11. InOrder(WriteCopy(c, slots, values), n) = WriteKKT(old, slots, values)
  BY <1>8, <1>9, <1>10, Zenon
<1>. QED  BY <1>1, <1>5, <1>11 DEF old

\* New data: every slot that only data are written to holds them.
LEMMA LoadDataStep ==
  ASSUME MatricesOK, LoadData
  PROVE  Built' /\ Copied'
<1>. DEFINE p == [k \in DOMAIN map.P |-> {<<<<"P", k>>, dataVer'>>}]
            a == [k \in DOMAIN map.A |-> {<<<<"A", k>>, dataVer'>>}]
<1>1. /\ pc \in {"loaded", "ready", "failed"} /\ pc' = "loaded"
      /\ UNCHANGED <<problem, engine, map, scaleVer, pdSigns, regularize>>
      /\ KKT' = WriteKKT(WriteKKT(KKT, map.P, p), map.A, a)
      /\ copy' = WriteCopy(WriteCopy(copy, map.P, p), map.A, a)
      /\ pxBaseline' = FreshBaseline(p)
  BY DEF LoadData, matrices
<1>2. Built /\ Copied
  BY <1>1 DEF MatricesOK
<1>3. /\ MapFits /\ MapFits' /\ SlotsLaid(map) /\ PlacesApart(map)
      /\ OneToOne(map.P) /\ OneToOne(map.A)
      /\ \A j \in DOMAIN map.P, k \in DOMAIN map.A : map.P[j] # map.A[k]
      /\ \A k \in DOMAIN map.P : map.P[k] \in DOMAIN map.at
      /\ \A k \in DOMAIN map.A : map.A[k] \in DOMAIN map.at
  BY <1>1, <1>2 DEF Built, MapFits, PlacesApart, Disjoint, Within
<1>4. /\ DOMAIN KKT' = DOMAIN map.at
      /\ \A j \in DOMAIN map.P : KKT'[map.P[j]] = p[j]
      /\ \A k \in DOMAIN map.A : KKT'[map.A[k]] = a[k]
      /\ \A s \in DOMAIN map.at :
           (\A j \in DOMAIN map.P : map.P[j] # s) /\ (\A k \in DOMAIN map.A : map.A[k] # s) =>
             KKT'[s] = KKT[s]
  <2>. HIDE DEF p, a
  <2>1. DOMAIN KKT = DOMAIN map.at
    BY <1>2 DEF Built
  <2>. QED  BY <1>1, <1>3, <2>1, WrittenTwice
<1>5. ASSUME NEW s \in DOMAIN map.at, ~Scaled(s)
      PROVE  KKT'[s] = {<<<<"P", k>>, dataVer'>> : k \in {j \in DOMAIN map.P : map.P[j] = s}}
                       \cup {<<<<"A", k>>, dataVer'>> : k \in {j \in DOMAIN map.A : map.A[j] = s}}
  <2>1. CASE \E k \in DOMAIN map.P : map.P[k] = s
    <3>1. PICK k \in DOMAIN map.P : map.P[k] = s
      BY <2>1
    <3>2. {j \in DOMAIN map.P : map.P[j] = s} = {k} /\ {j \in DOMAIN map.A : map.A[j] = s} = {}
      BY <1>3, <3>1 DEF OneToOne
    <3>3. KKT'[s] = {<<<<"P", k>>, dataVer'>>}
      BY <1>4, <3>1
    <3>4. {<<<<"P", j>>, dataVer'>> : j \in {k}} = {<<<<"P", k>>, dataVer'>>}
      OBVIOUS
    <3>. QED  BY <3>2, <3>3, <3>4
  <2>2. CASE \E k \in DOMAIN map.A : map.A[k] = s
    <3>1. PICK k \in DOMAIN map.A : map.A[k] = s
      BY <2>2
    <3>2. {j \in DOMAIN map.A : map.A[j] = s} = {k} /\ {j \in DOMAIN map.P : map.P[j] = s} = {}
      BY <1>3, <3>1 DEF OneToOne
    <3>3. KKT'[s] = {<<<<"A", k>>, dataVer'>>}
      BY <1>4, <3>1
    <3>4. {<<<<"A", j>>, dataVer'>> : j \in {k}} = {<<<<"A", k>>, dataVer'>>}
      OBVIOUS
    <3>. QED  BY <3>2, <3>3, <3>4
  <2>3. CASE (\A k \in DOMAIN map.P : map.P[k] # s) /\ \A k \in DOMAIN map.A : map.A[k] # s
    <3>1. {j \in DOMAIN map.A : map.A[j] = s} = {} /\ {j \in DOMAIN map.P : map.P[j] = s} = {}
      BY <2>3
    <3>2. KKT[s] = HeldAt(s)
      BY <1>2, <1>5 DEF Built
    <3>3. HeldAt(s) = {}
      BY <3>1 DEF HeldAt
    <3>. QED  BY <1>4, <2>3, <3>1, <3>2, <3>3
  <2>. QED  BY <2>1, <2>2, <2>3
<1>6. Built'
  <2>1. ASSUME NEW s \in DOMAIN map'.at, ~Scaled(s)'
        PROVE  KKT'[s] = HeldAt(s)'
    <3>1. ~Scaled(s) /\ s \in DOMAIN map.at
      BY <1>1, <2>1 DEF Scaled
    <3>. HIDE DEF p, a
    <3>. QED  BY <1>1, <1>5, <3>1 DEF HeldAt
  <2>2. pxBaseline' = [k \in DOMAIN map'.HxToP |->
                         IF map'.HxToP[k] # 0 THEN {<<<<"P", map'.HxToP[k]>>, dataVer'>>} ELSE {}]
    <3>1. \A k \in DOMAIN map.HxToP : map.HxToP[k] # 0 => map.HxToP[k] \in DOMAIN map.P
      BY <1>3 DEF PlacesApart
    <3>2. pxBaseline' = [k \in DOMAIN map.HxToP |->
                           IF map.HxToP[k] # 0 THEN p[map.HxToP[k]] ELSE {}]
      <4>. HIDE DEF p
      <4>. QED  BY <1>1 DEF FreshBaseline
    <3>. QED  BY <1>1, <3>1, <3>2
  <2>3. DOMAIN KKT' = DOMAIN map'.at
    BY <1>1, <1>4
  <2>. QED  BY <1>3, <2>1, <2>2, <2>3 DEF Built
<1>. HIDE DEF p, a
<1>7. Copied'
  <2>. SUFFICES ASSUME engine # "pardiso" PROVE Copied'
    BY <1>1 DEF Copied
  <2>. DEFINE n == map.nnz
              one == WriteCopy(copy, map.P, p)
              two == WriteCopy(one, map.A, a)
  <2>1. /\ copy = [perm |-> copy.perm, to |-> copy.to, at |-> copy.at, val |-> copy.val]
        /\ CopyLaid(map, copy.perm, copy) /\ DOMAIN copy.val = DOMAIN map.at
        /\ \A s \in DOMAIN map.at : /\ ~OnDiagonal(s) => copy.val[copy.to[s]] = KKT[s]
                                    /\ Plain(copy.val[copy.to[s]]) = Plain(KKT[s])
    BY <1>2 DEF Copied
  <2>2. n \in Nat /\ DOMAIN map.at = 0..(n - 1) /\ IsPermutation(copy.to, n)
    BY <1>3, <2>1 DEF SlotsLaid, CopyLaid
  <2>. HIDE DEF n
  <2>3. /\ one = [perm |-> copy.perm, to |-> copy.to, at |-> copy.at, val |-> one.val]
        /\ DOMAIN one.val = 0..(n - 1)
        /\ InOrder(one, n) = WriteKKT(InOrder(copy, n), map.P, p)
    BY <1>3, <2>1, <2>2, CopyWritten
  <2>. HIDE DEF one
  <2>4. one.perm = copy.perm /\ one.to = copy.to /\ one.at = copy.at
    BY <2>3
  <2>5. /\ two = [perm |-> one.perm, to |-> one.to, at |-> one.at, val |-> two.val]
        /\ DOMAIN two.val = 0..(n - 1)
        /\ InOrder(two, n) = WriteKKT(InOrder(one, n), map.A, a)
    BY <1>3, <2>2, <2>3, <2>4, CopyWritten
  <2>. HIDE DEF two
  <2>6. copy' = two /\ two.perm = copy.perm /\ two.to = copy.to /\ two.at = copy.at
    BY <1>1, <2>4, <2>5 DEF one, two
  <2>7. CopyLaid(map', copy'.perm, copy')
    BY <1>1, <2>1, <2>6 DEF CopyLaid
  <2>8. ASSUME NEW s \in DOMAIN map.at
        PROVE  \/ two.val[copy.to[s]] = KKT'[s]
               \/ two.val[copy.to[s]] = copy.val[copy.to[s]] /\ KKT'[s] = KKT[s]
    <3>. DEFINE before == InOrder(copy, n)
                after == WriteKKT(WriteKKT(before, map.P, p), map.A, a)
    <3>1. DOMAIN before = DOMAIN map.at /\ before[s] = copy.val[copy.to[s]]
      BY <2>1, <2>2 DEF InOrder
    <3>. HIDE DEF before
    <3>2. after[s] = two.val[copy.to[s]]
      BY <2>2, <2>3, <2>5, <2>6 DEF InOrder, before
    <3>3. /\ \A j \in DOMAIN map.P : after[map.P[j]] = p[j]
          /\ \A k \in DOMAIN map.A : after[map.A[k]] = a[k]
          /\ (\A j \in DOMAIN map.P : map.P[j] # s) /\ (\A k \in DOMAIN map.A : map.A[k] # s) =>
               after[s] = before[s]
      BY <1>3, <3>1, WrittenTwice
    <3>. HIDE DEF after
    <3>. QED  BY <1>4, <3>1, <3>2, <3>3
  <2>9. \A s \in DOMAIN map'.at : /\ ~OnDiagonal(s)' => copy'.val[copy'.to[s]] = KKT'[s]
                                  /\ Plain(copy'.val[copy'.to[s]]) = Plain(KKT'[s])
    BY <1>1, <2>1, <2>6, <2>8 DEF OnDiagonal
  <2>10. /\ copy' = [perm |-> copy'.perm, to |-> copy'.to, at |-> copy'.at, val |-> copy'.val]
         /\ DOMAIN copy'.val = DOMAIN map'.at
    BY <1>1, <2>2, <2>4, <2>5, <2>6
  <2>. QED  BY <2>7, <2>9, <2>10 DEF Copied
<1>. QED  BY <1>6, <1>7

\* What the cones write completes every slot: with the data that are there it
\* holds the terms of all its sources.
LEMMA ScalingCompletes ==
  ASSUME Built, NEW K,
         K = WriteKKT(WriteKKT(KKT, map.cones, [of \in DOMAIN map.cones |-> ScalingTerm(of)]),
                      map.Hx, [k \in DOMAIN map.Hx |-> HxTerm(k)])
  PROVE  DOMAIN K = DOMAIN map.at /\ \A s \in DOMAIN map.at : K[s] = EntryAt(s)
<1>. DEFINE c == [of \in DOMAIN map.cones |-> ScalingTerm(of)]
            h == [k \in DOMAIN map.Hx |-> HxTerm(k)]
            OfP(s) == {<<"P", k>> : k \in {j \in DOMAIN map.P : map.P[j] = s}}
            OfA(s) == {<<"A", k>> : k \in {j \in DOMAIN map.A : map.A[j] = s}}
            OfCones(s) == {SourceOf(problem, pdSigns, of) : of \in {o \in DOMAIN map.cones : map.cones[o] = s}}
            OfHx(s) == {<<"Hx", k>> : k \in {j \in DOMAIN map.Hx : map.Hx[j] = s}}
<1>1. /\ DOMAIN KKT = DOMAIN map.at
      /\ pxBaseline = [k \in DOMAIN map.HxToP |->
                         IF map.HxToP[k] # 0 THEN {<<<<"P", map.HxToP[k]>>, dataVer>>} ELSE {}]
      /\ \A s \in DOMAIN map.at : ~Scaled(s) => KKT[s] = HeldAt(s)
  BY DEF Built
<1>2. /\ OneToOne(map.cones) /\ OneToOne(map.Hx) /\ OneToOne(map.P) /\ OneToOne(map.A)
      /\ \A of \in DOMAIN map.cones : map.cones[of] \in DOMAIN map.at
      /\ \A k \in DOMAIN map.Hx : map.Hx[k] \in DOMAIN map.at
      /\ \A of \in DOMAIN map.cones, k \in DOMAIN map.Hx : map.cones[of] # map.Hx[k]
      /\ \A of \in DOMAIN map.cones, k \in DOMAIN map.P : map.cones[of] # map.P[k]
      /\ \A of \in DOMAIN map.cones, k \in DOMAIN map.A : map.cones[of] # map.A[k]
      /\ \A j \in DOMAIN map.Hx, k \in DOMAIN map.A : map.Hx[j] # map.A[k]
      /\ DOMAIN map.HxToP = DOMAIN map.Hx
      /\ \A k \in DOMAIN map.Hx :
           /\ map.HxToP[k] = 0 => \A j \in DOMAIN map.P : map.P[j] # map.Hx[k]
           /\ map.HxToP[k] # 0 => /\ map.HxToP[k] \in DOMAIN map.P
                                  /\ map.P[map.HxToP[k]] = map.Hx[k]
  BY DEF Built, MapFits, PlacesApart, Disjoint, Within
<1>3. /\ DOMAIN K = DOMAIN map.at
      /\ \A of \in DOMAIN map.cones : K[map.cones[of]] = ScalingTerm(of)
      /\ \A k \in DOMAIN map.Hx : K[map.Hx[k]] = HxTerm(k)
      /\ \A s \in DOMAIN map.at : ~Scaled(s) => K[s] = KKT[s]
  <2>. HIDE DEF c, h
  <2>1. /\ DOMAIN c = DOMAIN map.cones /\ \A of \in DOMAIN c : c[of] = ScalingTerm(of)
        /\ DOMAIN h = DOMAIN map.Hx /\ \A k \in DOMAIN h : h[k] = HxTerm(k)
    BY DEF c, h
  <2>2. K = WriteKKT(WriteKKT(KKT, map.cones, c), map.Hx, h)
    BY DEF c, h
  <2>3. /\ DOMAIN K = DOMAIN KKT
        /\ \A of \in DOMAIN map.cones : map.cones[of] \in DOMAIN KKT => K[map.cones[of]] = c[of]
        /\ \A k \in DOMAIN map.Hx : map.Hx[k] \in DOMAIN KKT => K[map.Hx[k]] = h[k]
        /\ \A s \in DOMAIN KKT :
             (\A j \in DOMAIN map.cones : map.cones[j] # s) /\ (\A k \in DOMAIN map.Hx : map.Hx[k] # s) =>
               K[s] = KKT[s]
    BY <1>2, <2>2, WrittenTwice
  <2>. QED  BY <1>1, <1>2, <2>1, <2>3 DEF Scaled
<1>4. ASSUME NEW s \in DOMAIN map.at
      PROVE  EntryAt(s) = {Stamp(source) : source \in OfP(s) \cup OfA(s) \cup OfCones(s) \cup OfHx(s)}
  BY DEF EntryAt, SourcesAt
<1>5. \A k : Stamp(<<"P", k>>) = <<<<"P", k>>, dataVer>> /\ Stamp(<<"A", k>>) = <<<<"A", k>>, dataVer>>
  BY DEF Stamp
<1>6. ASSUME NEW s \in DOMAIN map.at, NEW of \in DOMAIN map.cones, map.cones[of] = s
      PROVE  K[s] = EntryAt(s)
  <2>1. /\ {j \in DOMAIN map.P : map.P[j] = s} = {} /\ {j \in DOMAIN map.A : map.A[j] = s} = {}
        /\ {o \in DOMAIN map.cones : map.cones[o] = s} = {of} /\ {j \in DOMAIN map.Hx : map.Hx[j] = s} = {}
    BY <1>2, <1>6 DEF OneToOne
  <2>2. OfP(s) = {} /\ OfA(s) = {} /\ OfHx(s) = {} /\ OfCones(s) = {SourceOf(problem, pdSigns, of)}
    BY <2>1
  <2>. HIDE DEF OfP, OfA, OfHx, OfCones
  <2>3. EntryAt(s) = {Stamp(SourceOf(problem, pdSigns, of))}
    BY <1>4, <2>2
  <2>. QED  BY <1>3, <1>6, <2>3 DEF ScalingTerm
<1>7. ASSUME NEW s \in DOMAIN map.at, NEW k \in DOMAIN map.Hx, map.Hx[k] = s
      PROVE  K[s] = EntryAt(s)
  <2>1. /\ {j \in DOMAIN map.A : map.A[j] = s} = {} /\ {o \in DOMAIN map.cones : map.cones[o] = s} = {}
        /\ {j \in DOMAIN map.Hx : map.Hx[j] = s} = {k}
        /\ map.HxToP[k] = 0 => {j \in DOMAIN map.P : map.P[j] = s} = {}
        /\ map.HxToP[k] # 0 => {j \in DOMAIN map.P : map.P[j] = s} = {map.HxToP[k]}
    BY <1>2, <1>7 DEF OneToOne
  <2>2. /\ OfA(s) = {} /\ OfHx(s) = {<<"Hx", k>>} /\ OfCones(s) = {}
        /\ map.HxToP[k] = 0 => OfP(s) = {}
        /\ map.HxToP[k] # 0 => OfP(s) = {<<"P", map.HxToP[k]>>}
    BY <2>1
  <2>. HIDE DEF OfP, OfA, OfHx, OfCones
  <2>3. K[s] = {Stamp(<<"Hx", k>>)} \cup pxBaseline[k]
    BY <1>3, <1>7 DEF HxTerm
  <2>4. CASE map.HxToP[k] = 0
    <3>1. pxBaseline[k] = {}
      BY <1>1, <1>2, <2>4
    <3>. QED  BY <1>4, <2>2, <2>3, <2>4, <3>1
  <2>5. CASE map.HxToP[k] # 0
    <3>1. pxBaseline[k] = {<<<<"P", map.HxToP[k]>>, dataVer>>}
      BY <1>1, <1>2, <2>5
    <3>2. EntryAt(s) = {Stamp(<<"P", map.HxToP[k]>>), Stamp(<<"Hx", k>>)}
      BY <1>4, <2>2, <2>5
    <3>. QED  BY <1>5, <2>3, <3>1, <3>2
  <2>. QED  BY <2>4, <2>5
<1>8. ASSUME NEW s \in DOMAIN map.at, ~Scaled(s)
      PROVE  K[s] = EntryAt(s)
  <2>1. /\ {o \in DOMAIN map.cones : map.cones[o] = s} = {} /\ {j \in DOMAIN map.Hx : map.Hx[j] = s} = {}
    BY <1>8 DEF Scaled
  <2>2. OfHx(s) = {} /\ OfCones(s) = {}
    BY <2>1
  <2>3. HeldAt(s) = {Stamp(source) : source \in OfP(s) \cup OfA(s)}
    BY <1>5 DEF HeldAt
  <2>. HIDE DEF OfP, OfA, OfHx, OfCones
  <2>4. EntryAt(s) = HeldAt(s)
    BY <1>4, <2>2, <2>3
  <2>. QED  BY <1>1, <1>3, <1>8, <2>4
<1>. QED  BY <1>3, <1>6, <1>7, <1>8 DEF Scaled

\* The slots of the diagonal are those that diag_full lists, each once.
LEMMA DiagonalSlots ==
  ASSUME SlotsLaid(map)
  PROVE  /\ OneToOne(Diagonal) /\ DOMAIN Diagonal = 0..(map.dim - 1)
         /\ \A r \in 0..(map.dim - 1) : /\ Diagonal[r] = map.diagFull[r]
                                        /\ Diagonal[r] \in DOMAIN map.at
                                        /\ OnDiagonal(Diagonal[r]) /\ map.at[Diagonal[r]].row = r
         /\ \A s \in DOMAIN map.at : OnDiagonal(s) =>
              map.at[s].row \in 0..(map.dim - 1) /\ Diagonal[map.at[s].row] = s
<1>1. /\ map.dim \in Nat
      /\ \A r \in 0..(map.dim - 1) :
           map.diagFull[r] \in DOMAIN map.at /\ map.at[map.diagFull[r]] = [row |-> r, col |-> r]
      /\ \A s \in DOMAIN map.at : map.at[s].row \in 0..(map.dim - 1) /\ map.at[s].col \in 0..(map.dim - 1)
      /\ \A s, t \in DOMAIN map.at : PositionAt(map.at, s) = PositionAt(map.at, t) => s = t
  BY DEF SlotsLaid
<1>2. DOMAIN Diagonal = 0..(map.dim - 1) /\ \A r \in 0..(map.dim - 1) : Diagonal[r] = map.diagFull[r]
  BY DEF Diagonal
<1>3. ASSUME NEW r \in 0..(map.dim - 1)
      PROVE  /\ Diagonal[r] \in DOMAIN map.at
             /\ map.at[Diagonal[r]].row = r /\ map.at[Diagonal[r]].col = r
  <2>1. Diagonal[r] = map.diagFull[r]
    BY <1>2
  <2>2. Diagonal[r] \in DOMAIN map.at /\ map.at[Diagonal[r]] = [row |-> r, col |-> r]
    BY <1>1, <2>1
  <2>. QED  BY <2>2
<1>4. OneToOne(Diagonal)
  BY <1>2, <1>3 DEF OneToOne
<1>5. ASSUME NEW s \in DOMAIN map.at, OnDiagonal(s)
      PROVE  Diagonal[map.at[s].row] = s
  <2>1. PositionAt(map.at, Diagonal[map.at[s].row]) = PositionAt(map.at, s)
    BY <1>1, <1>3, <1>5 DEF PositionAt, OnDiagonal
  <2>. QED  BY <1>1, <1>3, <2>1
<1>. QED  BY <1>1, <1>2, <1>3, <1>4, <1>5 DEF OnDiagonal

\* An update leaves the KKT matrix in the slots and in the copy, and factors it
\* with one shift on the diagonal.
LEMMA UpdateStep ==
  ASSUME MatricesOK, Update
  PROVE  Built' /\ Copied' /\ Updated'
<1>. DEFINE ct == [of \in DOMAIN map.cones |-> ScalingTerm(of)]
            ht == [k \in DOMAIN map.Hx |-> HxTerm(k)]
            signs == Signs(problem, pdSigns)
            plain == WriteKKT(WriteKKT(KKT, map.cones, ct), map.Hx, ht)
            lift == [r \in DOMAIN signs |-> plain[map.diagFull[r]] \cup Shift(signs[r])]
            shifted == Regularized(plain, signs)
            back == [r \in DOMAIN signs |-> shifted[map.diagFull[r]]]
            n == map.nnz
<1>1. /\ pc = "scaled"
      /\ UNCHANGED <<problem, engine, map, pxBaseline, dataVer, scaleVer, pdSigns, regularize>>
      /\ dsigns' = signs
      /\ ldlSigns' = IF engine = "pardiso" THEN <<>> ELSE PermuteArray(signs, copy.perm)
  BY DEF Update, matrices, LiveSigns
<1>2. /\ KKT' = plain
      /\ copy' = RegularizedCopy(WriteCopy(WriteCopy(copy, map.cones, ct), map.Hx, ht), shifted, signs)
      /\ factored' = MatrixOf(shifted, copy')
  <2>1. \E pl \in {plain} : \E sh \in {Regularized(pl, signs)} :
          /\ KKT' = PutBack(pl, sh)
          /\ copy' = RegularizedCopy(WriteCopy(WriteCopy(copy, map.cones, ct), map.Hx, ht), sh, signs)
          /\ factored' = MatrixOf(sh, copy')
    BY DEF Update, LiveSigns
  <2>. HIDE DEF ct, ht
  <2>. QED  BY <1>1, <2>1, Zenon DEF PutBack
<1>3. Built /\ Copied
  BY <1>1 DEF MatricesOK
<1>4. /\ SlotsLaid(map) /\ PlacesApart(map) /\ MapFits /\ MapFits'
      /\ DOMAIN signs = 0..(map.dim - 1)
  <2>1. MapFits /\ MapFits'
    BY <1>1, <1>3 DEF Built, MapFits
  <2>2. SignsFit(problem, pdSigns, map)
    BY <2>1 DEF MapFits, MatricesOK
  <2>. QED  BY <2>1, <2>2 DEF MapFits, SignsFit
<1>. HIDE DEF signs, ct, ht
<1>5. DOMAIN plain = DOMAIN map.at /\ \A s \in DOMAIN map.at : plain[s] = EntryAt(s)
  <2>1. plain = WriteKKT(WriteKKT(KKT, map.cones, [of \in DOMAIN map.cones |-> ScalingTerm(of)]),
                      map.Hx, [k \in DOMAIN map.Hx |-> HxTerm(k)])
    BY DEF ct, ht
  <2>. HIDE DEF plain
  <2>. QED  BY <1>3, <2>1, ScalingCompletes
<1>. HIDE DEF plain
<1>6. /\ OneToOne(Diagonal) /\ DOMAIN Diagonal = 0..(map.dim - 1)
      /\ \A r \in 0..(map.dim - 1) : /\ Diagonal[r] = map.diagFull[r]
                                     /\ Diagonal[r] \in DOMAIN map.at
                                     /\ OnDiagonal(Diagonal[r]) /\ map.at[Diagonal[r]].row = r
      /\ \A s \in DOMAIN map.at : OnDiagonal(s) =>
           map.at[s].row \in 0..(map.dim - 1) /\ Diagonal[map.at[s].row] = s
  BY <1>4, DiagonalSlots
<1>6a. OneToOne(Diagonal)
  BY <1>6
<1>7. DOMAIN shifted = DOMAIN map.at /\ \A s \in DOMAIN map.at : shifted[s] = ShiftedAt(s)
  <2>1. CASE ~regularize
    <3>1. shifted = plain
      BY <2>1 DEF Regularized
    <3>. HIDE DEF shifted
    <3>. QED  BY <1>5, <2>1, <3>1 DEF ShiftedAt
  <2>2. CASE regularize
    <3>1. \A r \in 0..(map.dim - 1) : lift[r] = plain[Diagonal[r]] \cup Shift(signs[r])
      BY <1>4, <1>6
    <3>2. shifted = WriteKKT(plain, Diagonal, lift)
      BY <2>2 DEF Regularized
    <3>. HIDE DEF lift, shifted
    <3>3. /\ DOMAIN shifted = DOMAIN plain
          /\ \A s \in DOMAIN plain : (\A r \in DOMAIN Diagonal : Diagonal[r] # s) => shifted[s] = plain[s]
          /\ \A r \in DOMAIN Diagonal : Diagonal[r] \in DOMAIN plain => shifted[Diagonal[r]] = lift[r]
      BY <1>6a, <3>2, Written
    <3>4. ASSUME NEW s \in DOMAIN map.at PROVE shifted[s] = ShiftedAt(s)
      <4>1. CASE OnDiagonal(s)
        <5>1. shifted[s] = plain[s] \cup Shift(signs[map.at[s].row])
          BY <1>5, <1>6, <3>1, <3>3, <4>1
        <5>. QED  BY <1>5, <2>2, <4>1, <5>1 DEF ShiftedAt, signs
      <4>2. CASE ~OnDiagonal(s)
        <5>1. \A r \in DOMAIN Diagonal : Diagonal[r] # s
          BY <1>6, <4>2
        <5>. QED  BY <1>5, <3>3, <4>2, <5>1 DEF ShiftedAt
      <4>. QED  BY <4>1, <4>2
    <3>. QED  BY <1>5, <3>3, <3>4
  <2>. QED  BY <2>1, <2>2
<1>. HIDE DEF lift, shifted
<1>8. n \in Nat /\ DOMAIN map.at = 0..(n - 1)
  BY <1>4 DEF SlotsLaid
<1>9. ASSUME engine # "pardiso"
      PROVE  /\ copy' = [perm |-> copy.perm, to |-> copy.to, at |-> copy.at, val |-> copy'.val]
             /\ CopyLaid(map, copy.perm, copy)
             /\ DOMAIN copy'.val = DOMAIN map.at
             /\ regularize => \A s \in DOMAIN map.at : copy'.val[copy.to[s]] = shifted[s]
             /\ \A s \in DOMAIN map.at :
                  /\ ~OnDiagonal(s) => copy'.val[copy.to[s]] = plain[s]
                  /\ Plain(copy'.val[copy.to[s]]) = Plain(plain[s])
  <2>. DEFINE one == WriteCopy(copy, map.cones, ct)
              two == WriteCopy(one, map.Hx, ht)
              three == WriteCopy(two, Diagonal, back)
              before == InOrder(copy, n)
              middle == WriteKKT(WriteKKT(before, map.cones, ct), map.Hx, ht)
              after == WriteKKT(middle, Diagonal, back)
  <2>1. /\ copy = [perm |-> copy.perm, to |-> copy.to, at |-> copy.at, val |-> copy.val]
        /\ CopyLaid(map, copy.perm, copy) /\ DOMAIN copy.val = DOMAIN map.at
        /\ \A s \in DOMAIN map.at : /\ ~OnDiagonal(s) => copy.val[copy.to[s]] = KKT[s]
                                    /\ Plain(copy.val[copy.to[s]]) = Plain(KKT[s])
    BY <1>3, <1>9 DEF Copied
  <2>2. IsPermutation(copy.to, n)
    BY <2>1 DEF CopyLaid
  <2>3. /\ OneToOne(map.cones) /\ OneToOne(map.Hx)
        /\ \A of \in DOMAIN map.cones, k \in DOMAIN map.Hx : map.cones[of] # map.Hx[k]
        /\ \A of \in DOMAIN map.cones : map.cones[of] \in DOMAIN map.at
        /\ \A k \in DOMAIN map.Hx : map.Hx[k] \in DOMAIN map.at
    BY <1>4 DEF PlacesApart, Disjoint, Within
  <2>. HIDE DEF n, back
  <2>4. /\ one = [perm |-> copy.perm, to |-> copy.to, at |-> copy.at, val |-> one.val]
        /\ DOMAIN one.val = 0..(n - 1)
        /\ InOrder(one, n) = WriteKKT(before, map.cones, ct)
    BY <1>8, <1>9, <2>1, <2>2, <2>3, CopyWritten
  <2>. HIDE DEF one
  <2>5. one.perm = copy.perm /\ one.to = copy.to /\ one.at = copy.at
    BY <2>4
  <2>6. /\ two = [perm |-> one.perm, to |-> one.to, at |-> one.at, val |-> two.val]
        /\ DOMAIN two.val = 0..(n - 1)
        /\ InOrder(two, n) = WriteKKT(InOrder(one, n), map.Hx, ht)
    BY <1>8, <1>9, <2>2, <2>3, <2>4, <2>5, CopyWritten
  <2>. HIDE DEF two
  <2>7. /\ two.perm = copy.perm /\ two.to = copy.to /\ two.at = copy.at /\ InOrder(two, n) = middle
        /\ two = [perm |-> copy.perm, to |-> copy.to, at |-> copy.at, val |-> two.val]
    BY <2>4, <2>5, <2>6
  <2>8. DOMAIN before = DOMAIN map.at /\ \A s \in DOMAIN map.at : before[s] = copy.val[copy.to[s]]
    BY <1>8 DEF InOrder
  <2>9. /\ DOMAIN middle = DOMAIN map.at
        /\ \A s \in DOMAIN map.at : \/ middle[s] = plain[s]
                                    \/ middle[s] = before[s] /\ plain[s] = KKT[s]
    <3>1. DOMAIN KKT = DOMAIN map.at
      BY <1>3 DEF Built
    <3>. HIDE DEF before
    <3>2. /\ DOMAIN middle = DOMAIN before
          /\ \A j \in DOMAIN map.cones : map.cones[j] \in DOMAIN before => middle[map.cones[j]] = ct[j]
          /\ \A k \in DOMAIN map.Hx : map.Hx[k] \in DOMAIN before => middle[map.Hx[k]] = ht[k]
          /\ \A s \in DOMAIN before :
               (\A j \in DOMAIN map.cones : map.cones[j] # s) /\ (\A k \in DOMAIN map.Hx : map.Hx[k] # s) =>
                 middle[s] = before[s]
      BY <2>3, WrittenTwice DEF middle
    <3>3. /\ \A j \in DOMAIN map.cones : map.cones[j] \in DOMAIN KKT => plain[map.cones[j]] = ct[j]
          /\ \A k \in DOMAIN map.Hx : map.Hx[k] \in DOMAIN KKT => plain[map.Hx[k]] = ht[k]
          /\ \A s \in DOMAIN KKT :
               (\A j \in DOMAIN map.cones : map.cones[j] # s) /\ (\A k \in DOMAIN map.Hx : map.Hx[k] # s) =>
                 plain[s] = KKT[s]
      BY <2>3, WrittenTwice DEF plain
    <3>. QED  BY <2>8, <3>1, <3>2, <3>3
  <2>. HIDE DEF middle, before
  <2>10. ASSUME NEW s \in DOMAIN map.at
         PROVE  /\ ~OnDiagonal(s) => middle[s] = plain[s]
                /\ Plain(middle[s]) = Plain(plain[s])
    BY <2>1, <2>8, <2>9
  <2>11. CASE ~regularize
    <3>1. copy' = two
      BY <1>2, <2>11 DEF one, two, RegularizedCopy
    <3>2. \A s \in DOMAIN map.at : copy'.val[copy.to[s]] = middle[s]
      BY <1>8, <2>7, <3>1 DEF InOrder
    <3>. QED  BY <1>8, <2>1, <2>6, <2>7, <2>10, <2>11, <3>1, <3>2
  <2>12. CASE regularize
    <3>0. /\ three = [perm |-> two.perm, to |-> two.to, at |-> two.at, val |-> three.val]
          /\ DOMAIN three.val = 0..(n - 1)
          /\ InOrder(three, n) = WriteKKT(InOrder(two, n), Diagonal, back)
      <4>1. \A r \in DOMAIN Diagonal : Diagonal[r] \in 0..(n - 1)
        BY <1>6, <1>8
      <4>. QED  BY <1>6a, <1>8, <1>9, <2>2, <2>6, <2>7, <4>1, CopyWritten
    <3>. HIDE DEF three
    <3>1. copy' = three /\ three.to = copy.to /\ InOrder(three, n) = after
      BY <1>2, <2>7, <2>12, <3>0 DEF one, two, three, back, RegularizedCopy
    <3>2. \A r \in 0..(map.dim - 1) : back[r] = shifted[Diagonal[r]]
      BY <1>4, <1>6 DEF back
    <3>3. /\ DOMAIN after = DOMAIN middle
          /\ \A s \in DOMAIN middle : (\A r \in DOMAIN Diagonal : Diagonal[r] # s) => after[s] = middle[s]
          /\ \A r \in DOMAIN Diagonal : Diagonal[r] \in DOMAIN middle => after[Diagonal[r]] = back[r]
      BY <1>6a, Written
    <3>. HIDE DEF after
    <3>4. ASSUME NEW s \in DOMAIN map.at PROVE three.val[copy.to[s]] = shifted[s]
      <4>1. three.val[copy.to[s]] = after[s]
        BY <1>8, <3>1 DEF InOrder
      <4>2. CASE OnDiagonal(s)
        BY <1>6, <2>9, <3>2, <3>3, <4>1, <4>2
      <4>3. CASE ~OnDiagonal(s)
        <5>1. after[s] = middle[s]
          BY <1>6, <2>9, <3>3, <4>3
        <5>2. shifted[s] = EntryAt(s)
          BY <1>7, <4>3 DEF ShiftedAt
        <5>. QED  BY <1>5, <2>10, <4>1, <4>3, <5>1, <5>2
      <4>. QED  BY <4>2, <4>3
    <3>5. ASSUME NEW s \in DOMAIN map.at
          PROVE  /\ ~OnDiagonal(s) => shifted[s] = plain[s]
                 /\ Plain(shifted[s]) = Plain(plain[s])
      <4>1. plain[s] = EntryAt(s) /\ shifted[s] = ShiftedAt(s)
        BY <1>5, <1>7
      <4>2. CASE regularize /\ OnDiagonal(s)
        <5>1. PICK sign : shifted[s] = plain[s] \cup Shift(sign)
          BY <4>1, <4>2 DEF ShiftedAt
        <5>2. \A t \in Shift(sign) : t[1][1] = "eps"
          BY DEF Shift, Stamp
        <5>. QED  BY <4>2, <5>1, <5>2 DEF Plain
      <4>3. CASE ~(regularize /\ OnDiagonal(s))
        BY <4>1, <4>3 DEF ShiftedAt
      <4>. QED  BY <4>2, <4>3
    <3>. QED  BY <1>8, <2>1, <2>7, <3>0, <3>1, <3>4, <3>5
  <2>. QED  BY <2>11, <2>12
<1>10. Built'
  <2>1. ASSUME NEW s \in DOMAIN map'.at, ~Scaled(s)'
        PROVE  KKT'[s] = HeldAt(s)'
    <3>1. s \in DOMAIN map.at /\ ~Scaled(s) /\ HeldAt(s)' = HeldAt(s)
      BY <1>1, <2>1 DEF Scaled, HeldAt
    <3>2. /\ OneToOne(map.cones) /\ OneToOne(map.Hx)
          /\ \A of \in DOMAIN map.cones, k \in DOMAIN map.Hx : map.cones[of] # map.Hx[k]
      BY <1>4 DEF PlacesApart, Disjoint
    <3>3. DOMAIN KKT = DOMAIN map.at /\ KKT[s] = HeldAt(s)
      BY <1>3, <3>1 DEF Built
    <3>4. plain[s] = KKT[s]
      BY <3>1, <3>2, <3>3, WrittenTwice DEF plain, Scaled
    <3>. QED  BY <1>2, <3>1, <3>3, <3>4
  <2>2. DOMAIN KKT' = DOMAIN map'.at
    BY <1>1, <1>2, <1>5
  <2>3. pxBaseline' = [k \in DOMAIN map'.HxToP |->
                         IF map'.HxToP[k] # 0 THEN {<<<<"P", map'.HxToP[k]>>, dataVer'>>} ELSE {}]
    BY <1>1, <1>3 DEF Built
  <2>. QED  BY <1>4, <2>1, <2>2, <2>3 DEF Built
<1>11. Copied'
  <2>. SUFFICES ASSUME engine # "pardiso" PROVE Copied'
    BY <1>1 DEF Copied
  <2>1. copy'.perm = copy.perm /\ copy'.to = copy.to /\ copy'.at = copy.at
    BY <1>9
  <2>2. CopyLaid(map', copy'.perm, copy')
    BY <1>1, <1>9, <2>1 DEF CopyLaid
  <2>4. \A s \in DOMAIN map'.at : /\ ~OnDiagonal(s)' => copy'.val[copy'.to[s]] = KKT'[s]
                                  /\ Plain(copy'.val[copy'.to[s]]) = Plain(KKT'[s])
    BY <1>1, <1>2, <1>9, <2>1 DEF OnDiagonal
  <2>5. /\ copy' = [perm |-> copy'.perm, to |-> copy'.to, at |-> copy'.at, val |-> copy'.val]
        /\ DOMAIN copy'.val = DOMAIN map'.at
    BY <1>1, <1>9, <2>1
  <2>. QED  BY <2>2, <2>4, <2>5 DEF Copied
<1>12. \A s : /\ EntryAt(s)' = EntryAt(s) /\ ShiftedAt(s)' = ShiftedAt(s)
  <2>1. ASSUME NEW s PROVE EntryAt(s)' = EntryAt(s)
    <3>1. \A source : Stamp(source)' = Stamp(source)
      BY <1>1 DEF Stamp
    <3>. QED  BY <1>1, <3>1 DEF EntryAt
  <2>2. ASSUME NEW s PROVE ShiftedAt(s)' = ShiftedAt(s)
    <3>1. \A sign : Shift(sign)' = Shift(sign)
      BY <1>1 DEF Shift, Stamp
    <3>. QED  BY <1>1, <2>1, <3>1 DEF ShiftedAt, OnDiagonal
  <2>. QED  BY <2>1, <2>2
<1>13. factored' = {<<PositionAt(map.at, s), FactoredAt(s)'>> :
                       s \in {t \in DOMAIN map.at : FactoredAt(t)' # {}}}
  <2>1. CASE engine = "pardiso"
    <3>1. factored' = Nonzero(map.at, shifted, Natural)
      BY <1>2, <2>1 DEF MatrixOf
    <3>2. \A s \in DOMAIN map.at :
            Position(Natural[map.at[s].row], Natural[map.at[s].col]) = PositionAt(map.at, s)
      BY <1>4 DEF SlotsLaid, Natural, PositionAt
    <3>3. factored' = {<<PositionAt(map.at, s), shifted[s]>> : s \in {t \in DOMAIN map.at : shifted[t] # {}}}
      BY <3>1, <3>2 DEF Nonzero
    <3>4. \A s \in DOMAIN map.at : FactoredAt(s)' = shifted[s]
      BY <1>1, <1>7, <1>12, <2>1 DEF FactoredAt
    <3>. QED  BY <3>3, <3>4
  <2>2. CASE engine # "pardiso"
    <3>. DEFINE F(d) == <<Position(copy.perm[copy.at[d].row], copy.perm[copy.at[d].col]), copy'.val[d]>>
                val(s) == copy'.val[copy.to[s]]
                G(s) == <<PositionAt(map.at, s), val(s)>>
                I == 0..(n - 1)
    <3>0. copy'.perm = copy.perm /\ copy'.at = copy.at /\ copy'.to = copy.to
      BY <1>9, <2>2
    <3>1. factored' = {F(d) : d \in {e \in DOMAIN copy.at : copy'.val[e] # {}}}
      <4>1. factored' = Nonzero(copy'.at, copy'.val, copy'.perm)
        BY <1>2, <2>2 DEF MatrixOf
      <4>. QED  BY <3>0, <4>1 DEF Nonzero
    <3>2. /\ DOMAIN copy.at = I /\ IsPermutation(copy.to, n) /\ DOMAIN map.at = I
          /\ \A s \in I : F(copy.to[s]) = G(s)
      BY <1>8, <1>9, <2>2 DEF CopyLaid
    <3>3. \A s \in I : copy.to[s] \in I
      BY <3>2 DEF IsPermutation
    <3>4. \A d \in I : \E s \in I : copy.to[s] = d
      <4>1. IsPermutation(copy.to, n) /\ n \in Nat
        BY <1>8, <3>2
      <4>. HIDE DEF n
      <4>. QED  BY <4>1, PermutationIsBijection
    <3>. HIDE DEF I, F, G, n
    <3>5. {F(d) : d \in {e \in I : copy'.val[e] # {}}} = {G(s) : s \in {t \in I : val(t) # {}}}
      <4>1. ASSUME NEW d \in I, copy'.val[d] # {}
            PROVE  \E s \in I : val(s) # {} /\ F(d) = G(s)
        BY <3>2, <3>3, <3>4, <4>1
      <4>2. ASSUME NEW s \in I, val(s) # {}
            PROVE  \E d \in I : copy'.val[d] # {} /\ F(d) = G(s)
        BY <3>2, <3>3, <4>2
      <4>. HIDE DEF val
      <4>. QED  BY <4>1, <4>2
    <3>6. \A s : FactoredAt(s)' = val(s)
      BY <1>1, <2>2, <3>0 DEF FactoredAt
    <3>. HIDE DEF val
    <3>. QED  BY <3>1, <3>2, <3>5, <3>6 DEF G
  <2>. QED  BY <2>1, <2>2
<1>14. Updated'
  <2>1. \A s \in DOMAIN map'.at : KKT'[s] = EntryAt(s)'
    BY <1>1, <1>2, <1>5, <1>12
  <2>2. dsigns' = Signs(problem', pdSigns')
    BY <1>1 DEF signs
  <2>3. engine' # "pardiso" => ldlSigns' = PermuteArray(dsigns', copy'.perm)
    <3>1. engine # "pardiso" => copy'.perm = copy.perm
      BY <1>9
    <3>. QED  BY <1>1, <3>1
  <2>4. factored' = {<<PositionAt(map'.at, s), FactoredAt(s)'>> :
                       s \in {t \in DOMAIN map'.at : FactoredAt(t)' # {}}}
    BY <1>1, <1>13
  <2>5. ASSUME regularize', NEW s \in DOMAIN map'.at
        PROVE  FactoredAt(s)' = ShiftedAt(s)'
    <3>1. engine # "pardiso" => copy'.to = copy.to
      BY <1>9
    <3>. QED  BY <1>1, <1>7, <1>9, <1>12, <2>5, <3>1 DEF FactoredAt
  <2>. QED  BY <2>1, <2>2, <2>3, <2>4, <2>5 DEF Updated
<1>. QED  BY <1>10, <1>11, <1>14

\* The inductive step: what a construction lays out right stays right over loads,
\* rescalings, updates, solves and failures.
LEMMA MatricesStep == MatricesOK /\ [Next]_vars /\ AssemblyFits' => MatricesOK'
<1>. SUFFICES ASSUME MatricesOK, [Next]_vars, AssemblyFits' PROVE MatricesOK'
  OBVIOUS
<1>1. \E p \in Problems : problem = ProblemOf(p) /\ engine = p.engine
  BY DEF MatricesOK
<1>2. CASE Construct
  <2>1. /\ UNCHANGED <<problem, engine, dataVer, scaleVer, pdSigns>> /\ pc' = "loaded"
    BY <1>2 DEF Construct
  <2>2. Built' /\ Copied'
    BY <1>2, ConstructStep
  <2>. QED  BY <2>1, <2>2 DEF MatricesOK, Factored
<1>3. CASE LoadData
  <2>1. UNCHANGED <<problem, engine, scaleVer, pdSigns>> /\ pc' = "loaded"
    BY <1>3 DEF LoadData, matrices
  <2>2. Built' /\ Copied'
    BY <1>3, LoadDataStep
  <2>. QED  BY <2>1, <2>2 DEF MatricesOK, Factored
<1>4. CASE Rescale \/ UpdateSettings
  <2>1. /\ UNCHANGED <<problem, engine, map, KKT, copy, pxBaseline, dataVer>>
        /\ pdSigns' \in PDSignsSet \cup {AllPlus} /\ pc' \in {"loaded", "scaled"} /\ pc # "new"
    BY <1>4 DEF Rescale, UpdateSettings, matrices, MatricesOK
  <2>2. Built' /\ Copied'
    <3>1. Built /\ Copied
      BY <2>1 DEF MatricesOK
    <3>2. MapFits'
      BY <2>1, <3>1 DEF Built, MapFits
    <3>3. \A s : HeldAt(s)' = HeldAt(s) /\ Scaled(s)' = Scaled(s) /\ OnDiagonal(s)' = OnDiagonal(s)
      BY <2>1 DEF HeldAt, Scaled, OnDiagonal
    <3>4. Built'
      BY <2>1, <3>1, <3>2, <3>3 DEF Built
    <3>. QED  BY <2>1, <3>1, <3>3, <3>4 DEF Copied
  <2>. QED  BY <1>1, <2>1, <2>2 DEF MatricesOK, Factored
<1>5. CASE Update
  <2>1. UNCHANGED <<problem, engine, pdSigns>> /\ pc' \in {"ready", "failed"}
    <3>1. UNCHANGED <<problem, engine, pdSigns>>
      BY <1>5 DEF Update, matrices
    <3>2. \E factors, constant \in BOOLEAN :
             pc' = IF UpdateSucceeds(factors, constant) THEN "ready" ELSE "failed"
      BY <1>5 DEF Update
    <3>. QED  BY <3>1, <3>2
  <2>2. Built' /\ Copied' /\ Updated'
    BY <1>5, UpdateStep
  <2>. QED  BY <1>1, <2>1, <2>2 DEF MatricesOK, Factored
<1>6. CASE Solve \/ Refine \/ Refined
  <2>1. UNCHANGED unrefined /\ pc \in {"ready", "refining"} /\ pc' \in {"ready", "refining", "failed"}
    BY <1>6 DEF Solve, Refine, Refined, Fail
  <2>2. UNCHANGED <<problem, engine, map, KKT, copy, pxBaseline, dsigns, ldlSigns, factored,
                    dataVer, scaleVer, pdSigns, regularize>>
    BY <2>1 DEF unrefined, matrices
  <2>3. Built /\ Copied /\ Updated
    BY <2>1 DEF MatricesOK, Factored
  <2>4. Built' /\ Copied' /\ Updated'
    <3>1. \A s : HeldAt(s)' = HeldAt(s) /\ Scaled(s)' = Scaled(s) /\ OnDiagonal(s)' = OnDiagonal(s)
      BY <2>2 DEF HeldAt, Scaled, OnDiagonal
    <3>2. MapFits'
      BY <2>2, <2>3 DEF Built, MapFits
    <3>3. Built'
      BY <2>2, <2>3, <3>1, <3>2 DEF Built
    <3>4. Copied'
      BY <2>2, <2>3, <3>1 DEF Copied
    <3>5. \A source : Stamp(source)' = Stamp(source)
      BY <2>2 DEF Stamp
    <3>6. \A s : EntryAt(s)' = EntryAt(s)
      BY <2>2, <3>5 DEF EntryAt
    <3>7. \A s : ShiftedAt(s)' = ShiftedAt(s)
      BY <2>2, <3>1, <3>5, <3>6 DEF ShiftedAt, Shift
    <3>8. Updated'
      <4>1. \A s : FactoredAt(s)' = FactoredAt(s)
        BY <2>2, <3>7 DEF FactoredAt
      <4>. QED  BY <2>2, <2>3, <3>6, <3>7, <4>1 DEF Updated
    <3>. QED  BY <3>3, <3>4, <3>8
  <2>. QED  BY <1>1, <2>1, <2>2, <2>4 DEF MatricesOK, Factored
<1>7. CASE Finished \/ UNCHANGED vars
  <2>1. UNCHANGED vars
    BY <1>7 DEF Finished
  <2>2. UNCHANGED <<pc, problem, engine, map, KKT, copy, pxBaseline, dsigns, ldlSigns, factored,
                    dataVer, scaleVer, pdSigns, regularize>>
    BY <2>1 DEF vars
  <2>3. /\ Built' = Built /\ Copied' = Copied /\ Updated' = Updated
    <3>1. \A s : HeldAt(s)' = HeldAt(s) /\ Scaled(s)' = Scaled(s) /\ OnDiagonal(s)' = OnDiagonal(s)
      BY <2>2 DEF HeldAt, Scaled, OnDiagonal
    <3>2. MapFits' = MapFits
      BY <2>2 DEF MapFits
    <3>3. Built' = Built
      BY <2>2, <3>1, <3>2 DEF Built
    <3>4. Copied' = Copied
      BY <2>2, <3>1 DEF Copied
    <3>5. \A source : Stamp(source)' = Stamp(source)
      BY <2>2 DEF Stamp
    <3>6. \A s : EntryAt(s)' = EntryAt(s)
      BY <2>2, <3>5 DEF EntryAt
    <3>7. \A s : ShiftedAt(s)' = ShiftedAt(s)
      BY <2>2, <3>1, <3>5, <3>6 DEF ShiftedAt, Shift
    <3>8. Updated' = Updated
      <4>1. \A s : FactoredAt(s)' = FactoredAt(s)
        BY <2>2, <3>7 DEF FactoredAt
      <4>. QED  BY <2>2, <3>6, <3>7, <4>1 DEF Updated
    <3>. QED  BY <3>3, <3>4, <3>8
  <2>. QED  BY <1>1, <2>2, <2>3 DEF MatricesOK, Factored
<1>. QED  BY <1>2, <1>3, <1>4, <1>5, <1>6, <1>7 DEF Next

\* The matrices over the whole life of a solver, for an assembly that is right.
THEOREM Matrices == Spec /\ []AssemblyFits => []MatricesOK
<1>1. Init => MatricesOK
  BY MatricesInit
<1>2. MatricesOK /\ [Next]_vars /\ AssemblyFits' => MatricesOK'
  BY MatricesStep
<1>. QED  BY <1>1, <1>2, PTL DEF Spec

\* The terms of an entry: none is a shift, and they are those of the mathematics.
LEMMA EntryIsTrue ==
  ASSUME MatricesOK, pc # "new", NEW s \in DOMAIN map.at
  PROVE  /\ \A t \in EntryAt(s) : t[1][1] # "eps"
         /\ EntryAt(s) = TrueEntry(PositionAt(map.at, s)[1], PositionAt(map.at, s)[2])
<1>1. /\ \A of \in DOMAIN map.cones : of[1] \in {"Hs", "E", "D", "XE", "XD"}
      /\ SourcesPlaced(problem, pdSigns, map)
  BY DEF MatricesOK, Built, MapFits, PlacesApart
<1>2. \A of \in DOMAIN map.cones : SourceOf(problem, pdSigns, of)[1] # "eps"
  BY <1>1 DEF SourceOf
<1>3. \A source \in SourcesAt(problem, pdSigns, map, s) : source[1] # "eps"
  BY <1>2 DEF SourcesAt
<1>4. \A source : Stamp(source)[1] = source
  BY DEF Stamp
<1>5. \A t \in EntryAt(s) : t[1][1] # "eps"
  BY <1>3, <1>4 DEF EntryAt
<1>6. SourcesAt(problem, pdSigns, map, s)
        = TrueSources(problem, pdSigns, PositionAt(map.at, s)[1], PositionAt(map.at, s)[2])
  BY <1>1 DEF SourcesPlaced
<1>. QED  BY <1>5, <1>6 DEF EntryAt, TrueEntry

\* The positions that have a slot with terms are those with terms in the mathematics.
LEMMA SlotsAreTrueMatrix ==
  ASSUME MatricesOK, pc # "new"
  PROVE  {<<PositionAt(map.at, s), EntryAt(s)>> : s \in {t \in DOMAIN map.at : EntryAt(t) # {}}}
           = TrueMatrix
<1>. DEFINE Left == {<<PositionAt(map.at, s), EntryAt(s)>> : s \in {t \in DOMAIN map.at : EntryAt(t) # {}}}
<1>1. SourcesPlaced(problem, pdSigns, map) /\ SlotsLaid(map)
  BY DEF MatricesOK, Built, MapFits
<1>2. \A s \in DOMAIN map.at : PositionAt(map.at, s) \in UpperTriangle(map.dim)
  BY <1>1 DEF SlotsLaid, PositionAt, Position, Max2, Min2, UpperTriangle
<1>3. \A e \in Left : e \in TrueMatrix
  BY <1>2, EntryIsTrue DEF TrueMatrix
<1>4. ASSUME NEW e \in TrueMatrix PROVE e \in Left
  <2>1. PICK q \in UpperTriangle(map.dim) : e = <<q, TrueEntry(q[1], q[2])>> /\ e[2] # {}
    BY DEF TrueMatrix
  <2>2. TrueEntry(q[1], q[2]) # {}
    BY <2>1
  <2>3. TrueSources(problem, pdSigns, q[1], q[2]) # {}
    BY <2>2 DEF TrueEntry
  <2>4. PICK s \in DOMAIN map.at : PositionAt(map.at, s) = q
    BY <1>1, <2>3 DEF SourcesPlaced
  <2>5. EntryAt(s) = TrueEntry(q[1], q[2])
    BY <2>4, EntryIsTrue
  <2>. QED  BY <2>1, <2>2, <2>4, <2>5
<1>. QED  BY <1>3, <1>4

\* What is factored in a slot: the terms of the entry, and shifts on the diagonal,
\* those of this factorization if it is regularized.
LEMMA FactoredTerms ==
  ASSUME MatricesOK, Factored, NEW s \in DOMAIN map.at
  PROVE  /\ Plain(FactoredAt(s)) = EntryAt(s)
         /\ \A t \in FactoredAt(s) : t[1][1] = "eps" => OnDiagonal(s)
         /\ regularize =>
              \A t \in FactoredAt(s) : t[1][1] = "eps" =>
                t = <<<<"eps", Signs(problem, pdSigns)[map.at[s].row]>>, scaleVer>>
         /\ regularize /\ OnDiagonal(s) =>
              {t \in FactoredAt(s) : t[1][1] = "eps"}
                = {<<<<"eps", Signs(problem, pdSigns)[map.at[s].row]>>, scaleVer>>}
<1>1. pc # "new" /\ Built /\ Copied /\ Updated
  BY DEF MatricesOK, Factored
<1>2. \A t \in EntryAt(s) : t[1][1] # "eps"
  BY <1>1, EntryIsTrue
<1>3. \A sign : Shift(sign) = {<<<<"eps", sign>>, scaleVer>>}
  BY DEF Shift, Stamp
<1>4. Plain(EntryAt(s)) = EntryAt(s)
  BY <1>2 DEF Plain
<1>5. /\ Plain(ShiftedAt(s)) = EntryAt(s)
      /\ \A t \in ShiftedAt(s) : t[1][1] = "eps" =>
           /\ OnDiagonal(s)
           /\ t = <<<<"eps", Signs(problem, pdSigns)[map.at[s].row]>>, scaleVer>>
      /\ regularize /\ OnDiagonal(s) =>
           {t \in ShiftedAt(s) : t[1][1] = "eps"}
             = {<<<<"eps", Signs(problem, pdSigns)[map.at[s].row]>>, scaleVer>>}
  BY <1>2, <1>3 DEF ShiftedAt, Plain
<1>6. CASE engine = "pardiso"
  BY <1>5, <1>6 DEF FactoredAt
<1>7. CASE engine # "pardiso"
  <2>1. /\ Plain(FactoredAt(s)) = Plain(KKT[s])
        /\ ~OnDiagonal(s) => FactoredAt(s) = KKT[s]
        /\ KKT[s] = EntryAt(s)
        /\ regularize => FactoredAt(s) = ShiftedAt(s)
    BY <1>1, <1>7 DEF Copied, Updated, FactoredAt
  <2>2. \A t \in FactoredAt(s) : t[1][1] = "eps" => OnDiagonal(s)
    BY <1>2, <2>1
  <2>. QED  BY <1>4, <1>5, <2>1, <2>2
<1>. QED  BY <1>6, <1>7

\* The three properties of the matrices follow from the invariant.
LEMMA FactoredTrue == MatricesOK => FactoredIsCurrent
<1>. SUFFICES ASSUME MatricesOK, Factored
     PROVE  /\ Unshifted(factored) = TrueMatrix
            /\ regularize =>
                 \A r \in 0..(map.dim - 1) :
                   \E e \in factored :
                     e[1] = <<r, r>> /\ Cardinality({t \in e[2] : t[1][1] = "eps"}) = 1
            /\ \A e \in factored : \A t \in e[2] :
                 t[1][1] = "eps" => e[1][1] = e[1][2] /\ (regularize => t[2] = scaleVer)
  BY DEF FactoredIsCurrent
<1>. DEFINE F(s) == <<PositionAt(map.at, s), FactoredAt(s)>>
            D == DOMAIN map.at
<1>1. /\ pc # "new" /\ SlotsLaid(map)
      /\ factored = {F(s) : s \in {t \in D : FactoredAt(t) # {}}}
  BY DEF MatricesOK, Factored, Updated, Built, MapFits
<1>2. \A s \in D : Plain(FactoredAt(s)) = EntryAt(s)
  BY <1>1, FactoredTerms
<1>3. Unshifted(factored) = TrueMatrix
  <2>. DEFINE G(s) == <<PositionAt(map.at, s), EntryAt(s)>>
  <2>1. Unshifted(factored) = {f \in {<<e[1], Plain(e[2])>> : e \in factored} : f[2] # {}}
    BY DEF Unshifted, Plain
  <2>2. \A s \in D : <<F(s)[1], Plain(F(s)[2])>> = G(s) /\ G(s)[2] = EntryAt(s)
    BY <1>2
  <2>3. \A s \in D : EntryAt(s) # {} => FactoredAt(s) # {}
    BY <1>2 DEF Plain
  <2>. HIDE DEF F, G, D
  <2>4. {<<e[1], Plain(e[2])>> : e \in factored} = {G(s) : s \in {t \in D : FactoredAt(t) # {}}}
    BY <1>1, <2>2
  <2>5. {f \in {G(s) : s \in {t \in D : FactoredAt(t) # {}}} : f[2] # {}}
          = {G(s) : s \in {t \in D : EntryAt(t) # {}}}
    BY <2>2, <2>3
  <2>6. {G(s) : s \in {t \in D : EntryAt(t) # {}}} = TrueMatrix
    BY <1>1, SlotsAreTrueMatrix DEF G, D
  <2>. QED  BY <2>1, <2>4, <2>5, <2>6
<1>4. ASSUME regularize, NEW r \in 0..(map.dim - 1)
      PROVE  \E e \in factored :
               e[1] = <<r, r>> /\ Cardinality({t \in e[2] : t[1][1] = "eps"}) = 1
  <2>. DEFINE s == map.diagFull[r]
              eps == <<<<"eps", Signs(problem, pdSigns)[r]>>, scaleVer>>
  <2>1. s \in D /\ map.at[s] = [row |-> r, col |-> r] /\ r \in Int
    BY <1>1 DEF SlotsLaid
  <2>2. PositionAt(map.at, s) = <<r, r>> /\ OnDiagonal(s) /\ map.at[s].row = r
    BY <2>1 DEF PositionAt, Position, Min2, Max2, OnDiagonal
  <2>. HIDE DEF s
  <2>3. {t \in FactoredAt(s) : t[1][1] = "eps"} = {eps}
    BY <1>1, <1>4, <2>1, <2>2, FactoredTerms
  <2>. HIDE DEF eps
  <2>4. Cardinality({t \in FactoredAt(s) : t[1][1] = "eps"}) = 1
    BY <2>3, FS_Singleton
  <2>5. F(s) \in factored /\ F(s)[1] = <<r, r>> /\ F(s)[2] = FactoredAt(s)
    BY <1>1, <2>1, <2>2, <2>3
  <2>. QED  BY <2>4, <2>5
<1>5. ASSUME NEW e \in factored, NEW t \in e[2], t[1][1] = "eps"
      PROVE  e[1][1] = e[1][2] /\ (regularize => t[2] = scaleVer)
  <2>1. PICK s \in D : e = F(s)
    BY <1>1
  <2>2. OnDiagonal(s) /\ (regularize => t[2] = scaleVer)
    BY <1>1, <1>5, <2>1, FactoredTerms
  <2>3. PositionAt(map.at, s)[1] = PositionAt(map.at, s)[2]
    BY <2>2 DEF PositionAt, Position, OnDiagonal, Min2, Max2
  <2>. QED  BY <2>1, <2>2, <2>3
<1>. QED  BY <1>3, <1>4, <1>5

\* FactoredIsCurrent: what a factorization sees is the KKT matrix of the data that
\* were loaded last under the last scaling, and one shift on every diagonal entry.
THEOREM FactorIsCurrent == Spec /\ []AssemblyFits => []FactoredIsCurrent
  BY Matrices, FactoredTrue, PTL

LEMMA RefinementTrue == MatricesOK /\ ControlOK => RefinementUsesTrueMatrix
<1>. SUFFICES ASSUME MatricesOK, ControlOK PROVE RefinementUsesTrueMatrix
  OBVIOUS
<1>1. ASSUME Factored PROVE Nonzero(map.at, KKT, Natural) = TrueMatrix
  <2>1. pc # "new" /\ SlotsLaid(map) /\ \A s \in DOMAIN map.at : KKT[s] = EntryAt(s)
    BY <1>1 DEF MatricesOK, Factored, Updated, Built, MapFits
  <2>2. \A s \in DOMAIN map.at :
          Position(Natural[map.at[s].row], Natural[map.at[s].col]) = PositionAt(map.at, s)
    BY <2>1 DEF SlotsLaid, Natural, PositionAt
  <2>3. Nonzero(map.at, KKT, Natural)
          = {<<PositionAt(map.at, s), EntryAt(s)>> : s \in {t \in DOMAIN map.at : EntryAt(t) # {}}}
    BY <2>1, <2>2 DEF Nonzero
  <2>. QED  BY <2>1, <2>3, SlotsAreTrueMatrix
<1>2. ASSUME step # NoStep PROVE step.kept = Least(step.seen)
  <2>1. Kept(step)
    BY <1>2 DEF ControlOK
  <2>2. \A x \in step.seen : (\A y \in step.seen : x <= y) => x = step.kept
    BY <2>1 DEF Kept
  <2>. QED  BY <2>1, <2>2 DEF Kept, Least
<1>. QED  BY <1>1, <1>2 DEF RefinementUsesTrueMatrix

\* RefinementUsesTrueMatrix: the residuals are those of the matrix without the
\* shift, and the refinement returns the best solution that it has seen.
THEOREM RefinementIsTrue == Spec /\ []AssemblyFits => []RefinementUsesTrueMatrix
  BY Matrices, Control, RefinementTrue, PTL

LEMMA SignsTrue == MatricesOK => SignsMatchSentinels
<1>. SUFFICES ASSUME MatricesOK, Factored
     PROVE  /\ \A r \in 0..(map.dim - 1) : HasSign(KKT[map.diagFull[r]], dsigns[r])
            /\ regularize =>
                 \A e \in factored : \A t \in e[2] : t[1][1] = "eps" => HasSign(e[2], t[1][2])
            /\ engine # "pardiso" => \A r \in DOMAIN copy.perm : ldlSigns[r] = dsigns[copy.perm[r]]
  BY DEF SignsMatchSentinels
<1>1. pc # "new" /\ SlotsLaid(map) /\ PlacesApart(map) /\ SignsFit(problem, pdSigns, map) /\ Updated
  BY DEF MatricesOK, Factored, Built, MapFits
<1>2. ASSUME NEW s \in DOMAIN map.at, OnDiagonal(s)
      PROVE  HasSign(EntryAt(s), Signs(problem, pdSigns)[map.at[s].row])
  <2>. DEFINE r == map.at[s].row
  <2>1. r \in 0..(map.dim - 1) /\ map.diagFull[r] = s
    BY <1>1, <1>2, DiagonalSlots
  <2>2. ASSUME NEW source \in SourcesAt(problem, pdSigns, map, s), source[1] = "sign"
        PROVE  source[2] = Signs(problem, pdSigns)[r]
    <3>1. PICK of \in DOMAIN map.cones : map.cones[of] = s /\ source = SourceOf(problem, pdSigns, of)
      BY <2>2 DEF SourcesAt
    <3>2. of[1] \in {"Hs", "E", "D", "XE", "XD"}
      BY <1>1 DEF PlacesApart
    <3>3. of[1] \in {"D", "XD"}
      BY <2>2, <3>1, <3>2 DEF SourceOf
    <3>. QED  BY <1>1, <2>1, <3>1, <3>3 DEF SignsFit
  <2>3. \A source : Stamp(source)[1] = source
    BY DEF Stamp
  <2>. QED  BY <2>2, <2>3 DEF HasSign, EntryAt
<1>3. ASSUME NEW r \in 0..(map.dim - 1)
      PROVE  HasSign(KKT[map.diagFull[r]], dsigns[r])
  <2>1. /\ map.diagFull[r] \in DOMAIN map.at /\ OnDiagonal(map.diagFull[r])
        /\ map.at[map.diagFull[r]].row = r
    BY <1>1, DiagonalSlots
  <2>2. KKT[map.diagFull[r]] = EntryAt(map.diagFull[r]) /\ dsigns[r] = Signs(problem, pdSigns)[r]
    BY <1>1, <2>1 DEF Updated
  <2>. QED  BY <1>2, <2>1, <2>2
<1>4. ASSUME regularize, NEW e \in factored, NEW t \in e[2], t[1][1] = "eps"
      PROVE  HasSign(e[2], t[1][2])
  <2>1. PICK s \in DOMAIN map.at : e = <<PositionAt(map.at, s), FactoredAt(s)>>
    BY <1>1 DEF Updated
  <2>2. OnDiagonal(s) /\ t[1][2] = Signs(problem, pdSigns)[map.at[s].row]
    BY <1>1, <1>4, <2>1, FactoredTerms
  <2>3. \A u \in FactoredAt(s) : u[1][1] # "eps" => u \in EntryAt(s)
    BY FactoredTerms DEF Plain
  <2>. QED  BY <1>2, <2>1, <2>2, <2>3 DEF HasSign
<1>5. ASSUME engine # "pardiso", NEW r \in DOMAIN copy.perm
      PROVE  ldlSigns[r] = dsigns[copy.perm[r]]
  BY <1>1, <1>5 DEF Updated, PermuteArray
<1>. QED  BY <1>3, <1>4, <1>5

\* SignsMatchSentinels: the signs that the regularization expects are those of the
\* diagonal that was factored, in both orders, whatever the signs of the scaling.
THEOREM SignsAreCurrent == Spec /\ []AssemblyFits => []SignsMatchSentinels
  BY Matrices, SignsTrue, PTL
=============================================================================

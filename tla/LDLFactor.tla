------------------------------- MODULE LDLFactor -------------------------------
(***************************************************************************)
(* The factorization engines' view of a matrix: the permuted copy of its   *)
(* upper triangle with the map from the slots of the original (qdldl.rs,   *)
(* and faer_ldl.rs, which sorts the columns of the copy), the elimination  *)
(* tree, and the pass that lays out the factor L row by row.               *)
(* A matrix is an array over slots of [row, col], columns in order.        *)
(***************************************************************************)
EXTENDS Arrays

\* The wanted rows of an elimination order first, in the order they have there:
\* the reordering of new_with_perm_and_xcones.
PullToFront(order, dim, wanted) ==
  LET Wanted(i) == order[i] \in wanted
      Before(j, i) == IF Wanted(j) = Wanted(i) THEN j < i ELSE Wanted(j)
      rank == [i \in 0..(dim - 1) |-> Cardinality({j \in 0..(dim - 1) : Before(j, i)})]
  IN  PermuteArray(order, InversePerm(rank))

\* _permute_symmetric_inner: an entry goes to the column that is the larger of its
\* two new indices, at the cursor of that column.
ColumnAfter(e, iperm) == Max2(iperm[e.row], iperm[e.col])
PermuteSymmetric(K, iperm, dim) ==
  LET colOf == [s \in DOMAIN K |-> ColumnAfter(K[s], iperm)]
      rowOf == [s \in DOMAIN K |-> Min2(iperm[K[s].row], iperm[K[s].col])]
      Start(c) == Cardinality({s \in DOMAIN K : colOf[s] < c})
      start == [c \in 0..(dim - 1) |-> Start(c)]
      Cursor(s) == start[colOf[s]] + Cardinality({t \in 0..(s - 1) : colOf[t] = colOf[s]})
      to == [s \in DOMAIN K |-> Cursor(s)]
      from == InversePerm(to)
  IN  [to |-> to, at |-> [d \in DOMAIN K |-> [row |-> rowOf[from[d]], col |-> colOf[from[d]]]]]

\* sort_csc_columns_with_map: the entries of every column in the order of their
\* rows, and the map to where they are now.
SortColumns(copy) ==
  LET Before(a, b) ==
        \/ copy.at[a].col < copy.at[b].col
        \/ copy.at[a].col = copy.at[b].col /\ copy.at[a].row < copy.at[b].row
      rank == [d \in DOMAIN copy.at |-> Cardinality({x \in DOMAIN copy.at : Before(x, d)})]
  IN  [to |-> [s \in DOMAIN copy.to |-> rank[copy.to[s]]], at |-> PermuteArray(copy.at, InversePerm(rank))]

-----------------------------------------------------------------------------
\* The rows of the strict upper triangle in a column, in stored order.
StoredRows(at, c) ==
  LET ds == Ascending({d \in DOMAIN at : at[d].col = c /\ at[d].row # c})
  IN  [i \in DOMAIN ds |-> at[ds[i]].row]

\* _etree: column j of the copy walks from each of its rows up the tree built so
\* far, until a vertex this column has visited.  lnz counts the visits.
\* Mutant: the walk only stops at the column itself.
Unknown == -1
VisitedIfRoot(tree, v, j) == v = j
Visited(tree, v, j) == tree.work[v] = j
ETree(at, dim) ==
  LET Climb(t, r, j) ==
        LET F[k \in 0..dim] ==
              IF k = 0 THEN [tree |-> t, at |-> r]
              ELSE CHOOSE res \in
                {IF q.at = Unknown \/ Visited(q.tree, q.at, j) THEN [q EXCEPT !.at = Unknown]
                 ELSE LET p == IF q.tree.parent[q.at] = Unknown THEN j ELSE q.tree.parent[q.at]
                      IN  [tree |-> [parent |-> [q.tree.parent EXCEPT ![q.at] = p],
                                     lnz |-> [q.tree.lnz EXCEPT ![q.at] = @ + 1],
                                     work |-> [q.tree.work EXCEPT ![q.at] = j]],
                           at |-> p] : q \in {F[k - 1]}} : TRUE
        IN  F[dim].tree
      Column(t, j) == Fold(LAMBDA u, r : Climb(u, r, j), [t EXCEPT !.work[j] = j], StoredRows(at, j))
      all == [v \in 0..(dim - 1) |-> 0]
  IN  Fold(Column, [parent |-> [v \in DOMAIN all |-> Unknown], lnz |-> all,
                    work |-> [v \in DOMAIN all |-> 0]], [j \in 1..dim |-> j - 1])

\* _factor_inner, row k: each row index of the column of A leads up the tree to
\* the first marked vertex; the path is put on y_idx backwards, and y_idx is then
\* read from its end.
\* Mutant: y_idx is read from its start.
PathUp(tree, v, k, marked) ==
  LET Extend(path, i) ==
        LET next == tree.parent[path[Len(path)]] IN
        IF Len(path) < i \/ next = Unknown \/ next >= k \/ next \in marked THEN path
        ELSE Append(path, next)
  IN  Fold(Extend, <<v>>, [i \in 1..k |-> i])
Backwards(s) == [i \in DOMAIN s |-> s[Len(s) + 1 - i]]
RowIndices(at, tree, k) ==
  Fold(LAMBDA y, v : IF Has(y, v) THEN y ELSE y \o Backwards(PathUp(tree, v, k, Elems(y))),
       <<>>, StoredRows(at, k))
EliminationOrder(y) == Backwards(y)

\* The rows written into each column of L, in the order they are written.
FactorColumns(at, tree, dim) ==
  Fold(LAMBDA L, k : [c \in DOMAIN L |-> IF Has(RowIndices(at, tree, k), c) THEN Append(L[c], k) ELSE L[c]],
       [c \in 0..(dim - 1) |-> <<>>], [k \in 1..(dim - 1) |-> k])
=============================================================================

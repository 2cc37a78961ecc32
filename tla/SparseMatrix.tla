----------------------------- MODULE SparseMatrix -----------------------------
(***************************************************************************)
(* algebra/csc and algebra/csr: matrices in compressed columns or rows.    *)
(*                                                                         *)
(* A CscMatrix is [m, n, col]: col[j] lists the stored entries             *)
(* <<row, value>> of column j in the order of rowval and nzval, so the     *)
(* column pointers are the lengths.  A CsrMatrix is [m, n, row] with       *)
(* entries <<column, value>>.  Rows and columns count from 1.              *)
(***************************************************************************)
EXTENDS Arrays

Sum(s) == Fold(LAMBDA a, b : a + b, 0, s)
Concat(ss) == Fold(LAMBDA a, b : a \o b, <<>>, ss)
Where(s, Test(_)) == SelectSeq(s, LAMBDA e : Test(e))
ConstantSeq(v, n) == [k \in 1..n |-> v]
AbsVal(x) == IF x < 0 THEN -x ELSE x
MaxOf(a, b) == IF a >= b THEN a ELSE b

Nnz(M) == Sum([j \in 1..M.n |-> Len(M.col[j])])
ColPtr(M, j) == Sum([c \in 1..(j - 1) |-> Len(M.col[c])])
Rows(M, j) == {M.col[j][k][1] : k \in DOMAIN M.col[j]}
Zeros(m, n) == [m |-> m, n |-> n, col |-> [j \in 1..n |-> <<>>]]
Identity(n) == [m |-> n, n |-> n, col |-> [j \in 1..n |-> <<<<j, 1>>>>]]

----------------------------------------------------------------------------
(* Construction *)

\* From dense rows; zeros are not stored.
FromRows(m, n, rows) ==
  [m |-> m, n |-> n,
   col |-> [j \in 1..n |-> Where([i \in 1..m |-> <<i, rows[i][j]>>], LAMBDA e : e[2] # 0)]]

\* Entries of one column in the order of their rows, equal rows as they came.
SortIndices(entries) ==
  LET rows == Ascending({e[1] : e \in Elems(entries)})
  IN  Concat([k \in DOMAIN rows |-> Where(entries, LAMBDA e : e[1] = rows[k])])

\* Neighbours with equal rows become one entry, their sum.
Deduplicate(entries) ==
  Fold(LAMBDA done, e :
         IF done # <<>> /\ done[Len(done)][1] = e[1]
         THEN [done EXCEPT ![Len(done)][2] = @ + e[2]]
         ELSE Append(done, e),
       <<>>, entries)

\* triplets: a list of <<row, column, value>>.
FromTriplets(m, n, triplets) ==
  [m |-> m, n |-> n,
   col |-> [j \in 1..n |->
     LET of == Where(triplets, LAMBDA t : t[2] = j)
     IN  Deduplicate(SortIndices([k \in DOMAIN of |-> <<of[k][1], of[k][3]>>]))]]

Canonicalize(M) == [M EXCEPT !.col = [j \in 1..M.n |-> Deduplicate(SortIndices(M.col[j]))]]
DropZeros(M) == [M EXCEPT !.col = [j \in 1..M.n |-> Where(M.col[j], LAMBDA e : e[2] # 0)]]
FindNz(M) == Concat([j \in 1..M.n |-> [k \in DOMAIN M.col[j] |-> <<M.col[j][k][1], j, M.col[j][k][2]>>]])

CheckFormat(M) ==
  \A j \in 1..M.n : /\ \A k \in 1..(Len(M.col[j]) - 1) : M.col[j][k][1] < M.col[j][k + 1][1]
                    /\ Rows(M, j) \subseteq 1..M.m
EqualSparsity(M, O) ==
  /\ <<M.m, M.n>> = <<O.m, O.n>>
  /\ \A j \in 1..M.n : Len(M.col[j]) = Len(O.col[j])
                       /\ \A k \in DOMAIN M.col[j] : M.col[j][k][1] = O.col[j][k][1]

\* The kept rows move up.
SelectRows(M, kept) ==
  [m |-> Cardinality(kept), n |-> M.n,
   col |-> [j \in 1..M.n |->
     LET in == Where(M.col[j], LAMBDA e : e[1] \in kept)
     IN  [k \in DOMAIN in |-> <<Cardinality({r \in kept : r <= in[k][1]}), in[k][2]>>]]]

\* Counts the entries on and above the diagonal, and copies that many from
\* the front of the column.
ToTriu(M) ==
  [M EXCEPT !.col = [j \in 1..M.n |->
    SubSeq(M.col[j], 1, Cardinality({k \in DOMAIN M.col[j] : M.col[j][k][1] <= j}))]]

\* NULL stands for None: no entry is stored there.
CONSTANT NULL
GetEntry(M, i, j) ==
  IF i \in Rows(M, j) THEN (CHOOSE e \in Elems(M.col[j]) : e[1] = i)[2] ELSE NULL
\* The column is sorted; a zero that is not stored stays so.
SetEntry(M, i, j, v) ==
  LET below == Where(M.col[j], LAMBDA e : e[1] < i)
      above == Where(M.col[j], LAMBDA e : e[1] > i)
  IN  IF i \notin Rows(M, j) /\ v = 0 THEN M
      ELSE [M EXCEPT !.col[j] = below \o <<<<i, v>>>> \o above]
IndexToCoord(M, k) ==
  LET j == Greatest({c \in 1..M.n : ColPtr(M, c) < k})
  IN  <<M.col[j][k - ColPtr(M, j)][1], j>>

IsTriu(M) == \A j \in 1..M.n : \A i \in Rows(M, j) : i <= j
IsTril(M) == \A j \in 1..M.n : \A i \in Rows(M, j) : i >= j
IsSymmetric(M) ==
  M.m = M.n /\ \A j \in 1..M.n : \A e \in Elems(M.col[j]) : GetEntry(M, j, e[1]) = e[2]

\* Column by column of the source, each entry goes to the end of its row.
Transpose(M) ==
  [m |-> M.n, n |-> M.m,
   col |-> [i \in 1..M.m |->
     Concat([j \in 1..M.n |->
       LET at == Where(M.col[j], LAMBDA e : e[1] = i) IN [k \in DOMAIN at |-> <<j, at[k][2]>>]])]]

----------------------------------------------------------------------------
(* Concatenation *)

Lowered(M, j, by) == [k \in DOMAIN M.col[j] |-> <<M.col[j][k][1] + by, M.col[j][k][2]>>]
\* mats[a][b] is the block in block row a and block column b.
HVCatFits(mats) ==
  /\ \A a \in DOMAIN mats : Len(mats[a]) = Len(mats[1]) /\ \A b \in DOMAIN mats[a] : mats[a][b].m = mats[a][1].m
  /\ \A b \in DOMAIN mats[1] : \A a \in DOMAIN mats : mats[a][b].n = mats[1][b].n
HVCat(mats) ==
  [m |-> Sum([a \in DOMAIN mats |-> mats[a][1].m]), n |-> Sum([b \in DOMAIN mats[1] |-> mats[1][b].n]),
   col |-> Concat([b \in DOMAIN mats[1] |-> [j \in 1..mats[1][b].n |->
     Concat([a \in DOMAIN mats |->
       Lowered(mats[a][b], j, Sum([c \in 1..(a - 1) |-> mats[c][1].m]))])]])]
HCat(M, O) == HVCat(<<<<M, O>>>>)
VCat(M, O) == HVCat(<<<<M>>, <<O>>>>)
BlockDiag(mats) ==
  [m |-> Sum([b \in DOMAIN mats |-> mats[b].m]), n |-> Sum([b \in DOMAIN mats |-> mats[b].n]),
   col |-> Concat([b \in DOMAIN mats |-> [j \in 1..mats[b].n |->
     Lowered(mats[b], j, Sum([c \in 1..(b - 1) |-> mats[c].m]))]])]

----------------------------------------------------------------------------
(* Compressed rows *)

CsrFromRows(m, n, rows) ==
  [m |-> m, n |-> n,
   row |-> [i \in 1..m |-> Where([j \in 1..n |-> <<j, rows[i][j]>>], LAMBDA e : e[2] # 0)]]
CsrCheckFormat(R) == \A i \in 1..R.m : \A e \in Elems(R.row[i]) : e[1] \in 1..R.n
CsrVCat(R, O) == [m |-> R.m + O.m, n |-> R.n, row |-> R.row \o O.row]
CsrTriplets(R) ==
  Concat([i \in 1..R.m |-> [k \in DOMAIN R.row[i] |-> <<i, R.row[i][k][1], R.row[i][k][2]>>]])
\* Place of the k-th of a list of entries when they are counted out, stably,
\* into the compartments key[1], key[2], ...
Counted(key, k) ==
  Cardinality({l \in DOMAIN key : key[l] < key[k]}) + Cardinality({l \in 1..k : key[l] = key[k]})
ToCsc(R) ==
  [m |-> R.m, n |-> R.n,
   col |-> [j \in 1..R.n |->
     LET of == Where(CsrTriplets(R), LAMBDA t : t[2] = j) IN [k \in DOMAIN of |-> <<of[k][1], of[k][3]>>]]]
CsrToCscMap(R) == LET t == CsrTriplets(R) IN [k \in DOMAIN t |-> Counted([l \in DOMAIN t |-> t[l][2]], k)]
FromCsc(M) ==
  [m |-> M.m, n |-> M.n,
   row |-> [i \in 1..M.m |->
     LET of == Where(FindNz(M), LAMBDA t : t[1] = i) IN [k \in DOMAIN of |-> <<of[k][2], of[k][3]>>]]]
CscToCsrMap(M) == LET t == FindNz(M) IN [k \in DOMAIN t |-> Counted([l \in DOMAIN t |-> t[l][1]], k)]
\* The values of one layout in the order of the other.
MapValues(values, map) == [k \in DOMAIN values |-> values[CHOOSE l \in DOMAIN map : map[l] = k]]
\* nzval := values, the pattern stays.
WithValues(M, values) ==
  [M EXCEPT !.col = [j \in 1..M.n |-> [k \in DOMAIN M.col[j] |-> <<M.col[j][k][1], values[ColPtr(M, j) + k]>>]]]

----------------------------------------------------------------------------
(* Arithmetic *)

\* y := a M x + b y, and with the transpose of M.
Gemv(M, y, x, a, b) ==
  [i \in 1..M.m |-> b * y[i] + a * Sum([j \in 1..M.n |->
     x[j] * Sum([k \in DOMAIN M.col[j] |-> IF M.col[j][k][1] = i THEN M.col[j][k][2] ELSE 0])])]
GemvT(M, y, x, a, b) ==
  [j \in 1..M.n |-> b * y[j] + a * Sum([k \in DOMAIN M.col[j] |-> M.col[j][k][2] * x[M.col[j][k][1]]])]
\* M holds one triangle of a symmetric matrix.
Symv(M, y, x, a, b) ==
  [i \in 1..M.n |-> b * y[i] + a * Sum([j \in 1..M.n |->
     Sum([k \in DOMAIN M.col[j] |->
       LET r == M.col[j][k][1]
           v == M.col[j][k][2]
       IN  (IF r = i THEN v * x[j] ELSE 0) + (IF r # j /\ j = i THEN v * x[r] ELSE 0)])])]
QuadForm(M, y, x) ==
  Sum([j \in 1..M.n |-> Sum([k \in DOMAIN M.col[j] |->
     LET r == M.col[j][k][1]
         v == M.col[j][k][2]
     IN  IF r = j THEN v * x[j] * y[j] ELSE v * x[r] * y[j] + v * y[r] * x[j]])])

ColSums(M) == [j \in 1..M.n |-> Sum([k \in DOMAIN M.col[j] |-> M.col[j][k][2]])]
RowSums(M) ==
  [i \in 1..M.m |-> Sum([k \in 1..Nnz(M) |-> IF FindNz(M)[k][1] = i THEN FindNz(M)[k][3] ELSE 0])]
\* Largest magnitudes, starting from what norms holds.
Largest(from, values) == Fold(LAMBDA a, v : MaxOf(a, AbsVal(v)), from, values)
ColNorms(M, norms) == [j \in 1..M.n |-> Largest(norms[j], [k \in DOMAIN M.col[j] |-> M.col[j][k][2]])]
RowNorms(M, norms) ==
  [i \in 1..M.m |->
     LET of == Where(FindNz(M), LAMBDA t : t[1] = i) IN Largest(norms[i], [k \in DOMAIN of |-> of[k][3]])]
\* One triangle is stored: an entry counts for its row and for its column.
ColNormsSym(M, norms) ==
  [i \in 1..M.n |->
     LET of == Where(FindNz(M), LAMBDA t : t[1] = i \/ t[2] = i) IN Largest(norms[i], [k \in DOMAIN of |-> of[k][3]])]

\* Each entry times c, times its row's and its column's factor.
Rescaled(M, c, l, r) ==
  [M EXCEPT !.col = [j \in 1..M.n |->
    [k \in DOMAIN M.col[j] |-> <<M.col[j][k][1], M.col[j][k][2] * c * l[M.col[j][k][1]] * r[j]>>]]]
Scale(M, c) == Rescaled(M, c, ConstantSeq(1, M.m), ConstantSeq(1, M.n))
LScale(M, l) == Rescaled(M, 1, l, ConstantSeq(1, M.n))
RScale(M, r) == Rescaled(M, 1, ConstantSeq(1, M.m), r)
LRScale(M, l, r) == Rescaled(M, 1, l, r)
=============================================================================

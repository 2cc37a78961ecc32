--------------------------------- MODULE Field ---------------------------------
(***************************************************************************)
(* Numbers for the models that do arithmetic.  The repository computes     *)
(* with floating point; what the properties of these models are about, is  *)
(* a matter of formulas, so they compute exactly, in the field of the      *)
(* integers modulo a prime: sums, products and quotients of any length     *)
(* stay small, and two formulas that differ give different values.  There  *)
(* is no order, so what depends on signs and sizes is given separately.    *)
(***************************************************************************)
EXTENDS Integers, Sequences, SparseMatrix

Prime == 263
Num == 0..(Prime - 1)
Mod(a) == a % Prime
ModSeq(s) == [k \in DOMAIN s |-> Mod(s[k])]
RecipOf == [a \in 1..(Prime - 1) |-> CHOOSE b \in 1..(Prime - 1) : (a * b) % Prime = 1]
Recip(a) == RecipOf[Mod(a)]
Div(a, b) == Mod(Mod(a) * Recip(b))
Half == Recip(2)

\* v itself.  (The comparison makes TLC compute it, and once.)
Value(v) == CHOOSE r \in {v} : r = r

FSum(s) == Fold(LAMBDA a, b : (a + b) % Prime, 0, s)
FDot(u, v) == FSum([k \in DOMAIN u |-> u[k] * v[k]])
Plus(u, v) == [k \in DOMAIN u |-> Mod(u[k] + v[k])]
Minus(u, v) == [k \in DOMAIN u |-> Mod(u[k] - v[k])]
Times(u, v) == [k \in DOMAIN u |-> Mod(u[k] * v[k])]
By(a, u) == [k \in DOMAIN u |-> Mod(a * u[k])]
Inverses(u) == [k \in DOMAIN u |-> Recip(u[k])]
Unit(n, k) == [l \in 1..n |-> IF l = k THEN 1 ELSE 0]
MatVec(rows, v) == [i \in DOMAIN rows |-> FDot(rows[i], v)]

\* Values of a sparse matrix as numbers.
ModMatrix(M) == [M EXCEPT !.col = [j \in 1..M.n |-> [k \in DOMAIN M.col[j] |-> <<M.col[j][k][1], Mod(M.col[j][k][2])>>]]]
\* Scale and LRScale on numbers.
FScale(M, c) == ModMatrix(Scale(M, c))
FLRScale(M, l, r) == ModMatrix(LRScale(M, l, r))

\* Dense rows of a sparse matrix.
RowsOf(M) ==
  [i \in 1..M.m |-> [j \in 1..M.n |->
     FSum([k \in DOMAIN M.col[j] |-> IF M.col[j][k][1] = i THEN M.col[j][k][2] ELSE 0])]]
TransposeRows(rows, n) == [j \in 1..n |-> [i \in DOMAIN rows |-> rows[i][j]]]
\* P is stored by its upper triangle.
SymRowsOf(P) ==
  [i \in 1..P.n |-> [j \in 1..P.n |->
     LET r == IF i <= j THEN i ELSE j
         c == IF i <= j THEN j ELSE i
     IN  FSum([k \in DOMAIN P.col[c] |-> IF P.col[c][k][1] = r THEN P.col[c][k][2] ELSE 0])]]

\* Gauss-Jordan elimination of rows * v = rhs for n unknowns; unknowns that
\* stay free are 0.  NULL if there is no solution.
Pivot(tab, c) ==
  LET free == {i \in DOMAIN tab.rows : i \notin tab.used /\ tab.rows[i][c] # 0}
  IN  IF free = {} THEN tab
      ELSE CHOOSE next \in
             {[rows |-> [i \in DOMAIN tab.rows |->
                 IF i = p THEN top
                 ELSE IF tab.rows[i][c] = 0 THEN tab.rows[i]
                 ELSE [k \in DOMAIN top |-> (tab.rows[i][k] - tab.rows[i][c] * top[k]) % Prime]],
               used |-> tab.used \cup {p},
               at |-> [tab.at EXCEPT ![c] = p]]
              : p \in {Least(free)}, top \in {By(Recip(tab.rows[Least(free)][c]), tab.rows[Least(free)])}} : next = next
LinearSolve(rows, rhs, n) ==
  CHOOSE v \in
    {IF \E i \in DOMAIN t.rows : i \notin t.used /\ t.rows[i][n + 1] # 0 THEN NULL
     ELSE [c \in 1..n |-> IF t.at[c] = 0 THEN 0 ELSE t.rows[t.at[c]][n + 1]]
     : t \in {Fold(Pivot, Value([rows |-> [i \in DOMAIN rows |-> Append(ModSeq(rows[i]), Mod(rhs[i]))],
                                 used |-> {}, at |-> ConstantSeq(0, n)]),
                   [c \in 1..n |-> c])}} : v = v
=============================================================================

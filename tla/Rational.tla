-------------------------------- MODULE Rational --------------------------------
(***************************************************************************)
(* Fractions, for the model of the active-set solver: unlike the field of  *)
(* module Field they have an order, and the solver decides by signs.  A    *)
(* fraction is <<numerator, denominator>> in lowest terms with a positive  *)
(* denominator, so equal numbers are equal values.                         *)
(***************************************************************************)
EXTENDS Arrays

Rat == Int \X (Nat \ {0})
Vector == Seq(Rat)
Matrix == Seq(Vector)

AbsInt(a) == IF a < 0 THEN -a ELSE a
GcdOf[a, b \in Nat] == IF b = 0 THEN a ELSE GcdOf[b, a % b]
Frac(a, b) ==
  LET g == GcdOf[AbsInt(a), AbsInt(b)] * (IF b < 0 THEN -1 ELSE 1)
  IN  <<a \div g, b \div g>>
Int2Q(a) == <<a, 1>>
Zero == <<0, 1>>
One == <<1, 1>>

\* v itself, computed.
Computed(v) == CHOOSE r \in {v} : r = r

Neg(a) == <<-a[1], a[2]>>
Sum2[a, b \in Rat] ==
  LET g == GcdOf[a[2], b[2]]
  IN  Frac(a[1] * (b[2] \div g) + b[1] * (a[2] \div g), a[2] * (b[2] \div g))
Product2[a, b \in Rat] ==
  LET g == GcdOf[AbsInt(a[1]), b[2]]
      h == GcdOf[AbsInt(b[1]), a[2]]
  IN  <<(a[1] \div g) * (b[1] \div h), (a[2] \div h) * (b[2] \div g)>>
Add(a, b) == Sum2[a, b]
Sub(a, b) == Sum2[a, Neg(b)]
Mul(a, b) == Product2[a, b]
Inv(a) == IF a[1] < 0 THEN <<-a[2], -a[1]>> ELSE <<a[2], a[1]>>
Quot(a, b) == Mul(a, Inv(b))
Lt(a, b) == Sub(a, b)[1] < 0
Le(a, b) == Sub(a, b)[1] <= 0
Abs(a) == <<AbsInt(a[1]), a[2]>>
IsPositive(a) == a[1] > 0
\* The root of a square.  (The instances have no others.)
IntRoot(a) == CHOOSE r \in 0..a : r * r = a
Root(a) == <<IntRoot(a[1]), IntRoot(a[2])>>

\* Vectors and matrices, as sequences of fractions and of rows.
TotalOf[v \in Vector] == Fold(Add, Zero, v)
ProductOf[u, v \in Vector] == TotalOf[[k \in DOMAIN u |-> Mul(u[k], v[k])]]
Total(v) == TotalOf[v]
Dot(u, v) == ProductOf[u, v]
VAdd(u, v) == [k \in DOMAIN u |-> Add(u[k], v[k])]
VSub(u, v) == [k \in DOMAIN u |-> Sub(u[k], v[k])]
VScale(a, u) == [k \in DOMAIN u |-> Mul(a, u[k])]
VMul(u, v) == [k \in DOMAIN u |-> Mul(u[k], v[k])]
ZeroVec(n) == [k \in 1..n |-> Zero]
Basis(n, k) == [l \in 1..n |-> IF l = k THEN One ELSE Zero]
MVec(rows, v) == [i \in DOMAIN rows |-> Dot(rows[i], v)]
Transposed(rows, n) == [j \in 1..n |-> [i \in DOMAIN rows |-> rows[i][j]]]
\* rows' * v for rows of length n.
TVec(rows, v, n) == MVec(Transposed(rows, n), v)
LargestAbs(v) == CHOOSE a \in {Abs(v[k]) : k \in DOMAIN v} : \A k \in DOMAIN v : Le(Abs(v[k]), a)

\* The solution of rows * x = rhs by elimination; rows is regular.
Eliminated[rows \in Matrix, k \in Nat] ==
  IF k = 0 THEN rows
  ELSE LET t == Eliminated[rows, k - 1]
           n == Len(rows)
           p == Least({i \in k..n : t[i][k] # Zero})
           s == Computed([i \in 1..n |-> t[IF i = k THEN p ELSE IF i = p THEN k ELSE i]])
           top == Computed(VScale(Inv(s[k][k]), s[k]))
       IN  Computed([i \in 1..n |-> IF i = k THEN top ELSE VSub(s[i], VScale(s[i][k], top))])
EliminationOf[rows \in Matrix, rhs \in Vector] ==
  LET n == Len(rows)
      t == Computed(Eliminated[[i \in 1..n |-> Append(rows[i], rhs[i])], n])
  IN  [i \in 1..n |-> t[i][n + 1]]
Solution(rows, rhs) == EliminationOf[rows, rhs]

\* Have the first k steps of the elimination of a symmetric matrix without
\* exchanges, a Cholesky factorization, positive pivots, and what is left?
Schur[rows \in Matrix, k \in Nat] ==
  IF k = 0 THEN [ok |-> TRUE, rows |-> rows]
  ELSE LET t == Schur[rows, k - 1]
           row(i) == VSub(t.rows[i], VScale(Quot(t.rows[i][k], t.rows[k][k]), t.rows[k]))
       IN  IF ~t.ok \/ ~IsPositive(t.rows[k][k]) THEN [t EXCEPT !.ok = FALSE]
           ELSE [t EXCEPT !.rows = Computed([i \in DOMAIN rows |-> IF i <= k THEN t.rows[i] ELSE row(i)])]
PivotsArePositive(rows) == Schur[rows, Len(rows)].ok
=============================================================================

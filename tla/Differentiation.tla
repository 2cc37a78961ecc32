---------------------------- MODULE Differentiation ----------------------------
(***************************************************************************)
(* diff/kkt: derivatives of a solution by the problem data, through the    *)
(* homogeneous embedding                                                   *)
(*                                                                         *)
(*        x    w     du     du_x    tau                                    *)
(*      [ P    A'           -Hx     q   ]   stationarity                   *)
(*      [ A    I     -I             -b  ]   primal                         *)
(*  J = [      I     -H                 ]   cones                          *)
(*      [ E               I - Hx        ]   direct-x cones                 *)
(*      [ c1'  c2'                  c3  ]   embedding                      *)
(*                                                                         *)
(* with one more row and column for each rank-one part of a block of H and *)
(* Hx.  The adjoint solves J' l = rhs, the forward derivative J v = rhs;   *)
(* both are done in the code with one symmetric matrix [I J; J' -eI],      *)
(* e near 0, of which this module has the limit and the pattern.           *)
(*                                                                         *)
(* dat is the problem in the solver's scaling: [P, A, q, b, cones,         *)
(* xcones], P by its upper triangle.  pt is the point [x, s, z, zx].       *)
(* tau is 1 throughout, as in both callers.                                *)
(***************************************************************************)
EXTENDS ConeDerivatives

Kind(xcones) == [k \in DOMAIN xcones |-> Cone(xcones[k].kind, Len(xcones[k].idx))]
FlatIndex(xcones) == Concat([k \in DOMAIN xcones |-> xcones[k].idx])
Gathered(x, xcones) == [k \in DOMAIN FlatIndex(xcones) |-> x[FlatIndex(xcones)[k]]]
\* count_expansion_vars of the blocks before k.
RankOf(block) == IF block.form = "dense" THEN 0 ELSE Len(block.rank)
ExpBefore(blocks, k) == Sum([l \in 1..(k - 1) |-> RankOf(blocks[l])])
Expansions(blocks) == ExpBefore(blocks, Len(blocks) + 1)

\* compute_hsde_coefficients at tau = 1.
Coefficients(dat, x) ==
  LET Px == MatVec(SymRowsOf(dat.P), x)
  IN  [c1 |-> [j \in DOMAIN x |-> Mod(-2 * Px[j] - dat.q[j])],
       c2 |-> [i \in DOMAIN dat.b |-> Mod(-dat.b[i])],
       c3 |-> FDot(x, Px)]

\* Everything the assembly looks up: sizes, offsets and blocks.
Sizes(dat, H, Hx, coef, n, m, xn) ==
  [dat |-> dat, H |-> H, Hx |-> Hx, coef |-> coef, n |-> n, m |-> m, xn |-> xn,
   tau |-> n + 2 * m + xn + 1, slack |-> n + 2 * m + xn + 1,
   direct |-> n + 2 * m + xn + 1 + Expansions(H),
   dim |-> n + 2 * m + xn + 1 + Expansions(H) + Expansions(Hx)]
System(dat, H, Hx, coef) ==
  CHOOSE sys \in {Sizes(dat, h, hx, coef, dat.P.n, dat.A.m, Len(FlatIndex(dat.xcones)))
                  : h \in {Value(H)}, hx \in {Value(Hx)}} : sys = sys

DuRow(sys, k, l) == sys.n + sys.m + Offset([c \in DOMAIN sys.H |-> BlockDim(sys.H[c])], k) + l
XRow(sys, k, l) == sys.n + 2 * sys.m + Offset([c \in DOMAIN sys.Hx |-> BlockDim(sys.Hx[c])], k) + l

\* The columns of J as build_hsde_augmented_system_sparse_full lists them:
\* rows and values, in the order of insertion.
XColumn(sys, j) ==
  sys.dat.P.col[j]
  \o Concat([d \in 1..(sys.n - j) |->
       LET c == j + d
           at == Where(sys.dat.P.col[c], LAMBDA e : e[1] = j)
       IN  [k \in DOMAIN at |-> <<c, at[k][2]>>]])
  \o Lowered(sys.dat.A, j, sys.n)
  \o Concat([k \in DOMAIN sys.Hx |->
       LET idx == sys.dat.xcones[k].idx
           at == Where([l \in DOMAIN idx |-> l], LAMBDA l : idx[l] = j)
       IN  [l \in DOMAIN at |-> <<XRow(sys, k, at[l]), 1>>]])
  \o <<<<sys.tau, sys.coef.c1[j]>>>>
WColumn(sys, i) ==
  Concat([j \in 1..sys.n |->
    LET at == Where(sys.dat.A.col[j], LAMBDA e : e[1] = i) IN [k \in DOMAIN at |-> <<j, at[k][2]>>]])
  \o <<<<sys.n + i, 1>>, <<sys.n + sys.m + i, 1>>, <<sys.tau, sys.coef.c2[i]>>>>
DuColumn(sys, k, l) ==
  LET block == sys.H[k]
  IN  <<<<DuRow(sys, k, l) - sys.m, -1>>>>
      \o (IF block.form = "dense"
          THEN [r \in DOMAIN block.data |-> <<DuRow(sys, k, r), -block.data[r][l]>>]
          ELSE <<<<DuRow(sys, k, l), -block.diag[l]>>>>
               \o [r \in DOMAIN block.rank |->
                     <<sys.slack + ExpBefore(sys.H, k) + r, -block.rank[r].r[l]>>])
\* A mutant: the direct-x cone does not enter stationarity.
DuXColumnInConeOnly(sys, k, l) ==
  LET block == sys.Hx[k]
  IN  IF block.form = "dense"
      THEN [r \in DOMAIN block.data |-> <<XRow(sys, k, r), IF r = l THEN 1 - block.data[r][l] ELSE -block.data[r][l]>>]
      ELSE <<<<XRow(sys, k, l), 1 - block.diag[l]>>>>
           \o [r \in DOMAIN block.rank |-> <<sys.direct + ExpBefore(sys.Hx, k) + r, -block.rank[r].r[l]>>]
DuXColumn(sys, k, l) ==
  LET block == sys.Hx[k]
      idx == sys.dat.xcones[k].idx
  IN  IF block.form = "dense"
      THEN Concat([r \in DOMAIN block.data |->
             <<<<idx[r], -block.data[r][l]>>,
               <<XRow(sys, k, r), IF r = l THEN 1 - block.data[r][l] ELSE -block.data[r][l]>>>>])
      ELSE <<<<idx[l], -block.diag[l]>>, <<XRow(sys, k, l), 1 - block.diag[l]>>>>
           \o [r \in DOMAIN block.rank |->
                 <<sys.direct + ExpBefore(sys.Hx, k) + r, -block.rank[r].r[l]>>]
TauColumn(sys) ==
  [j \in 1..sys.n |-> <<j, sys.dat.q[j]>>]
  \o [i \in 1..sys.m |-> <<sys.n + i, Mod(-sys.dat.b[i])>>]
  \o <<<<sys.tau, sys.coef.c3>>>>
SlackExpansionColumn(sys, k, r) ==
  LET part == sys.H[k].rank[r]
  IN  [l \in DOMAIN part.l |-> <<DuRow(sys, k, l), Mod(-part.c * part.l[l])>>]
      \o <<<<sys.slack + ExpBefore(sys.H, k) + r, 1>>>>
DirectExpansionColumn(sys, k, r) ==
  LET part == sys.Hx[k].rank[r]
      idx == sys.dat.xcones[k].idx
  IN  Concat([l \in DOMAIN part.l |->
        LET v == Mod(-part.c * part.l[l]) IN <<<<idx[l], v>>, <<XRow(sys, k, l), v>>>>])
      \o <<<<sys.direct + ExpBefore(sys.Hx, k) + r, 1>>>>

\* J: the entries of each column sorted, those of one row merged.
Embedding(sys) ==
  LET cols ==
          [i \in 1..sys.n |-> XColumn(sys, i)]
          \o [i \in 1..sys.m |-> WColumn(sys, i)]
          \o Concat([k \in DOMAIN sys.H |-> [l \in 1..BlockDim(sys.H[k]) |-> DuColumn(sys, k, l)]])
          \o Concat([k \in DOMAIN sys.Hx |-> [l \in 1..BlockDim(sys.Hx[k]) |-> DuXColumn(sys, k, l)]])
          \o <<TauColumn(sys)>>
          \o Concat([k \in DOMAIN sys.H |-> [r \in 1..RankOf(sys.H[k]) |-> SlackExpansionColumn(sys, k, r)]])
          \o Concat([k \in DOMAIN sys.Hx |-> [r \in 1..RankOf(sys.Hx[k]) |-> DirectExpansionColumn(sys, k, r)]])
  IN  Value([m |-> sys.dim, n |-> sys.dim,
             col |-> [j \in DOMAIN cols |-> Deduplicate(Value(SortIndices(cols[j])))]])
\* Rows stored in the columns of [I J; J' -eI], upper triangle.
AugmentedPattern(J) ==
  [j \in 1..(2 * J.n) |->
     IF j <= J.n THEN <<j>>
     ELSE [k \in DOMAIN J.col[j - J.n] |-> J.col[j - J.n][k][1]] \o <<j>>]

----------------------------------------------------------------------------
(* The systems and what is read from their solutions *)

\* H at a point, the coefficients there, and the system they make:
\* differentiate_adjoint_hsde_with_xcones up to the right-hand side.
SystemAt(dat, pt, method, mu) ==
  System(dat, Derivatives(dat.cones, pt.s, pt.z, method, mu),
         Derivatives(Kind(dat.xcones), Gathered(pt.x, dat.xcones), pt.zx, method, mu),
         Coefficients(dat, pt.x))
\* GradState::new_with_xcones: the same with placeholders.
PlaceholderSystem(dat) ==
  System(dat, Placeholders(dat.cones), Placeholders(Kind(dat.xcones)),
         [c1 |-> ConstantSeq(1, dat.P.n), c2 |-> ConstantSeq(1, dat.A.m), c3 |-> 1])

\* build_adjoint_rhs_full.  bar: the gradient by x, z, s and zx.
AdjointRhs(bar, pt, xcones) ==
  LET idx == FlatIndex(xcones)
  IN  [j \in DOMAIN pt.x |-> FSum(<<bar.x[j]>> \o [k \in DOMAIN idx |-> IF idx[k] = j THEN bar.zx[k] ELSE 0])]
      \o Plus(bar.z, bar.s) \o By(-1, bar.s) \o bar.zx
      \o <<Mod(-(FDot(bar.x, pt.x) + FDot(bar.z, pt.z) + FDot(bar.s, pt.s) + FDot(bar.zx, pt.zx)))>>
\* extract_hsde_gradients_full, with compute_gradient_P_hsde and _A_hsde: on
\* the stored entries of P and A.
GradientP(P, l, l4, x) ==
  [P EXCEPT !.col = [j \in 1..P.n |-> [k \in DOMAIN P.col[j] |->
    LET i == P.col[j][k][1]
    IN  <<i, Mod(Mod(-Half * Mod(l[i] * x[j] + l[j] * x[i])) + Mod(l4 * x[i]) * x[j])>>]]]
GradientA(A, l1, l2, x, z) ==
  [A EXCEPT !.col = [j \in 1..A.n |-> [k \in DOMAIN A.col[j] |->
    LET i == A.col[j][k][1] IN <<i, Mod(-(l1[j] * z[i] + l2[i] * x[j]))>>]]]
Gradients(dat, pt, lambda, xn) ==
  LET n == dat.P.n
      m == dat.A.m
      l1 == SubSeq(lambda, 1, n)
      l2 == SubSeq(lambda, n + 1, n + m)
      l4 == lambda[n + 2 * m + xn + 1]
  IN  [dP |-> GradientP(dat.P, l1, l4, pt.x),
       dq |-> [j \in 1..n |-> Mod(l4 * pt.x[j] - l1[j])],
       dA |-> GradientA(dat.A, l1, l2, pt.x, pt.z),
       db |-> [i \in 1..m |-> Mod(l2[i] + l4 * pt.z[i])]]
Padded(v, n) == v \o ConstantSeq(0, n - Len(v))
AdjointHsde(dat, pt, bar, method, mu) ==
  CHOOSE g \in
    {Gradients(dat, pt, lambda, Len(FlatIndex(dat.xcones)))
     : lambda \in
       {LinearSolve(TransposeRows(rows, Len(rows)), Padded(AdjointRhs(bar, pt, dat.xcones), Len(rows)), Len(rows))
        : rows \in {Value(RowsOf(Embedding(sys))) : sys \in {SystemAt(dat, pt, method, mu)}}}} : g = g

\* differentiate_hsde: direct-x cones have no part in it.
Slacks(dat) == [dat EXCEPT !.xcones = <<>>]
ForwardRhs(pt, dPx, dAx, dAtz, dth) ==
  By(-1, Plus(Plus(dPx, dAtz), dth.q)) \o Minus(dth.b, dAx)
DataChange(pt, dth) ==
  ForwardRhs(pt, MatVec(SymRowsOf(dth.P), pt.x), MatVec(RowsOf(dth.A), pt.x),
             MatVec(TransposeRows(RowsOf(dth.A), dth.A.n), pt.z), dth)
\* The direction without its part along the point.
Direction(pt, v, n, m, tau) ==
  [x |-> [j \in 1..n |-> Mod(v[j] - v[tau] * pt.x[j])],
   z |-> [i \in 1..m |-> Mod(v[n + i] - v[tau] * pt.z[i])],
   s |-> [i \in 1..m |-> Mod(v[n + i] - v[n + m + i] - v[tau] * pt.s[i])]]
ForwardHsde(dat, pt, dth, method, mu) ==
  CHOOSE d \in
    {Direction(pt, v, dat.P.n, dat.A.m, dat.P.n + 2 * dat.A.m + 1)
     : v \in {LinearSolve(rows,
                Padded(DataChange(pt, dth) \o ConstantSeq(0, dat.A.m)
                       \o <<Mod(FDot(pt.x, MatVec(SymRowsOf(dth.P), pt.x)) + FDot(dth.q, pt.x) + FDot(dth.b, pt.z))>>,
                       Len(rows)), Len(rows))
              : rows \in {Value(RowsOf(Embedding(sys)))
                          : sys \in {SystemAt(Slacks(dat), [pt EXCEPT !.zx = <<>>], method, mu)}}}} : d = d

\* build_qp_kkt_matrix: the upper triangle of [P A'; A 0], the entries of P
\* taken from either triangle and merged.
QpColumns(dat) ==
  [j \in 1..dat.P.n |->
     Deduplicate(SortIndices(Where(dat.P.col[j], LAMBDA e : e[1] <= j)
       \o Concat([c \in 1..(j - 1) |->
             LET at == Where(dat.P.col[c], LAMBDA e : e[1] = j) IN [k \in DOMAIN at |-> <<c, at[k][2]>>]])
       \o <<<<j, 0>>>>))]
  \o [i \in 1..dat.A.m |->
       Concat([j \in 1..dat.P.n |->
         LET at == Where(dat.A.col[j], LAMBDA e : e[1] = i) IN [k \in DOMAIN at |-> <<j, at[k][2]>>]])
       \o <<<<dat.P.n + i, 0>>>>]
QpSolve(dat, rhs) ==
  LET dim == dat.P.n + dat.A.m
  IN  LinearSolve(SymRowsOf([m |-> dim, n |-> dim, col |-> QpColumns(dat)]), rhs, dim)
ForwardQp(dat, pt, dth) ==
  CHOOSE d \in {[x |-> SubSeq(v, 1, dat.P.n), z |-> SubSeq(v, dat.P.n + 1, dat.P.n + dat.A.m), s |-> ConstantSeq(0, dat.A.m)]
                : v \in {QpSolve(dat, DataChange(pt, dth))}} : TRUE
\* The gradient by s has no part in it.
AdjointQp(dat, pt, bar) ==
  CHOOSE g \in {[dP |-> GradientP(dat.P, l1, 0, pt.x), dq |-> By(-1, l1), dA |-> GradientA(dat.A, l1, l2, pt.x, pt.z), db |-> l2]
                : l1 \in {SubSeq(QpSolve(dat, bar.x \o bar.z), 1, dat.P.n)},
                  l2 \in {SubSeq(QpSolve(dat, bar.x \o bar.z), dat.P.n + 1, dat.P.n + dat.A.m)}} : TRUE

\* differentiate and differentiate_adjoint, the entry points for slack cones.
Differentiate(dat, pt, dth, method, mu) ==
  IF IsAllZero(dat.cones) THEN ForwardQp(dat, pt, dth) ELSE ForwardHsde(dat, pt, dth, method, mu)
DifferentiateAdjoint(dat, pt, bar, method, mu) ==
  IF IsAllZero(dat.cones) THEN AdjointQp(dat, pt, bar) ELSE AdjointHsde(dat, pt, bar, method, mu)
=============================================================================

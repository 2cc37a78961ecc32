------------------------------ MODULE GenPowerCone ------------------------------
(***************************************************************************)
(* core/cones, the generalized power cone of an interior-point step:       *)
(* barriers in rank-three form, the primal-dual scaling, dense or as rank  *)
(* one terms, and the third-order correction.  The cone of exponents al is *)
(*                                                                         *)
(*   { (x, w) : the product of x[i]^(2 al[i]) is at least w'w }.           *)
(*                                                                         *)
(* Its points are seen through products of powers, which PowerProduct      *)
(* gives: no identity of these formulas depends on more than one of them.  *)
(* Positive numbers are those with a square root; Root is the positive one.*)
(***************************************************************************)
EXTENDS ConeDerivatives

CONSTANTS GenPowers,      \* the exponents of the cone of each size
          PowerProduct    \* from <<al, x>> to the product of x[i]^(2 al[i])

Squares == {Mod(a * a) : a \in Num}
RootOf == [a \in Squares |-> CHOOSE r \in Squares : Mod(r * r) = a]
Root(a) == RootOf[Mod(a)]
Unitized(v) == By(Recip(Root(FDot(v, v))), v)
SumOf(vs, n) == [i \in 1..n |-> FSum([k \in DOMAIN vs |-> vs[k][i]])]
Outer(c, u, v) == [i \in DOMAIN u |-> By(c * u[i], v)]
SumOfRows(Ms, n) == [i \in 1..n |-> SumOf([k \in DOMAIN Ms |-> Ms[k][i]], n)]

----------------------------------------------------------------------------
(* Barriers *)

PhiPrimal(al, x) == PowerProduct[<<al, SubSeq(x, 1, Len(al))>>]
PhiDual(al, z) == PowerProduct[<<al, [i \in DOMAIN al |-> Div(z[i], al[i])]>>]
\* The part w of a point, padded, and its squared norm.
WPart(al, x) == [i \in DOMAIN x |-> IF i \in DOMAIN al THEN 0 ELSE x[i]]
SplitOf(al, first, second) ==
  [i \in DOMAIN second |-> IF i \in DOMAIN al THEN Mod(first[i]) ELSE Mod(second[i])]

\* Gradient and Hessian D + p p' - q q' - r r' at x.
Rank3Form(al, x, w, phi, n2, zeta, tau, p0, q0, r1) ==
  LET iz == Recip(zeta)
  IN  [grad |-> SplitOf(al, [i \in DOMAIN al |-> -Mod(tau[i] * phi) * iz - Div(1 - al[i], x[i])], By(2 * iz, x)),
       d |-> SplitOf(al, [i \in DOMAIN al |-> Div(tau[i] * phi, zeta * x[i]) + Div(1 - al[i], x[i] * x[i])],
                     ConstantSeq(2 * iz, Len(x))),
       p |-> SplitOf(al, By(p0 * iz, tau), By(Div(-2 * phi, p0) * iz, x)),
       q |-> SplitOf(al, By(q0 * iz, tau), ConstantSeq(0, Len(x))),
       r |-> By(r1 * iz, w)]
BarrierAt(al, phi, x) ==
  CHOOSE b \in {Rank3Form(al, x, of.w, phi, of.n2, of.zeta, [i \in DOMAIN al |-> Div(2 * al[i], x[i])],
                          Root(Mod(phi * (phi + of.n2)) * Half), Root(Mod(of.zeta * phi) * Half),
                          Mod(2 * Root(Div(of.zeta, phi + of.n2))))
                : of \in {[w |-> w, n2 |-> FDot(w, w), zeta |-> Mod(phi - FDot(w, w))] : w \in {WPart(al, x)}}} : b = b
\* update_dual_grad_H and update_primal_grad_H
DualBarrier(al, z) == BarrierAt(al, PhiDual(al, z), z)
PrimalBarrier(al, x) == BarrierAt(al, PhiPrimal(al, x), x)

\* A mutant: both subtracted terms are added.
MulH3AllPlus(b, mu, y) ==
  By(mu, SumOf(<<Times(b.d, y), By(FDot(b.p, y), b.p), By(FDot(b.q, y), b.q), By(FDot(b.r, y), b.r)>>, Len(y)))
MulH3(b, mu, y) ==
  By(mu, SumOf(<<Times(b.d, y), By(FDot(b.p, y), b.p), By(-FDot(b.q, y), b.q), By(-FDot(b.r, y), b.r)>>, Len(y)))

\* The step of _newton_raphson_genpowcone at its root.
RootArgument(al, s, x, normr) == [i \in DOMAIN al |-> Div(x * normr + Div(1 + al[i], al[i]), s[i])]
NewtonRaphsonRoot(al, s, normr) ==
  CHOOSE x \in Num : /\ <<al, RootArgument(al, s, x, normr)>> \in DOMAIN PowerProduct
                     /\ PowerProduct[<<al, RootArgument(al, s, x, normr)>>] = Mod(x * x + Div(2 * x, normr))
\* gradient_primal: of the conjugate of the dual barrier.
GradientPrimal(al, s) ==
  CHOOSE g \in {SplitOf(al, [i \in DOMAIN al |-> -Div(1 + al[i] + Mod(al[i] * of.g1) * of.normr, s[i])],
                        By(IF of.normr = 0 THEN 0 ELSE Div(of.g1, of.normr), s))
                : of \in {[normr |-> n, g1 |-> IF n = 0 THEN 0 ELSE NewtonRaphsonRoot(al, s, n)]
                          : n \in {Root(FDot(WPart(al, s), WPart(al, s)))}}} : g = g

----------------------------------------------------------------------------
(* The primal-dual scaling of Mosek and Tuncel: Hs z = s, Hs dz = ds, and   *)
(* mu times the Hessian on what is orthogonal to z and dz                   *)

\* An orthonormal basis of z and dz with its products.
FrameOf(s, z, ds, dz, e1, e2, h1, h2) ==
  [s |-> s, z |-> z, ds |-> ds, dz |-> dz, sz |-> FDot(s, z), e1 |-> e1, e2 |-> e2, h1 |-> h1, h2 |-> h2,
   q11 |-> FDot(e1, h1), q12 |-> FDot(e1, h2), q22 |-> FDot(e2, h2), dd |-> FDot(ds, dz)]
Frame(s, z, gz, gs, nu, b, mu) ==
  CHOOSE f \in
    {FrameOf(s, z, of.d[1], of.d[2], of.e1, of.e2, MulH3(b, mu, of.e1), MulH3(b, mu, of.e2))
     : of \in
       {[d |-> d, e1 |-> u, e2 |-> Unitized(Minus(d[2], By(FDot(d[2], u), u)))]
        : d \in {<<Plus(s, By(local, gz)), Plus(z, By(local, gs))>> : local \in {Div(FDot(s, z), nu)}},
          u \in {Unitized(z)}}} : f = f

\* pd_scaling_nd_dense
PdDense(f, b, mu) ==
  LET n == Len(f.s)
      H == [i \in 1..n |-> MulH3(b, mu, Unit(n, i))]
  IN  SumOfRows(<<H, Outer(-1, f.h1, f.e1), Outer(-1, f.e1, f.h1), Outer(-1, f.h2, f.e2), Outer(-1, f.e2, f.h2),
                  Outer(f.q11, f.e1, f.e1), Outer(f.q22, f.e2, f.e2), Outer(f.q12, f.e1, f.e2), Outer(f.q12, f.e2, f.e1),
                  Outer(Recip(f.sz), f.s, f.s), Outer(Recip(f.dd), f.ds, f.ds)>>, n)

\* An axis contributes sign * coef * vec vec'.
Axis(vec, c) ==
  [vec |-> vec, coef |-> IF c \in Squares THEN c ELSE Mod(-c), sign |-> IF c \in Squares THEN 1 ELSE -1]
ZeroAxes(n) == [k \in 1..6 |-> Axis(ConstantSeq(0, n), 0)]
\* jacobi_4x4: vectors v_k and numbers with M the sum of their c_k v_k v_k'.
\* Those of elimination take the place of the eigenvectors, which the field
\* does not have.
Eliminated(t, k) ==
  LET c == t.left[k][k]
      v == By(Recip(c), t.left[k])
  IN  IF c = 0 THEN [t EXCEPT !.pairs = Append(@, <<t.left[k], 0>>)]
      ELSE [left |-> SumOfRows(<<t.left, Outer(-c, v, v)>>, 4), pairs |-> Append(t.pairs, <<v, c>>)]
Diagonalized(M) == Fold(Eliminated, [left |-> M, pairs |-> <<>>], <<1, 2, 3, 4>>).pairs
\* The extension q3, q4 of the basis, with the norms alpha and gamma of what
\* is left, 0 if nothing is, and beta.
MinusAlong(v, us) == Minus(v, SumOf([k \in DOMAIN us |-> By(FDot(v, us[k]), us[k])], Len(v)))
UnitOrZero(v) == IF ZeroPoint(v) THEN v ELSE Unitized(v)
Extended(f) ==
  CHOOSE x \in {[q3 |-> q3, q4 |-> UnitOrZero(MinusAlong(f.h2, <<f.e1, f.e2, q3>>)),
                 alpha |-> FDot(f.h1, q3), beta |-> FDot(f.h2, q3)]
                : q3 \in {UnitOrZero(MinusAlong(f.h1, <<f.e1, f.e2>>))}} : x = x
ProjectorRows(f, x, gamma) ==
  <<<<Mod(-f.q11), Mod(-f.q12), Mod(-x.alpha), 0>>, <<Mod(-f.q12), Mod(-f.q22), Mod(-x.beta), Mod(-gamma)>>,
    <<Mod(-x.alpha), Mod(-x.beta), 0, 0>>, <<0, Mod(-gamma), 0, 0>>>>
\* pd_scaling_nd_qr6: four axes for the projection, and s and ds.
PdAxes(f) ==
  CHOOSE axes \in
    {[k \in 1..4 |-> Axis(SumOf(<<By(of.p[k][1][1], f.e1), By(of.p[k][1][2], f.e2),
                                  By(of.p[k][1][3], of.x.q3), By(of.p[k][1][4], of.x.q4)>>, Len(f.s)), of.p[k][2])]
     \o <<Axis(f.s, Recip(f.sz)), Axis(f.ds, Recip(f.dd))>>
     : of \in {[x |-> x, p |-> Diagonalized(ProjectorRows(f, x, FDot(f.h2, x.q4)))] : x \in {Extended(f)}}} : axes = axes

----------------------------------------------------------------------------
(* Scaling *)

\* The product of mul_Hs without a dense matrix.
MulExpanded(b, mu, axes, y) ==
  SumOf(<<MulH3(b, mu, y)>>
        \o [k \in DOMAIN axes |-> By(axes[k].sign * axes[k].coef * FDot(axes[k].vec, y), axes[k].vec)], Len(y))

\* What comes of a primal-dual scaling that passes the test of both secants,
\* and NULL otherwise: try_build_dense_pd_hs and try_compute_pd_axes, and
\* their forms for a direct-x cone, where x and its dual change places.
VerifiedDense(f, rows) == IF MatVec(rows, f.z) = f.s /\ MatVec(rows, f.dz) = f.ds THEN rows ELSE NULL
VerifiedAxes(f, b, mu, axes) ==
  IF MulExpanded(b, mu, axes, f.z) = f.s /\ MulExpanded(b, mu, axes, f.dz) = f.ds THEN axes ELSE NULL
SlackFrame(al, s, z, b, mu) == Frame(s, z, b.grad, GradientPrimal(al, s), Len(al) + 1, b, mu)
DirectFrame(al, zx, x, b, mu) == Frame(zx, x, b.grad, DualBarrier(al, zx).grad, Len(al) + 1, b, mu)
SlackDense(al, s, z, b, mu) ==
  CHOOSE r \in {VerifiedDense(f, Value(PdDense(f, b, mu))) : f \in {SlackFrame(al, s, z, b, mu)}} : r = r
SlackAxes(al, s, z, b, mu) ==
  CHOOSE r \in {VerifiedAxes(f, b, mu, PdAxes(f)) : f \in {SlackFrame(al, s, z, b, mu)}} : r = r
DirectDense(al, zx, x, b, mu) ==
  CHOOSE r \in {VerifiedDense(f, Value(PdDense(f, b, mu))) : f \in {DirectFrame(al, zx, x, b, mu)}} : r = r
DirectAxes(al, zx, x, b, mu) ==
  CHOOSE r \in {VerifiedAxes(f, b, mu, PdAxes(f)) : f \in {DirectFrame(al, zx, x, b, mu)}} : r = r
\* build_dense_dual_hs and build_dense_primal_hs
DenseRank3(b, mu) ==
  LET n == Len(b.d)
  IN  SumOfRows(<<[i \in 1..n |-> By(mu * b.d[i], Unit(n, i))],
                  Outer(mu, b.p, b.p), Outer(-mu, b.q, b.q), Outer(-mu, b.r, b.r)>>, n)

\* A scaling record: the point, the barrier there, mu, a dense matrix or the
\* axes, and what depends on sizes: heavy columns and the cap on a correction.
PowScaling(al, pt, phi, s, b, mu, direct, dense, axes, t) ==
  [kind |-> "genpow", al |-> al, pt |-> pt, phi |-> phi, s |-> s, b |-> b, mu |-> mu, direct |-> direct,
   dense |-> IF Len(pt) > NDenseGenPow THEN NULL ELSE IF dense # NULL THEN dense ELSE DenseRank3(b, mu),
   axes |-> IF axes # NULL THEN axes ELSE ZeroAxes(Len(pt)), heavy |-> t.heavy, cap |-> t.cap]
\* update_scaling, for t.strategy "primal dual" or "dual".
SlackPowScaling(s, z, mu, t) ==
  LET al == GenPowers[Len(z)]
  IN  CHOOSE sc \in {PowScaling(al, z, PhiDual(al, z), s, b, mu, FALSE,
                        IF t.strategy = "dual" \/ Len(z) > NDenseGenPow THEN NULL ELSE SlackDense(al, s, z, b, mu),
                        IF t.strategy = "dual" \/ Len(z) <= NDenseGenPow THEN NULL ELSE SlackAxes(al, s, z, b, mu), t)
                     : b \in {DualBarrier(al, z)}} : sc = sc
\* direct_x_update_scaling
DirectPowScaling(x, zx, mu, t) ==
  LET al == GenPowers[Len(x)]
  IN  CHOOSE sc \in {PowScaling(al, x, PhiPrimal(al, x), zx, b, mu, TRUE,
                        IF t.strategy = "dual" \/ Len(x) > NDenseGenPow THEN NULL ELSE DirectDense(al, zx, x, b, mu),
                        IF t.strategy = "dual" \/ Len(x) <= NDenseGenPow THEN NULL ELSE DirectAxes(al, zx, x, b, mu), t)
                     : b \in {PrimalBarrier(al, x)}} : sc = sc

\* get_Hs
PowHsBlock(sc) ==
  IF sc.dense # NULL THEN sc.dense ELSE [i \in DOMAIN sc.pt |-> By(sc.mu * sc.b.d[i], Unit(Len(sc.pt), i))]
\* mul_Hs
PowMulHs(sc, y) == IF sc.dense # NULL THEN MatVec(sc.dense, y) ELSE MulExpanded(sc.b, sc.mu, sc.axes, y)
\* The column of an axis and its entry on the diagonal: the weight of a heavy
\* one is taken out of the column.
AxisColumn(vec, coef, sign, heavy) ==
  LET n2 == FDot(vec, vec)
  IN  IF heavy /\ n2 # 0 /\ n2 \in Squares /\ coef # 0
      THEN [vec |-> By(-Recip(Root(n2)), vec), diag |-> Div(sign, coef * n2)]
      ELSE [vec |-> By(-Root(coef), vec), diag |-> Mod(sign)]
\* csc_update_sparsecone: columns q, r, p and the axes; sign is 1 for a
\* direct-x cone, whose diagonal is opposite.
PowColumns(sc, sign) ==
  IF sc.dense # NULL THEN <<>>
  ELSE <<AxisColumn(sc.b.q, sc.mu, sign, sc.heavy), AxisColumn(sc.b.r, sc.mu, sign, sc.heavy),
         AxisColumn(sc.b.p, sc.mu, -sign, sc.heavy)>>
       \o [k \in 1..6 |-> AxisColumn(sc.axes[k].vec, sc.axes[k].coef, -sign * sc.axes[k].sign, sc.heavy)]

----------------------------------------------------------------------------
(* The third-order correction *)

\* H u = y by the formula of Sherman, Morrison and Woodbury.
WoodburyStep(b, v, id, m00, m01, m02, m11, m22) ==
  LET b0 == FDot(b.p, v)
      b1 == FDot(b.q, v)
      b2 == FDot(b.r, v)
      idet == Recip(Mod(m00 * m11) * m22 - Mod(m01 * m01) * m22 - Mod(m02 * m02) * m11)
      y0 == Mod(Mod(m11 * m22) * b0 - Mod(m01 * m22) * b1 - Mod(m02 * m11) * b2) * idet
      y1 == Mod(-Mod(m01 * m22) * b0 + Mod(m00 * m22 - m02 * m02) * b1 + Mod(m01 * m02) * b2) * idet
      y2 == Mod(-Mod(m02 * m11) * b0 + Mod(m01 * m02) * b1 + Mod(m00 * m11 - m01 * m01) * b2) * idet
  IN  Minus(v, Times(id, SumOf(<<By(y0, b.p), By(y1, b.q), By(y2, b.r)>>, Len(v))))
SolveRank3(b, y) ==
  CHOOSE u \in {WoodburyStep(b, Times(id, y), id, Mod(1 + FDot(b.p, Times(id, b.p))), FDot(b.p, Times(id, b.q)),
                             FDot(b.p, Times(id, b.r)), Mod(FDot(b.q, Times(id, b.q)) - 1), Mod(FDot(b.r, Times(id, b.r)) - 1))
                : id \in {Inverses(b.d)}} : u = u
\* Half the third derivative of the barrier along u and v at x.
ThirdOrder(al, phi, x, u, v) ==
  LET n1 == DOMAIN al
      psi == Mod(phi - FDot(WPart(al, x), WPart(al, x)))
      ip == Recip(psi)
      g == SplitOf(al, [i \in n1 |-> Div(2 * al[i] * phi, x[i])], By(-2, x))
      ru == [i \in DOMAIN x |-> IF i \in n1 THEN Div(u[i], x[i]) ELSE 0]
      rv == [i \in DOMAIN x |-> IF i \in n1 THEN Div(v[i], x[i]) ELSE 0]
      su == FSum([i \in n1 |-> 2 * al[i] * ru[i]])
      sv == FSum([i \in n1 |-> 2 * al[i] * rv[i]])
      rho == FSum([i \in n1 |-> Mod(2 * al[i] * ru[i]) * rv[i]])
      uHv == Mod(phi * Mod(su * sv - rho) - 2 * FDot(WPart(al, u), WPart(al, v)))
      coef == Mod(Mod(Mod(uHv * psi) - 2 * Mod(FDot(g, u) * FDot(g, v))) * Mod(ip * Mod(ip * ip)))
      along(r, s, w, i) == IF i \in n1 THEN Mod(g[i] * Mod(s - r[i])) ELSE Mod(-2 * w[i])
      bracket(i) == Mod(su * sv - rho) - Mod(sv * ru[i]) - Mod(su * rv[i]) + 2 * Mod(ru[i] * rv[i])
  IN  [i \in DOMAIN x |->
        Mod(Half * Mod((IF i \in n1 THEN -Mod(g[i] * Mod(bracket(i))) * ip - 2 * Mod((1 - al[i]) * Mod(ru[i] * rv[i])) * Recip(x[i]) ELSE 0)
                       + coef * g[i]
                       + Mod(along(ru, su, u, i) * FDot(g, v) + along(rv, sv, v, i) * FDot(g, u)) * Mod(ip * ip)))]
\* apply_eta_cap: a correction too large for its step is cut down.
Capped(sc, eta) == By(sc.cap, eta)
\* higher_correction of the step (dz, ds), and for a direct-x cone
\* higher_correction_primal_direct along dz, its step in x.
HigherCorrection(sc, dz, ds) ==
  Capped(sc, IF sc.direct THEN By(Mod(sc.mu * sc.mu) * Mod(sc.mu * sc.mu), ThirdOrder(sc.al, sc.phi, sc.pt, dz, dz))
             ELSE ThirdOrder(sc.al, sc.phi, sc.pt, SolveRank3(sc.b, ds), dz))
\* combined_ds_shift
PowCombinedShift(sc, dz, ds, target) == Minus(By(target, sc.b.grad), HigherCorrection(sc, dz, ds))
=============================================================================

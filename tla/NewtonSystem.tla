------------------------------ MODULE NewtonSystem ------------------------------
(***************************************************************************)
(* What an iteration owes the loop: its direction solves the linearized    *)
(* conditions of the homogeneous embedding, stated on all variables and    *)
(* without the reductions, expansions and shortcuts of the code.           *)
(***************************************************************************)
EXTENDS SolutionMap, BarrierJets

SymTimes(data, x) == MatVec(SymRowsOf(data.P), x)
ATimes(data, x) == MatVec(RowsOf(data.A), x)
AtTimes(data, z) == MatVec(TransposeRows(RowsOf(data.A), data.P.n), z)

\* The residual functions of the embedding, linear but for the last.
Stationary(v) == Minus(Plus(Plus(SymTimes(dat, v.x), AtTimes(dat, v.z)), By(v.tau, dat.q)), Scattered(v.zx, dat))
Feasible(v) == Minus(Plus(ATimes(dat, v.x), v.s), By(v.tau, dat.b))
GapAt(v) == Mod(FDot(dat.q, v.x) + FDot(dat.b, v.z) + v.kappa + Div(FDot(v.x, SymTimes(dat, v.x)), v.tau))
GapAlong(v, d) ==
  Mod(FDot(dat.q, d.x) + FDot(dat.b, d.z) + d.kappa + Div(2 * FDot(v.x, SymTimes(dat, d.x)), v.tau)
      - Div(d.tau * FDot(v.x, SymTimes(dat, v.x)), v.tau * v.tau))

\* The scaling as a symmetric matrix, and the product of the cone's algebra.
WRows(sc) ==
  IF sc.kind # "soc" THEN DiagonalRows(sc.w)
  ELSE [i \in DOMAIN sc.w |-> [j \in DOMAIN sc.w |->
          Mod(sc.eta * (IF i = 1 THEN sc.w[j] ELSE IF j = 1 THEN sc.w[i]
                        ELSE (IF i = j THEN 1 ELSE 0) + Div(sc.w[i] * sc.w[j], 1 + sc.w[1])))]]
Product(kind, y, z) == IF kind = "soc" THEN MatVec(Arrow(y, 1, Len(y)), z) ELSE Times(y, z)

\* The gradient g of the conjugate of the barrier inverts that of the barrier.
Conjugate(al, s, g) == Gradient(al, PhiDual(al, By(-1, g)), By(-1, g)) = By(-1, s)
\* The scaling of a generalized power cone: mu times the Hessian of the
\* barrier, or the matrix that takes z to s and dz to ds, where what is
\* orthogonal to z and dz sees mu times the Hessian and the two products of
\* the secants.
Shadows(sc, s, z) ==
  LET local == Div(FDot(s, z), Len(sc.al) + 1)
      conjugate == IF sc.direct THEN Gradient(sc.al, PhiDual(sc.al, s), s) ELSE GradientPrimal(sc.al, s)
  IN  <<Plus(s, By(local, Gradient(sc.al, sc.phi, z))), Plus(z, By(local, conjugate))>>
Orthogonal(y, z, dz) ==
  LET det == Mod(FDot(z, z) * FDot(dz, dz) - FDot(z, dz) * FDot(z, dz))
      a == Div(Mod(FDot(y, z) * FDot(dz, dz)) - Mod(FDot(y, dz) * FDot(z, dz)), det)
      c == Div(Mod(FDot(y, dz) * FDot(z, z)) - Mod(FDot(y, z) * FDot(z, dz)), det)
  IN  Minus(y, Plus(By(a, z), By(c, dz)))
ScalingIsRight(sc, s, z, H, rows, strategy) ==
  IF strategy = "dual" THEN rows = [i \in DOMAIN z |-> By(sc.mu, H[i])]
  ELSE \A sh \in {Shadows(sc, s, z)} :
         /\ ~sc.direct => Conjugate(sc.al, s, GradientPrimal(sc.al, s))
         /\ rows = TransposeRows(rows, Len(z))
         /\ MatVec(rows, z) = s /\ MatVec(rows, sh[2]) = sh[1]
         /\ \A i, j \in DOMAIN z :
              \A a \in {Orthogonal(Unit(Len(z), i), z, sh[2])}, c \in {Orthogonal(Unit(Len(z), j), z, sh[2])} :
                FDot(a, MatVec(rows, c)) =
                  Mod(sc.mu * FDot(a, MatVec(H, c)) + Div(FDot(a, s) * FDot(c, s), FDot(s, z))
                      + Div(FDot(a, sh[1]) * FDot(c, sh[1]), FDot(sh[1], sh[2])))
\* ds + Hs dz = -(s + target * gradient - correction), the correction half the
\* third derivative along the affine step.
PowComplementary(sc, s, z, ds, dz, dsa, dza, m, target, t) ==
  \A H \in {Hessian(sc.al, sc.phi, z)}, rows \in {[i \in DOMAIN z |-> PowMulHs(sc, Unit(Len(z), i))]} :
    LET half3 == IF sc.direct THEN By(Mod(sc.mu * sc.mu) * Mod(sc.mu * sc.mu), Third(sc.al, sc.phi, z, dza, dza))
                 ELSE By(m, Third(sc.al, sc.phi, z, LinearSolve(H, dsa, Len(z)), dza))
        correction == IF m = 0 THEN ConstantSeq(0, Len(z)) ELSE By(Mod(t.cap * Half), half3)
    IN  /\ ScalingIsRight(sc, s, z, H, rows, t.strategy)
        /\ Plus(ds, MatVec(rows, dz)) = By(-1, Minus(Plus(s, By(target, Gradient(sc.al, sc.phi, z))), correction))

\* lambda o (W dz + W^-1 ds) = -(lambda o lambda + m (W^-1 dsa) o (W dza) - target e)
\* for a step (ds, dz) after (dsa, dza); on equations s stays 0.
Complementary(kind, sc, s, z, ds, dz, dsa, dza, m, target, t) ==
  IF kind = "zero" THEN ZeroPoint(ds)
  ELSE IF kind = "genpow" THEN PowComplementary(sc, s, z, ds, dz, dsa, dza, m, target, t)
  ELSE \A W \in {Value(WRows(sc))} :
         \A lambda \in {MatVec(W, z)},
            ups \in {LinearSolve(W, ds, Len(z))}, upa \in {LinearSolve(W, dsa, Len(z))} :
           /\ MatVec(W, lambda) = s
           /\ Product(kind, lambda, Plus(MatVec(W, dz), ups))
                = By(-1, Minus(Plus(Product(kind, lambda, lambda), By(m, Product(kind, upa, MatVec(W, dza)))),
                               By(target, UnitOf(kind, Len(z)))))
\* The conditions on a direction d at v with share 1 - sigma of the residuals.
Solves(v, d, scal, a, m, share, target, t) ==
  LET cut(y, k) == Part(y, Dims(dat.cones), k)
      dims == XDims(dat)
      xpart(y, k) == Part(Gathered(y, dat.xcones), dims, k)
  IN  /\ Stationary(d) = By(-share, Stationary(v))
      /\ Feasible(d) = By(-share, Feasible(v))
      /\ IF t.m = 0 THEN d.tau = 0 /\ d.kappa = 0
         ELSE /\ GapAlong(v, d) = Mod(-share * GapAt(v))
              /\ Mod(v.kappa * d.tau + v.tau * d.kappa) = Mod(-(v.kappa * v.tau + m * Mod(a.tau * a.kappa) - target))
      /\ \A k \in DOMAIN dat.cones :
           Complementary(dat.cones[k].kind, scal.slack[k], cut(v.s, k), cut(v.z, k), cut(d.s, k), cut(d.z, k),
                         cut(a.s, k), cut(a.z, k), m, target, t)
      /\ \A k \in DOMAIN dat.xcones :
           Complementary(dat.xcones[k].kind, scal.direct[k], Part(v.zx, dims, k), xpart(v.x, k),
                         Part(d.zx, dims, k), xpart(d.x, k), Part(a.zx, dims, k), xpart(a.x, k), m, target, t)

\* The affine, the combined and the centring direction solve the linearized
\* conditions, so that a step takes the same share off both residuals, as the
\* loop computes them.
DirectionsSolve ==
  out # NULL /\ out.kind = "step" =>
    LET t == out.t
        share == Mod(1 - t.sigma)
        left == Mod(1 - t.alpha * share)
    IN  /\ t.m # 0 => Solves(out.pt, out.of.affine, out.scal, out.pt, 0, 1, 0, t)
        /\ Solves(out.pt, out.of.step, out.scal, out.of.affine, t.m, share, Mod(t.sigma * out.of.mu), t)
        /\ \A res \in {Residuals(out.next, dat)} :
             /\ res.x = By(left, out.res.x)
             /\ res.z = By(left, out.res.z)

\* The first point of a symmetric problem, before it is shifted into its
\* cones, satisfies the equations of A and, but for the direct-x cones, those
\* of stationarity; with a quadratic objective its s is -z on the rows of
\* cones, and a linear program gives the x of least s.
FirstPointSolves ==
  out # NULL /\ out.kind = "first" =>
    LET pt == out.pt
        s == [i \in 1..dat.A.m |-> IF IsEquation(dat, i) THEN 0 ELSE pt.s[i]]
    IN  /\ Plus(ATimes(dat, pt.x), s) = dat.b
        /\ dat.xcones = <<>> => Plus(SymTimes(dat, pt.x), AtTimes(dat, pt.z)) = By(-1, dat.q)
        /\ IF Nnz(dat.P) = 0 THEN ZeroPoint(AtTimes(dat, pt.s))
           ELSE \A i \in 1..dat.A.m : ~IsEquation(dat, i) => pt.s[i] = Mod(-pt.z[i])

\* What an iteration computes through right-hand sides that overwrite each
\* other, offsets, expansions and a reduced system, for slack cones and for
\* cones directly on x, large and small, solves the linear conditions it
\* stands for, stated on all variables.
StepIsNewton == DirectionsSolve /\ FirstPointSolves
=============================================================================

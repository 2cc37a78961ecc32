------------------------------- MODULE NewtonStep -------------------------------
(***************************************************************************)
(* One iteration of the interior-point method as arithmetic: residuals of  *)
(* the homogeneous embedding, right-hand sides, the reduced system with    *)
(* its expansions, the step in tau and what is recovered from the reduced  *)
(* solution (residuals.rs, variables.rs and kktsystem.rs of                *)
(* implementations/default).                                               *)
(*                                                                         *)
(* Variables are [x, s, z, zx, tau, kappa]; data are those of the solver,  *)
(* after scaling; scal is [slack, direct], the scalings of its cones.      *)
(***************************************************************************)
EXTENDS ConeScaling, Differentiation

XDims(data) == Dims(Kind(data.xcones))
\* Values at the indices of direct-x cones, as a vector like x.
Scattered(values, data) ==
  LET idx == FlatIndex(data.xcones)
  IN  [j \in 1..data.P.n |-> FSum([k \in DOMAIN idx |-> IF idx[k] = j THEN values[k] ELSE 0])]
\* Products with the stored columns, of P its upper triangle.
PTimes(data, x) == ModSeq(Symv(data.P, x, x, 1, 0))
AOn(data, x) == ModSeq(Gemv(data.A, data.b, x, 1, 0))
AtOn(data, z) == ModSeq(GemvT(data.A, data.q, z, 1, 0))

----------------------------------------------------------------------------
(* Residuals and right-hand sides *)

\* DefaultResiduals::update
Residuals(v, data) ==
  CHOOSE r \in {[x |-> Minus(Plus(By(-1, AtOn(data, v.z)), Scattered(v.zx, data)), Plus(Px, By(v.tau, data.q))),
                 z |-> Minus(Plus(AOn(data, v.x), v.s), By(v.tau, data.b)),
                 tau |-> Mod(FDot(data.q, v.x) + FDot(data.b, v.z) + v.kappa + Div(FDot(v.x, Px), v.tau)),
                 sz |-> FDot(v.s, v.z)] : Px \in {PTimes(data, v.x)}} : r = r
\* degree of all cones, and calc_mu.
Degree(cones) ==
  Sum([k \in DOMAIN cones |-> CASE cones[k].kind = "zero" -> 0
                                 [] cones[k].kind = "soc" -> 1
                                 [] cones[k].kind = "genpow" -> Len(GenPowers[cones[k].dim]) + 1
                                 [] OTHER -> cones[k].dim])
CalcMu(v, res, data) ==
  Div(res.sz + FDot(Gathered(v.x, data.xcones), v.zx) + v.tau * v.kappa,
      Degree(data.cones) + Degree(Kind(data.xcones)) + 1)

\* scale_cones: for a direct-x cone primal and dual change places.
ScaleCones(v, data, mu, t) ==
  [slack |-> [k \in DOMAIN data.cones |->
     Value(ScalingAt(data.cones[k].kind, Part(v.s, Dims(data.cones), k), Part(v.z, Dims(data.cones), k), mu, FALSE, t))],
   direct |-> [k \in DOMAIN data.xcones |->
     Value(ScalingAt(data.xcones[k].kind, Part(v.zx, XDims(data), k),
                     Part(Gathered(v.x, data.xcones), XDims(data), k), mu, TRUE, t))]]

AffineRhs(res, v, scal) ==
  [x |-> res.x, z |-> res.z, s |-> Concat([k \in DOMAIN scal.slack |-> AffineDs(scal.slack[k])]),
   zx |-> Concat([k \in DOMAIN scal.direct |-> AffineDs(scal.direct[k])]),
   tau |-> res.tau, kappa |-> Mod(v.tau * v.kappa)]
\* A mutant: the correction of direct-x cones is not reduced by m.
CombinedRhsFullDirect(rhs, res, v, data, scal, step, sigma, mu, m) ==
  LET target == Mod(sigma * mu)
      dx == Gathered(step.x, data.xcones)
  IN  [x |-> By(1 - sigma, res.x), z |-> By(1 - sigma, res.z),
       s |-> Plus(rhs.s, Concat([k \in DOMAIN scal.slack |->
               CombinedShift(scal.slack[k], By(m, Part(step.z, Dims(data.cones), k)), Part(step.s, Dims(data.cones), k), target)])),
       zx |-> Plus(rhs.zx, Concat([k \in DOMAIN scal.direct |->
                CombinedShift(scal.direct[k], Part(dx, XDims(data), k), Part(step.zx, XDims(data), k), target)])),
       tau |-> Mod((1 - sigma) * res.tau),
       kappa |-> Mod(-target + m * Mod(step.tau * step.kappa) + v.tau * v.kappa)]
\* combined_step_rhs, on top of the affine one: step is the affine step, of
\* which z and zx are scaled by m, x being the other factor for a direct-x
\* cone.
CombinedRhs(rhs, res, v, data, scal, step, sigma, mu, m) ==
  LET target == Mod(sigma * mu)
      dx == Gathered(step.x, data.xcones)
  IN  [x |-> By(1 - sigma, res.x), z |-> By(1 - sigma, res.z),
       s |-> Plus(rhs.s, Concat([k \in DOMAIN scal.slack |->
               CombinedShift(scal.slack[k], By(m, Part(step.z, Dims(data.cones), k)), Part(step.s, Dims(data.cones), k), target)])),
       zx |-> Plus(rhs.zx, Concat([k \in DOMAIN scal.direct |->
                CombinedShift(scal.direct[k], Part(dx, XDims(data), k), By(m, Part(step.zx, XDims(data), k)), target)])),
       tau |-> Mod((1 - sigma) * res.tau),
       kappa |-> Mod(-target + m * Mod(step.tau * step.kappa) + v.tau * v.kappa)]

----------------------------------------------------------------------------
(* The reduced system *)

\* Cones with their places in (x, z) and the sign of their blocks.
Blocks(data, scal) ==
  [k \in DOMAIN scal.slack |->
     [sc |-> scal.slack[k], sign |-> -1,
      at |-> [l \in 1..data.cones[k].dim |-> data.P.n + Offset(Dims(data.cones), k) + l]]]
  \o [k \in DOMAIN scal.direct |-> [sc |-> scal.direct[k], sign |-> 1, at |-> data.xcones[k].idx]]
AtPlace(values, at, N) ==
  [i \in 1..N |-> FSum([l \in DOMAIN at |-> IF at[l] = i THEN values[l] ELSE 0])]
ExpansionsOf(blocks, N) ==
  Concat([k \in DOMAIN blocks |->
    LET cs == Columns(blocks[k].sc, blocks[k].sign)
    IN  [c \in DOMAIN cs |-> [vec |-> AtPlace(cs[c].vec, blocks[k].at, N), diag |-> cs[c].diag]]])
BlockEntries(blocks, hs, i, j) ==
  FSum([k \in DOMAIN blocks |->
    IF \E a \in DOMAIN blocks[k].at : blocks[k].at[a] = i
    THEN LET a == CHOOSE a \in DOMAIN blocks[k].at : blocks[k].at[a] = i
         IN  FSum([b \in DOMAIN blocks[k].at |-> IF blocks[k].at[b] = j THEN blocks[k].sign * hs[k][a][b] ELSE 0])
    ELSE 0])
Matrix(data, blocks, hs, exps, A, P, n, N) ==
  [i \in 1..N |->
     [j \in 1..N |-> Mod((IF i <= n /\ j <= n THEN P[i][j] ELSE IF i <= n THEN A[j - n][i] ELSE IF j <= n THEN A[i - n][j] ELSE 0)
                         + BlockEntries(blocks, hs, i, j))]
     \o [e \in DOMAIN exps |-> exps[e].vec[i]]]
  \o [e \in DOMAIN exps |-> exps[e].vec \o [f \in DOMAIN exps |-> IF e = f THEN exps[e].diag ELSE 0]]
\* The matrix of DirectLDLKKTSolver, without regularization.
KKTMatrix(data, scal) ==
  CHOOSE K \in {Matrix(data, bs, [k \in DOMAIN bs |-> Value(HsBlock(bs[k].sc))], ExpansionsOf(bs, data.P.n + data.A.m),
                       Value(RowsOf(data.A)), Value(SymRowsOf(data.P)), data.P.n, data.P.n + data.A.m)
                : bs \in {Value(Blocks(data, scal))}} : K = K
\* setrhs, solve and getlhs; NULL when the matrix is singular.
KKTSolve(K, rx, rz) ==
  CHOOSE r \in {IF y = NULL THEN NULL ELSE [x |-> SubSeq(y, 1, Len(rx)), z |-> SubSeq(y, Len(rx) + 1, Len(rx) + Len(rz))]
                : y \in {LinearSolve(K, rx \o rz \o ConstantSeq(0, Len(K) - Len(rx) - Len(rz)), Len(K))}} : r = r
\* solve_constant_rhs
ConstantPart(K, data) == KKTSolve(K, By(-1, data.q), data.b)

----------------------------------------------------------------------------
(* DefaultKKTSystem::solve *)

\* The constants of the rows H dz + ds = -c, and those of direct-x cones.
SlackOffset(v, rhs, data, scal, dir) ==
  IF dir = "affine" THEN v.s
  ELSE Concat([k \in DOMAIN scal.slack |->
         OffsetTerm(scal.slack[k], Part(rhs.s, Dims(data.cones), k), Part(v.z, Dims(data.cones), k))])
DirectOffset(v, rhs, data, scal, dir) ==
  IF dir = "affine" THEN v.zx
  ELSE Concat([k \in DOMAIN scal.direct |->
         OffsetTerm(scal.direct[k], Part(rhs.zx, XDims(data), k), Part(Gathered(v.x, data.xcones), XDims(data), k))])
MulHsOf(scalings, dims, y) == Concat([k \in DOMAIN scalings |-> MulHs(scalings[k], Part(y, dims, k))])

\* The step in tau, from the solutions for the right-hand side and for the
\* constant part.
StepTau(v, rhs, data, one, two) ==
  LET xi == By(Recip(v.tau), v.x)
      quad(y, w) == QuadForm(data.P, y, w)
  IN  Div(rhs.tau - Div(rhs.kappa, v.tau) + FDot(data.q, one.x) + FDot(data.b, one.z) + 2 * quad(xi, one.x),
          Div(v.kappa, v.tau) - FDot(data.q, two.x) - FDot(data.b, two.z)
          + quad(Minus(xi, two.x), Minus(xi, two.x)) - quad(two.x, two.x))
\* recover_direct_x_dual and the recovery of s and kappa.
Recovered(v, rhs, data, scal, x, z, tau, c, cx, dir) ==
  [x |-> x, z |-> z, tau |-> tau,
   s |-> By(-1, Plus(MulHsOf(scal.slack, Dims(data.cones), z), c)),
   zx |-> By(-1, Plus(MulHsOf(scal.direct, XDims(data), Gathered(x, data.xcones)), cx)),
   kappa |-> IF dir = "centering" THEN 0 ELSE Mod(-Div(rhs.kappa + v.kappa * tau, v.tau))]
StepWith(v, rhs, data, scal, one, two, c, cx, dir) ==
  CHOOSE d \in {Recovered(v, rhs, data, scal, Plus(one.x, By(tau, two.x)), Plus(one.z, By(tau, two.z)), tau, c, cx, dir)
                : tau \in {IF dir = "centering" THEN 0 ELSE StepTau(v, rhs, data, one, two)}} : d = d
SolveStep(K, two, v, rhs, data, scal, dir) ==
  CHOOSE d \in {StepWith(v, rhs, data, scal, of.one, two, of.c, of.cx, dir)
                : of \in {[one |-> KKTSolve(K, Minus(rhs.x, Scattered(cx, data)), Minus(c, rhs.z)), c |-> c, cx |-> cx]
                          : c \in {SlackOffset(v, rhs, data, scal, dir)},
                            cx \in {DirectOffset(v, rhs, data, scal, dir)}}} : d = d

\* add_step
AddStep(v, d, alpha) ==
  [x |-> Plus(v.x, By(alpha, d.x)), s |-> Plus(v.s, By(alpha, d.s)), z |-> Plus(v.z, By(alpha, d.z)),
   zx |-> Plus(v.zx, By(alpha, d.zx)), tau |-> Mod(v.tau + alpha * d.tau), kappa |-> Mod(v.kappa + alpha * d.kappa)]

----------------------------------------------------------------------------
(* The first point of symmetric problems *)

IdentityScalings(data) ==
  [slack |-> [k \in DOMAIN data.cones |-> IdentityScaling(data.cones[k].kind, data.cones[k].dim)],
   direct |-> [k \in DOMAIN data.xcones |-> IdentityScaling(data.xcones[k].kind, Len(data.xcones[k].idx))]]
\* solve_initial_point, before the shift into the cones; a problem without
\* P takes two right-hand sides.
InitialPoint(K, data) ==
  LET n == data.P.n
      zero == ConstantSeq(0, n)
  IN  IF Nnz(data.P) = 0
      THEN [x |-> KKTSolve(K, zero, data.b).x, s |-> By(-1, KKTSolve(K, zero, data.b).z),
            z |-> KKTSolve(K, By(-1, data.q), ConstantSeq(0, data.A.m)).z]
      ELSE [x |-> ConstantPart(K, data).x, s |-> By(-1, ConstantPart(K, data).z), z |-> ConstantPart(K, data).z]
=============================================================================

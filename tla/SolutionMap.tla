------------------------------ MODULE SolutionMap ------------------------------
(***************************************************************************)
(* What a DefaultSolver owes its user, stated in the user's own data: the  *)
(* solution solves the user's problem, and the derivatives are those of    *)
(* the map from data to solution.  Nothing here mentions scaling, presolve *)
(* or the homogeneous embedding.                                           *)
(***************************************************************************)
EXTENDS DefaultSolver

UserP == IF IsTriu(user.P) THEN SymRowsOf(user.P) ELSE RowsOf(user.P)
UserA == RowsOf(user.A)
UserB == Clamped(user.b)
UserN == user.P.n
UserM == user.A.m
Loaded == stage \in {"ready", "solved"} /\ user.side # NULL
Direct(k) == FlatIndex(user.xcones)[k]
XN == Len(FlatIndex(user.xcones))

----------------------------------------------------------------------------
(* Data and solution *)

\* A post-processed solution satisfies the conditions of optimality of the
\* problem the user handed in: stationarity, with the multipliers of
\* direct-x cones at their indices; feasibility on every row that counts;
\* complementarity; and a row dropped by the presolver is an infinite one,
\* with no multiplier and an infinite slack.
SolutionSolvesUsersProblem ==
  stage = "solved" =>
    /\ sol # NULL
    /\ \A j \in 1..UserN :
         Mod(FDot(UserP[j], sol.x) + user.q[j] + FDot([i \in 1..UserM |-> UserA[i][j]], sol.z)
             - FSum([k \in 1..XN |-> IF Direct(k) = j THEN sol.zx[k] ELSE 0])) = 0
    /\ \A i \in 1..UserM :
         IF sol.s[i] = INF THEN user.b[i] > InfBound /\ sol.z[i] = 0 /\ user.cones[ConeOf(user.cones, i)].kind = "nonneg"
         ELSE Mod(FDot(UserA[i], sol.x) + sol.s[i]) = UserB[i]
    /\ \A i \in 1..UserM : LET f == FirstOf(Dims(user.cones))[i] IN
         CASE user.side[i] = "u" -> sol.s[i] = 0
           [] user.side[i] = "v" -> sol.z[i] = 0
           [] user.side[i] = "b" -> /\ Mod(user.ray[f] * sol.s[i] - user.ray[i] * sol.s[f]) = 0
                                    /\ i # f => Mod(user.ray[f] * sol.z[i] + user.ray[i] * sol.z[f]) = 0
    /\ \A k \in 1..XN : LET f == FirstOf(Dims(Kind(user.xcones)))[k] IN
         CASE user.xside[k] = "u" -> sol.x[Direct(k)] = 0
           [] user.xside[k] = "v" -> sol.zx[k] = 0
           [] user.xside[k] = "b" ->
                /\ Mod(user.xray[f] * sol.x[Direct(k)] - user.xray[k] * sol.x[Direct(f)]) = 0
                /\ k # f => Mod(user.xray[f] * sol.zx[k] + user.xray[k] * sol.zx[f]) = 0

\* The place of a kept row among the kept rows.
KeptPlace(r) == Cardinality({k \in dat.kept : k <= r})
\* The data the solver holds are the user's under the scaling it has recorded.
HeldData ==
  /\ \A i, j \in 1..UserN : SymRowsOf(dat.P)[i][j] = Mod(Mod(dat.c * UserP[i][j]) * Mod(dat.d[i] * dat.d[j]))
  /\ dat.q = By(dat.c, Times(dat.d, user.q))
  /\ \A r \in dat.kept, j \in 1..UserN :
       RowsOf(dat.A)[KeptPlace(r)][j] = Mod(UserA[r][j] * Mod(dat.e[KeptPlace(r)] * dat.d[j]))
  /\ DOMAIN dat.b = 1..Cardinality(dat.kept)
  /\ \A r \in dat.kept : dat.b[KeptPlace(r)] = Mod(dat.e[KeptPlace(r)] * UserB[r])
\* Norms that are cached are norms of the user's vectors.
HeldNorms ==
  /\ dat.normq # NULL => dat.normq = ModSeq(user.q)
  /\ dat.normb # NULL => /\ DOMAIN dat.normb = 1..Cardinality(dat.kept)
                         /\ \A r \in dat.kept : dat.normb[KeptPlace(r)] = UserB[r]
\* The scaling maps each cone that is not a product of rays to itself.
ConesKept ==
  /\ \A k \in DOMAIN dat.cones : dat.cones[k].kind \notin {"zero", "nonneg"} =>
       \A i, l \in DOMAIN dat.e : Covers(dat.cones, k, i) /\ Covers(dat.cones, k, l) => dat.e[i] = dat.e[l]
  /\ \A k \in DOMAIN dat.xcones : dat.xcones[k].kind \notin {"zero", "nonneg"} =>
       \A i, j \in Elems(dat.xcones[k].idx) : dat.d[i] = dat.d[j]

\* Whatever was loaded before and in which way, the solver holds the user's
\* problem, no cached norm is one of another problem, and the scaling fits the
\* cones.
DataIsUsersProblem == Loaded => HeldData /\ HeldNorms /\ ConesKept

----------------------------------------------------------------------------
(* Derivatives *)

\* The conditions of optimality, linearized at the solution, in the unknowns
\* (dx, dz, ds, dzx).
Arrow(v, first, size) ==
  [a \in 1..size |-> [b \in 1..size |->
     CASE a = b -> v[first] [] a = 1 /\ b # 1 -> v[first + b - 1] [] b = 1 /\ a # 1 -> v[first + a - 1] [] OTHER -> 0]]
Linearized(side, dims, u, v, du, dv, N) ==
  Concat([k \in DOMAIN dims |->
    LET f == Offset(dims, k) + 1
        au == Arrow(u, f, dims[k])
        av == Arrow(v, f, dims[k])
        combined(a) == [c \in 1..N |-> Mod(FSum([b \in 1..dims[k] |-> av[a][b] * du[f + b - 1][c]])
                                           + FSum([b \in 1..dims[k] |-> au[a][b] * dv[f + b - 1][c]]))]
    IN  [a \in 1..dims[k] |-> CASE side[f + a - 1] = "u" -> du[f + a - 1]
                                [] side[f + a - 1] = "v" -> dv[f + a - 1]
                                [] side[f + a - 1] = "b" -> combined(a)]])
SolutionJacobian ==
  LET n == UserN
      m == UserM
      N == n + 2 * m + XN
  IN  [j \in 1..n |-> UserP[j] \o [i \in 1..m |-> Mod(UserA[i][j])] \o ConstantSeq(0, m)
                      \o [k \in 1..XN |-> IF Direct(k) = j THEN Mod(-1) ELSE 0]]
      \o [i \in 1..m |-> UserA[i] \o ConstantSeq(0, m) \o Unit(m, i) \o ConstantSeq(0, XN)]
      \o Linearized(user.side, Dims(user.cones), sol.s, sol.z,
                    [i \in 1..m |-> Unit(N, n + m + i)], [i \in 1..m |-> Unit(N, n + i)], N)
      \o Linearized(user.xside, Dims(Kind(user.xcones)), [k \in 1..XN |-> sol.x[Direct(k)]], sol.zx,
                    [k \in 1..XN |-> Unit(N, Direct(k))], [k \in 1..XN |-> Unit(N, n + 2 * m + k)], N)
\* Not known for cones whose derivative is left open, nor read after a
\* reduction by the presolver.
SmoothMap == dat.kept = 1..UserM /\ SupportsSmoothed(user.cones) /\ SupportsSmoothed(Kind(user.xcones))

\* The gradient that backward returns in exact mode is the adjoint of the
\* solution map, applied to the gradients by x, z, s and the direct-x dual,
\* on the stored entries of P and A; and forward returns the change of the
\* solution that the linearized conditions ask for.
GradientIsOfSolutionMap ==
  out # NULL /\ out.method = "exact" /\ SmoothMap =>
    LET n == UserN
        m == UserM
    IN  \A M \in {Value(SolutionJacobian)} :
          IF out.kind = "backward"
          THEN \A y \in {LinearSolve(TransposeRows(M, n + 2 * m + XN),
                                     out.bar.x \o out.bar.z \o out.bar.s \o out.bar.zx, Len(M))} :
                 /\ y # NULL
                 /\ out.res.dq = [j \in 1..n |-> Mod(-y[j])]
                 /\ out.res.db = [i \in 1..m |-> y[n + i]]
                 /\ \A j \in 1..n : \A e \in Elems(out.res.dA.col[j]) :
                      e[2] = Mod(-(y[j] * sol.z[e[1]] + y[n + e[1]] * sol.x[j]))
                 /\ \A j \in 1..n : \A e \in Elems(out.res.dP.col[j]) :
                      Mod(2 * e[2]) = Mod(-(y[j] * sol.x[e[1]] + y[e[1]] * sol.x[j]))
          ELSE user.xcones = <<>> =>
                 /\ MatVec(M, out.res.x \o out.res.z \o out.res.s)
                      = [j \in 1..n |-> Mod(-(MatVec(SymRowsOf(out.bar.P), sol.x)[j] + out.bar.q[j]
                                              + FDot([i \in 1..m |-> RowsOf(out.bar.A)[i][j]], sol.z)))]
                        \o [i \in 1..m |-> Mod(out.bar.b[i] - FDot(RowsOf(out.bar.A)[i], sol.x))]
                        \o ConstantSeq(0, m)

\* A direct-x cone as slack rows -x[J] + s = 0, in the solver's scaling.
Unfolded ==
  LET idx == FlatIndex(dat.xcones)
  IN  [dat EXCEPT !.A = VCat(dat.A, FromRows(Len(idx), dat.P.n, [k \in DOMAIN idx |-> By(-1, Unit(dat.P.n, idx[k]))])),
                  !.b = @ \o ConstantSeq(0, Len(idx)), !.cones = @ \o Kind(dat.xcones), !.xcones = <<>>,
                  !.e = @ \o [k \in DOMAIN idx |-> Recip(dat.d[idx[k]])]]
UnfoldedPoint ==
  [x |-> out.pt.x, z |-> out.pt.z \o out.pt.zx, s |-> out.pt.s \o Gathered(out.pt.x, dat.xcones), zx |-> <<>>]
\* <gradient, change> over the stored entries; one off the diagonal of P
\* stands for two.
Paired(g, dth) ==
  FSum([j \in 1..g.dP.n |-> FSum([k \in DOMAIN g.dP.col[j] |->
          (IF g.dP.col[j][k][1] = j THEN 1 ELSE 2) * Mod(g.dP.col[j][k][2] * dth.P.col[j][k][2])])]
       \o [j \in 1..g.dA.n |-> FSum([k \in DOMAIN g.dA.col[j] |-> g.dA.col[j][k][2] * dth.A.col[j][k][2]])]
       \o <<FDot(g.dq, dth.q), FDot(g.db, dth.b)>>)

\* Reverse mode is the transpose of forward mode, at every point and for
\* every method, also where the point is no solution and where cones are
\* nonsymmetric; a direct-x cone counts as the slack rows it replaces.
AdjointIsTransposeOfForward ==
  out # NULL /\ out.kind = "backward" /\ dat.kept = 1..UserM =>
    \A dth \in {Value(Perturbation(dat))}, mu \in {Mu(dat.cones, out.pt)} :
      \A f \in {ForwardAt(Value(Unfolded), Value(UnfoldedPoint),
                          [dth EXCEPT !.A = VCat(@, Zeros(XN, UserN)), !.b = @ \o ConstantSeq(0, XN)], out.method, mu)} :
        /\ Paired(out.res, dth) = Mod(FDot(f.x, out.bar.x) + FDot(f.s, out.bar.s \o ConstantSeq(0, XN))
                                      + FDot(f.z, out.bar.z \o out.bar.zx))
        /\ XN = 0 => \A g \in {DifferentiateAdjoint(dat, out.pt, out.bar, out.method, mu)},
                        v \in {Differentiate(dat, out.pt, dth, out.method, mu)} :
             Paired(g, dth) = Mod(FDot(v.x, out.bar.x) + FDot(v.z, out.bar.z) + FDot(v.s, out.bar.s))

\* The point the derivatives are taken at is the solution in the solver's
\* scaling: it is feasible for the data the solver holds.
EquilibratedIsSolversPoint ==
  stage = "solved" /\ sol # NULL =>
    LET pt == ToEquilibrated(dat, sol)
    IN  \A i \in 1..dat.A.m : Mod(FDot(RowsOf(dat.A)[i], pt.x) + pt.s[i]) = dat.b[i]

\* The system of every backward pass has exactly the entries, in the order,
\* of the one the cached gradient state was built with before there were
\* values: the values are written by position.
PatternFits ==
  gs # NULL /\ out # NULL /\ out.kind = "backward" =>
    AugmentedPattern(Embedding(SystemAt(dat, out.pt, out.method, Mu(dat.cones, out.pt)))) = gs
=============================================================================

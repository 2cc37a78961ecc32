----------------------------- MODULE DefaultSolver -----------------------------
(***************************************************************************)
(* implementations/default: one solver object, from the problem a user     *)
(* hands in to the solution and the gradients that come back.  The data    *)
(* are checked, presolved, copied and equilibrated; the solver finds a     *)
(* point for the scaled, reduced problem; post-processing and the          *)
(* derivative routines translate between that problem and the user's.      *)
(*                                                                         *)
(* The interior-point iterations are the module IPSolver's.  Here Solve    *)
(* takes the solution of the data the solver holds, found from the         *)
(* complementarity a problem is known to have: prob.side[i] says for each  *)
(* row whether s or z is zero or both are on the boundary of a second-     *)
(* order cone, along prob.ray.  Numbers are those of Field; data that are  *)
(* compared with the infinity bound are integers below it or INF.          *)
(***************************************************************************)
EXTENDS NewtonStep

CONSTANTS Problems,   \* problems of the user
          Scalings,   \* [d, e, c, g]: what a pass of Ruiz scaling finds
          Taus,       \* values of the homogenizing variable at the end
          Bars,       \* gradients by the solution
          Steps,      \* [sigma, m, alpha, target, strategy, heavy, cap]: what an iteration chooses
          RayPoints,  \* pairs of positive numbers, for nonnegative cones
          SocPoints,  \* a pair of interior points for each size of a second-order cone
          PowPoints,  \* the same for generalized power cones
          Methods,    \* "exact", "smoothed", "auto"
          INF,        \* a right-hand side beyond the infinity bound
          InfBound    \* get_infinity()

\* Matrices have sorted or unsorted columns, rows may repeat; sizes and factors
\* are numbers that have a reciprocal.
IsMatrix(M) ==
  /\ M \in [m : Nat, n : Nat, col : Seq(Seq((Nat \ {0}) \X Int))]
  /\ Len(M.col) = M.n
  /\ \A j \in 1..M.n : Rows(M, j) \subseteq 1..M.m
Factors == 1..(Prime - 1)
ConeKinds == {"zero", "nonneg", "soc", "genpow"}
ASSUME ProblemsAssumption ==
  /\ InfBound \in Int
  /\ \A prob \in Problems :
       /\ DOMAIN prob = {"name", "P", "A", "q", "b", "cones", "xcones", "side", "ray", "xside", "xray"}
       /\ IsMatrix(prob.P) /\ IsMatrix(prob.A)
       /\ prob.q \in Seq(Int) /\ prob.b \in Seq(Int)
       /\ \A i \in DOMAIN prob.b : prob.b[i] > InfBound => prob.b[i] = INF
       /\ prob.cones \in Seq([kind : ConeKinds, dim : {0} \cup Factors])
       /\ \A k \in DOMAIN prob.xcones : Elems(prob.xcones[k].idx) \subseteq 1..prob.P.n
ASSUME ScalingsAssumption ==
  \A f \in Scalings :
    /\ f.d \in Seq(Factors) /\ f.e \in Seq(Factors) /\ f.c \in Factors /\ f.g \in Factors
    /\ \A prob \in Problems : prob.P.n <= Len(f.d) /\ prob.A.m <= Len(f.e)

VARIABLES stage,    \* "start", "ready", "solved" or "rejected"
          user,     \* the problem whose data the solver holds
          dat,      \* DefaultProblemData
          sol,      \* DefaultSolution, with the direct-x dual
          smooth,   \* smoothing_vars in the solver's scaling, or NULL
          gs,       \* pattern of the cached GradState, or NULL
          out       \* the last derivative or iteration: its request and its answer

vars == <<stage, user, dat, sol, smooth, gs, out>>

Seq1(n) == [k \in 1..n |-> k]
Select(s, kept) == [k \in 1..Cardinality(kept) |-> s[Ascending(kept)[k]]]

----------------------------------------------------------------------------
(* Checks and presolve *)

\* check_dimensions and validate_cones.
Valid(prob) ==
  /\ prob.P.m = prob.P.n /\ prob.P.n = Len(prob.q)
  /\ IsTriu(prob.P) \/ IsSymmetric(prob.P)
  /\ prob.A.m = Len(prob.b) /\ prob.A.n = Len(prob.q)
  /\ Sum(Dims(prob.cones)) = Len(prob.b)
  /\ \A k \in DOMAIN prob.cones : prob.cones[k].dim >= (IF prob.cones[k].kind = "soc" THEN 2 ELSE 1)
\* validate_diff_method_cones
DiffMethodFits(prob, method) == method = "smoothed" => SupportsSmoothed(prob.cones)

\* new_collapsed: empty cones go, neighbouring nonnegative ones, among them
\* second-order cones of size 1, become one.
Collapsed(cones) ==
  Fold(LAMBDA done, cone :
         LET nonneg == cone.kind = "nonneg" \/ (cone.kind = "soc" /\ cone.dim = 1)
         IN  IF cone.dim = 0 THEN done
             ELSE IF nonneg /\ done # <<>> /\ done[Len(done)].kind = "nonneg"
                  THEN [done EXCEPT ![Len(done)].dim = @ + cone.dim]
                  ELSE Append(done, IF nonneg THEN Cone("nonneg", cone.dim) ELSE cone),
       <<>>, cones)

Covers(cones, k, i) == Offset(Dims(cones), k) < i /\ i <= Offset(Dims(cones), k) + cones[k].dim
ConeOf(cones, i) == CHOOSE k \in DOMAIN cones : Covers(cones, k, i)
\* make_reduction_map: the rows to keep.
ReductionMap(cones, b) ==
  {i \in DOMAIN b : ~(cones[ConeOf(cones, i)].kind = "nonneg" /\ b[i] > InfBound)}
\* reduce_cones: only nonnegative cones shrink, and one may vanish.
ReducedCones(cones, kept) ==
  Concat([k \in DOMAIN cones |->
    LET first == Offset(Dims(cones), k)
        left == Cardinality({i \in kept : first < i /\ i <= first + cones[k].dim})
    IN  IF cones[k].kind # "nonneg" THEN <<cones[k]>>
        ELSE IF left > 0 THEN <<Cone("nonneg", left)>> ELSE <<>>])

Clamped(b) == [i \in DOMAIN b |-> Mod(IF b[i] > InfBound THEN InfBound ELSE b[i])]

\* DefaultProblemData::new_with_xcones, before equilibration.
Copied(prob, cones, kept, b) ==
  [P |-> IF IsTriu(prob.P) THEN prob.P ELSE ToTriu(prob.P), q |-> ModSeq(prob.q),
   A |-> IF kept = DOMAIN prob.b THEN prob.A ELSE SelectRows(prob.A, kept), b |-> b,
   cones |-> IF kept = DOMAIN prob.b THEN cones ELSE ReducedCones(cones, kept),
   xcones |-> prob.xcones, kept |-> kept,
   d |-> ConstantSeq(1, Len(prob.q)), e |-> ConstantSeq(1, Len(b)), c |-> 1,
   normq |-> ModSeq(prob.q), normb |-> b]
Reduced(prob, cones, presolve) ==
  CHOOSE data \in {Copied(prob, cones, kept, Clamped(Select(prob.b, kept)))
                   : kept \in {IF presolve THEN ReductionMap(cones, prob.b) ELSE DOMAIN prob.b}} : data = data
ProblemData(prob, presolve, dropzeros) ==
  CHOOSE data \in {IF dropzeros THEN [of EXCEPT !.P = DropZeros(of.P), !.A = DropZeros(of.A)] ELSE of
                   : of \in {Reduced(prob, cones, presolve) : cones \in {Value(Collapsed(prob.cones))}}} : TRUE

----------------------------------------------------------------------------
(* Equilibration *)

\* scale_data by d and e, which are also gathered.
ScaleData(data, d, e) ==
  [data EXCEPT !.P = FLRScale(data.P, d, d), !.A = FLRScale(data.A, e, d),
               !.q = Times(data.q, d), !.b = Times(data.b, e),
               !.d = Times(@, d), !.e = Times(@, e)]
\* P.scale and q.scale by c.
ScaleCost(data, c) ==
  [data EXCEPT !.P = FScale(data.P, c), !.q = By(c, data.q), !.c = Mod(@ * c)]
\* Columns of [P A'; A 0] that are zero are not scaled.
ColumnScale(data, d) ==
  [j \in 1..data.P.n |->
     IF ZeroPoint(SymRowsOf(data.P)[j]) /\ ZeroPoint(TransposeRows(RowsOf(data.A), data.A.n)[j]) THEN 1 ELSE d[j]]
RowScale(data, e) == [i \in 1..data.A.m |-> IF ZeroPoint(RowsOf(data.A)[i]) THEN 1 ELSE e[i]]
\* rectify_equilibration: the mean over a cone that is not a product of rays.
MeanOver(cones, k, e) ==
  Div(FSum([i \in DOMAIN e |-> IF Covers(cones, k, i) THEN e[i] ELSE 0]), cones[k].dim)
Rectification(cones, e) ==
  [i \in DOMAIN e |->
     LET around == {k \in DOMAIN cones : cones[k].kind \notin {"zero", "nonneg"} /\ Covers(cones, k, i)}
     IN  IF around = {} THEN 1 ELSE Div(MeanOver(cones, CHOOSE k \in around : TRUE, e), e[i])]
\* The same for a direct-x cone that needs it, with the geometric mean g.
DirectRectification(xcones, d, g) ==
  [j \in DOMAIN d |->
     IF \E k \in DOMAIN xcones : xcones[k].kind \notin {"zero", "nonneg"} /\ j \in Elems(xcones[k].idx) THEN Div(g, d[j]) ELSE 1]
CostIsScaled(data) == ~ZeroPoint(data.q) /\ \E j \in 1..data.P.n : \E e \in Elems(data.P.col[j]) : Mod(e[2]) # 0

\* DefaultProblemData::equilibrate, one pass of scaling.
Equilibrated(data, f) ==
  CHOOSE r \in
    {ScaleData(rectified, DirectRectification(data.xcones, rectified.d, f.g), ConstantSeq(1, data.A.m))
     : rectified \in
       {ScaleData(costed, ConstantSeq(1, data.P.n), Rectification(data.cones, costed.e))
        : costed \in
          {IF CostIsScaled(scaled) THEN ScaleCost(scaled, f.c) ELSE scaled
           : scaled \in {Value(ScaleData(data, ColumnScale(data, f.d), RowScale(data, f.e)))}}}} : r = r

----------------------------------------------------------------------------
(* Setting up *)

Unsolved == /\ sol' = NULL /\ smooth' = NULL /\ out' = NULL

\* new and new_with_xcones, or new_from_csr.
New ==
  /\ stage = "start"
  /\ \E prob \in Problems, presolve \in BOOLEAN, dropzeros \in BOOLEAN, equilibrate \in BOOLEAN, csr \in BOOLEAN :
       \E given \in {IF csr THEN [prob EXCEPT !.P = ToCsc(FromCsc(prob.P)), !.A = ToCsc(FromCsc(prob.A))] ELSE prob} :
         /\ csr => prob.xcones = <<>>
         /\ Valid(given)
         /\ \E data \in {ProblemData(given, presolve, dropzeros)}, f \in Scalings :
              dat' = IF equilibrate THEN Equilibrated(data, f) ELSE data
         /\ user' = prob
  /\ stage' = "ready" /\ gs' = NULL
  /\ Unsolved

\* BadInputData
Reject ==
  /\ stage = "start"
  /\ \E prob \in Problems, method \in Methods :
       ~Valid(prob) \/ ~DiffMethodFits(prob, method)
  /\ stage' = "rejected"
  /\ UNCHANGED <<user, dat, sol, smooth, gs, out>>

\* new_symbolic_with_xcones_and_perm, for the pattern of a problem; presolve
\* and dropzeros are off and nothing is scaled.  The batch solver builds its
\* gradient state from the same pattern.
NewSymbolic ==
  /\ stage = "start"
  /\ \E prob \in Problems :
       /\ Valid(prob) /\ IsTriu(prob.P)
       /\ \E data \in {ProblemData([prob EXCEPT !.q = ConstantSeq(0, Len(prob.q)), !.b = ConstantSeq(0, Len(prob.b))],
                                   FALSE, FALSE)} :
            /\ dat' = data
            /\ gs' = AugmentedPattern(Embedding(PlaceholderSystem([data EXCEPT !.cones = prob.cones])))
       /\ user' = [prob EXCEPT !.q = ConstantSeq(0, Len(prob.q)), !.b = ConstantSeq(0, Len(prob.b)), !.side = NULL]
  /\ stage' = "ready"
  /\ Unsolved

\* load_and_equilibrate: values of a problem with this pattern, from
\* solve_batch, from precompute_equilibration or from the backward pass.
Load ==
  /\ stage \in {"ready", "solved"} /\ gs # NULL
  /\ \E prob \in Problems, f \in Scalings :
       /\ Valid(prob) /\ EqualSparsity(prob.P, dat.P) /\ EqualSparsity(prob.A, dat.A)
       /\ prob.cones = user.cones /\ prob.xcones = user.xcones
       /\ prob.name # user.name \/ stage = "ready"
       /\ dat' = Equilibrated([dat EXCEPT !.P = prob.P, !.q = ModSeq(prob.q), !.A = prob.A, !.b = Clamped(prob.b),
                                          !.d = ConstantSeq(1, Len(prob.q)), !.e = ConstantSeq(1, Len(prob.b)), !.c = 1,
                                          !.normq = NULL, !.normb = NULL], f)
       /\ user' = prob
  /\ stage' = "ready"
  /\ UNCHANGED gs
  /\ Unsolved

\* A mutant: the norm of the old right-hand side stays cached.
LoadBKeepsNorm ==
  /\ stage = "solved" /\ gs # NULL
  /\ \E prob \in Problems :
       /\ prob.P = user.P /\ prob.A = user.A /\ prob.q = user.q
       /\ prob.cones = user.cones /\ prob.xcones = user.xcones
       /\ Valid(prob) /\ prob.b # user.b
       /\ dat' = [dat EXCEPT !.b = Times(prob.b, dat.e)]
       /\ user' = prob
  /\ stage' = "ready"
  /\ UNCHANGED gs
  /\ Unsolved
\* solve_batch_preequilibrated, before the solve: a new right-hand side under
\* the old scaling.
LoadB ==
  /\ stage = "solved" /\ gs # NULL
  /\ \E prob \in Problems :
       /\ prob.P = user.P /\ prob.A = user.A /\ prob.q = user.q
       /\ prob.cones = user.cones /\ prob.xcones = user.xcones
       /\ Valid(prob) /\ prob.b # user.b
       /\ \A i \in DOMAIN prob.b : prob.b[i] # INF
       /\ dat' = [dat EXCEPT !.b = Times(prob.b, dat.e), !.normb = NULL]
       /\ user' = prob
  /\ stage' = "ready"
  /\ UNCHANGED gs
  /\ Unsolved

----------------------------------------------------------------------------
(* Solving *)

\* Conditions on the part u of a cone and the part v of its dual, given as
\* selectors of unknowns: which is zero, or along which rays they lie.  The
\* ray of v is the reflection of that of u.
Complementarity(side, ray, first, u, v) ==
  Concat([i \in DOMAIN side |->
    CASE side[i] = "u" -> <<u[i]>>
      [] side[i] = "v" -> <<v[i]>>
      [] side[i] = "b" /\ first[i] = i -> <<>>
      [] side[i] = "b" /\ first[i] # i ->
           <<Minus(By(ray[first[i]], u[i]), By(ray[i], u[first[i]])),
             Plus(By(ray[first[i]], v[i]), By(ray[i], v[first[i]]))>>])
FirstOf(dims) == Concat([k \in DOMAIN dims |-> ConstantSeq(Offset(dims, k) + 1, dims[k])])

\* The point where stationarity, feasibility and further conditions hold, all
\* linear in (x, z, s, zx).
Selector(data, idx, N) ==
  [x |-> [k \in DOMAIN idx |-> Unit(N, idx[k])], z |-> [i \in 1..data.A.m |-> Unit(N, data.P.n + i)],
   s |-> [i \in 1..data.A.m |-> Unit(N, data.P.n + data.A.m + i)],
   zx |-> [k \in DOMAIN idx |-> Unit(N, data.P.n + 2 * data.A.m + k)]]
SelectorOf(data) == Selector(data, FlatIndex(data.xcones), data.P.n + 2 * data.A.m + Len(FlatIndex(data.xcones)))
Feasibility(P, A, At, n, m, idx) ==
  [j \in 1..n |-> P[j] \o At[j] \o ConstantSeq(0, m) \o [k \in DOMAIN idx |-> IF idx[k] = j THEN Mod(-1) ELSE 0]]
  \o [i \in 1..m |-> A[i] \o ConstantSeq(0, m) \o Unit(m, i) \o ConstantSeq(0, Len(idx))]
Split(v, n, m) ==
  IF v = NULL THEN NULL
  ELSE [x |-> SubSeq(v, 1, n), z |-> SubSeq(v, n + 1, n + m), s |-> SubSeq(v, n + m + 1, n + 2 * m),
        zx |-> SubSeq(v, n + 2 * m + 1, Len(v))]
PointWhere(data, conditions, values) ==
  CHOOSE pt \in
    {Split(v, data.P.n, data.A.m)
     : v \in {LinearSolve(Feasibility(SymRowsOf(data.P), A, TransposeRows(A, data.P.n), data.P.n, data.A.m, FlatIndex(data.xcones))
                            \o conditions,
                          By(-1, data.q) \o data.b \o values, Len(SelectorOf(data).z[1]))
              : A \in {Value(RowsOf(data.A))}}} : pt = pt
\* The solution of a problem by its complementarity, of which the solver's
\* has the kept rows.
KktPoint(data, prob) ==
  CHOOSE pt \in
    {PointWhere(data, c, ConstantSeq(0, Len(c)))
     : c \in {Complementarity(Select(prob.side, data.kept), Select(prob.ray, data.kept), FirstOf(Dims(data.cones)), of.s, of.z)
              \o Complementarity(prob.xside, prob.xray, FirstOf(Dims(Kind(data.xcones))), of.x, of.zx)
              : of \in {Value(SelectorOf(data))}}} : TRUE
\* A feasible point, with s = 0 on equations, away from the solution.
IsEquation(data, i) == data.cones[ConeOf(data.cones, i)].kind = "zero"
InteriorPoint(data) ==
  CHOOSE pt \in
    {PointWhere(data, [i \in 1..data.A.m |-> IF IsEquation(data, i) THEN of.s[i] ELSE of.z[i]] \o of.zx,
                [i \in 1..data.A.m |-> IF IsEquation(data, i) THEN 0 ELSE 4 * i + 10] \o [k \in DOMAIN of.zx |-> 3 * k + 2])
     : of \in {Value(SelectorOf(data))}} : TRUE

\* DefaultVariables::unscale of a solution that is not a certificate.
Unscaled(data, pt, tau) ==
  LET back == Recip(tau)
      cinv == Recip(data.c)
      idx == FlatIndex(data.xcones)
  IN  [x |-> By(back, Times(pt.x, data.d)),
       z |-> By(Mod(back * cinv), Times(pt.z, data.e)),
       s |-> By(back, Times(pt.s, Inverses(data.e))),
       zx |-> [k \in DOMAIN idx |-> Mod(Mod(pt.zx[k] * Recip(data.d[idx[k]])) * Mod(back * cinv))]]
\* A mutant: a kept row takes the place after the kept rows before it, and
\* the first one that of none.
LateRestored(data, pt, m) ==
  LET place(i) == MaxOf(1, Cardinality({r \in data.kept : r < i}))
  IN  [pt EXCEPT !.s = [i \in 1..m |-> IF i \in data.kept THEN pt.s[place(i)] ELSE INF],
                 !.z = [i \in 1..m |-> IF i \in data.kept THEN pt.z[place(i)] ELSE 0]]
\* reverse_presolve: the rows that were dropped have no multiplier and an
\* infinite slack.
Restored(data, pt, m) ==
  LET place(i) == Cardinality({r \in data.kept : r <= i})
  IN  [pt EXCEPT !.s = [i \in 1..m |-> IF i \in data.kept THEN pt.s[place(i)] ELSE INF],
                 !.z = [i \in 1..m |-> IF i \in data.kept THEN pt.z[place(i)] ELSE 0]]
\* post_process
PostProcessed(data, pt, tau, m) ==
  IF data.kept = 1..m THEN Unscaled(data, pt, tau) ELSE Restored(data, Unscaled(data, pt, tau), m)

\* get_normq and get_normb: the vectors whose norms are cached.
NormQ(data) == IF data.normq # NULL THEN data.normq ELSE By(Recip(data.c), Times(data.q, Inverses(data.d)))
NormB(data) == IF data.normb # NULL THEN data.normb ELSE Times(data.b, Inverses(data.e))

Homogeneous(pt, tau) == [x |-> By(tau, pt.x), z |-> By(tau, pt.z), s |-> By(tau, pt.s), zx |-> By(tau, pt.zx), tau |-> tau]
\* solve: the norms are asked for by the termination tests, the result is
\* post-processed, and for smoothed differentiation an iterate on the central
\* path is kept: here some interior point.
Solve ==
  /\ stage = "ready" /\ user.side # NULL
  /\ \E tau \in Taus, method \in Methods, pt \in {KktPoint(dat, user)}, interior \in {InteriorPoint(dat)} :
       /\ sol' = IF pt = NULL THEN NULL ELSE PostProcessed(dat, Homogeneous(pt, tau), tau, Len(user.b))
       /\ smooth' = IF method = "smoothed" /\ SupportsSmoothed(dat.cones) /\ SupportsSmoothed(Kind(dat.xcones))
                       /\ interior # NULL
                    THEN Homogeneous(interior, tau) ELSE NULL
       /\ dat' = [dat EXCEPT !.normq = NormQ(dat), !.normb = NormB(dat)]
  /\ stage' = "solved" /\ out' = NULL
  /\ UNCHANGED <<user, gs>>

----------------------------------------------------------------------------
(* One iteration on the way to the solution *)

Symmetric == SupportsSmoothed(dat.cones) /\ SupportsSmoothed(Kind(dat.xcones))
\* A pair of interior points of a cone and its dual; shift tells cones apart.
PairOf(kind, dim, shift) ==
  LET ray(l) == RayPoints[1 + ((l + shift) % Len(RayPoints))]
  IN  CASE kind = "zero" -> <<ConstantSeq(0, dim), [l \in 1..dim |-> 4 * l + shift]>>
        [] kind = "nonneg" -> <<[l \in 1..dim |-> ray(l)[1]], [l \in 1..dim |-> ray(l)[2]]>>
        [] kind = "soc" -> SocPoints[dim]
        [] kind = "genpow" -> PowPoints[dim]
Pairs(cones) == [k \in DOMAIN cones |-> PairOf(cones[k].kind, cones[k].dim, k)]
Half1(pairs, which) == Concat([k \in DOMAIN pairs |-> pairs[k][which]])
\* Variables of an iteration: interior, and no solution of anything.
VariablesFrom(data, slack, direct, tau) ==
  [x |-> [j \in 1..data.P.n |-> IF j \in Elems(FlatIndex(data.xcones)) THEN Scattered(Half1(direct, 2), data)[j] ELSE 5 * j + 3],
   s |-> Half1(slack, 1), z |-> Half1(slack, 2), zx |-> Half1(direct, 1), tau |-> tau, kappa |-> 9]
SomeVariables(data, tau) ==
  CHOOSE v \in {VariablesFrom(data, Value(Pairs(data.cones)), Value(Pairs(Kind(data.xcones))), tau)} : v = v

\* The directions of one pass with its residuals, scaling and matrix: affine
\* and combined, or a centring one, for which step_lhs holds anything.
Directions(K, two, v, res, mu, scal, t, rhs) ==
  LET affine == IF t.m = 0 THEN v ELSE SolveStep(K, two, v, rhs, dat, scal, "affine")
      aim == IF t.m = 0 THEN t.target ELSE mu
      dir == IF t.m = 0 THEN "centering" ELSE "combined"
  IN  [affine |-> affine, mu |-> aim, dir |-> dir,
       step |-> SolveStep(K, two, v, CombinedRhs(rhs, res, v, dat, scal, affine, t.sigma, aim, t.m), dat, scal, dir)]
PassWith(K, two, v, res, mu, scal, t) ==
  IF two = NULL THEN NULL
  ELSE [kind |-> "step", method |-> "newton", pt |-> v, t |-> t, scal |-> scal, res |-> res,
        of |-> Value(Directions(K, two, v, res, mu, scal, t, AffineRhs(res, v, scal)))]
Pass(v, t) ==
  CHOOSE r \in {PassWith(of.K, ConstantPart(of.K, dat), v, of.res, of.mu, of.scal, t)
                : of \in {[K |-> KKTMatrix(dat, at.scal), res |-> at.res, mu |-> at.mu, scal |-> at.scal]
                          : at \in {[res |-> from.res, mu |-> from.mu, scal |-> Value(ScaleCones(v, dat, from.mu, t))]
                                    : from \in {[res |-> res, mu |-> CalcMu(v, res, dat)]
                                                : res \in {Residuals(v, dat)}}}}} : r = r
\* One pass of the loop, or of refine_smoothing_iterate, which works at tau = 1.
Iterate ==
  /\ stage = "ready"
  /\ \E t \in Steps : (t.m = 0 => Symmetric) /\ \E r \in {Pass(SomeVariables(dat, IF t.m = 0 THEN 1 ELSE 4), t)} :
       /\ r # NULL
       /\ out' = [kind |-> "step", method |-> "newton", pt |-> r.pt, t |-> t, scal |-> r.scal, res |-> r.res, of |-> r.of,
                  next |-> AddStep(r.pt, r.of.step, t.alpha)]
  /\ UNCHANGED <<stage, user, dat, sol, smooth, gs>>
\* default_start of a symmetric problem.
FirstPoint ==
  /\ stage = "ready" /\ Symmetric
  /\ \E K \in {KKTMatrix(dat, IdentityScalings(dat))} :
       /\ ConstantPart(K, dat) # NULL
       /\ out' = [kind |-> "first", method |-> "newton", pt |-> InitialPoint(K, dat)]
  /\ UNCHANGED <<stage, user, dat, sol, smooth, gs>>

----------------------------------------------------------------------------
(* Derivatives *)

\* solution_to_equilibrated: the shorter of the two lists counts.
ToEquilibrated(data, s) ==
  [x |-> Times(s.x, Inverses(data.d)),
   z |-> [i \in DOMAIN data.e |-> Mod(Mod(s.z[i] * data.c) * Recip(data.e[i]))],
   s |-> [i \in DOMAIN data.e |-> Mod(s.s[i] * data.e[i])],
   zx |-> [k \in DOMAIN s.zx |-> Mod(Mod(s.zx[k] * data.c) * data.d[FlatIndex(data.xcones)[k]])]]
\* The point backward works at: the smoothing iterate, with the direct-x dual
\* of the solution, or the solution.
BackwardPoint(data, s, method) ==
  IF method = "smoothed" /\ smooth # NULL
  THEN [x |-> By(Recip(smooth.tau), smooth.x), z |-> By(Recip(smooth.tau), smooth.z),
        s |-> By(Recip(smooth.tau), smooth.s), zx |-> ToEquilibrated(data, s).zx]
  ELSE ToEquilibrated(data, s)
\* The average complementarity of a point.
Mu(cones, pt) ==
  IF Degree(cones) > 0 THEN Div(FDot(pt.s, pt.z), Degree(cones)) ELSE FDot(pt.s, pt.z)

\* A mutant: the gradient by s is scaled like s.
BarScaledLikeSlack(data, bar) ==
  LET cinv == Recip(data.c)
  IN  [x |-> Times(bar.x, data.d),
       z |-> [i \in DOMAIN data.e |-> Mod(Mod(bar.z[i] * data.e[i]) * cinv)],
       s |-> [i \in DOMAIN data.e |-> Mod(bar.s[i] * data.e[i])],
       zx |-> [k \in DOMAIN bar.zx |-> Mod(Mod(bar.zx[k] * cinv) * Recip(data.d[FlatIndex(data.xcones)[k]]))]]
BarToEquilibrated(data, bar) ==
  LET cinv == Recip(data.c)
  IN  [x |-> Times(bar.x, data.d),
       z |-> [i \in DOMAIN data.e |-> Mod(Mod(bar.z[i] * data.e[i]) * cinv)],
       s |-> [i \in DOMAIN data.e |-> Mod(bar.s[i] * Recip(data.e[i]))],
       zx |-> [k \in DOMAIN bar.zx |-> Mod(Mod(bar.zx[k] * cinv) * Recip(data.d[FlatIndex(data.xcones)[k]]))]]
GradientsToUser(data, g) ==
  [dP |-> FLRScale(FScale(g.dP, data.c), data.d, data.d),
   dq |-> By(data.c, Times(g.dq, data.d)),
   dA |-> FLRScale(g.dA, data.e, data.d),
   db |-> Times(g.db, data.e)]

BarOf(raw, data, m) ==
  [x |-> SubSeq(raw, 1, data.P.n), z |-> SubSeq(raw, 3, 2 + m), s |-> SubSeq(raw, 5, 4 + m),
   zx |-> SubSeq(raw, 2, 1 + Len(FlatIndex(data.xcones)))]

BackwardAt(data, pt, bar, method) ==
  CHOOSE r \in {GradientsToUser(data, g)
                : g \in {AdjointHsde(data, pt, of, method, Mu(data.cones, pt)) : of \in {Value(BarToEquilibrated(data, bar))}}} : r = r
\* backward_batch_with_dz_x, with and without a cached GradState; resolved is
\* the method that Auto stands for.
Backward ==
  /\ stage = "solved" /\ sol # NULL
  /\ \E raw \in Bars, method \in Methods, large \in BOOLEAN :
       \E resolved \in {Resolve(method, dat.cones, large)} :
         /\ method # "auto" => large
         /\ DiffMethodFits(user, method)
         /\ resolved = "smoothed" => smooth # NULL
         /\ \E pt \in {Value(BackwardPoint(dat, sol, resolved))}, bar \in {Value(BarOf(raw, dat, Len(user.b)))} :
              out' = [kind |-> "backward", method |-> resolved, pt |-> pt, bar |-> bar,
                      res |-> BackwardAt(dat, pt, bar, resolved)]
  /\ UNCHANGED <<stage, user, dat, sol, smooth, gs>>

\* A change of the data, on the entries that are stored.
Perturbation(data) ==
  LET hashed(M) == [M EXCEPT !.col = [j \in 1..M.n |-> [k \in DOMAIN M.col[j] |->
                      <<M.col[j][k][1], Mod(5 * M.col[j][k][1] + 11 * j + 3)>>]]]
  IN  [P |-> hashed(data.P), q |-> [j \in 1..data.P.n |-> 6 + j],
       A |-> hashed(data.A), b |-> [i \in 1..data.A.m |-> 2 * i + 1]]
PerturbationToEquilibrated(data, dth) ==
  [P |-> FLRScale(FScale(dth.P, data.c), data.d, data.d), q |-> By(data.c, Times(dth.q, data.d)),
   A |-> FLRScale(dth.A, data.e, data.d), b |-> Times(dth.b, data.e)]
ForwardAt(data, pt, dth, method, mu) ==
  CHOOSE r \in {[x |-> Times(v.x, data.d), z |-> By(Recip(data.c), Times(v.z, data.e)),
                 s |-> Times(v.s, Inverses(data.e))]
                : v \in {Differentiate(data, pt, change, method, mu)
                         : change \in {Value(PerturbationToEquilibrated(data, dth))}}} : r = r
\* forward_batch
Forward ==
  /\ stage = "solved" /\ sol # NULL
  /\ \E pt \in {Value(ToEquilibrated(dat, sol))}, dth \in {Value(Perturbation(dat))} :
       out' = [kind |-> "forward", method |-> "exact", pt |-> pt, bar |-> dth,
               res |-> ForwardAt(dat, pt, dth, "exact", 0)]
  /\ UNCHANGED <<stage, user, dat, sol, smooth, gs>>

Init ==
  /\ stage = "start"
  /\ user = NULL /\ dat = NULL /\ sol = NULL /\ smooth = NULL /\ gs = NULL /\ out = NULL

Next ==
  \/ New \/ Reject \/ NewSymbolic \/ Load \/ LoadB
  \/ Iterate \/ FirstPoint \/ Solve \/ Backward \/ Forward

Spec == Init /\ [][Next]_vars
=============================================================================

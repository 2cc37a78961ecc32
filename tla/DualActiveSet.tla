----------------------------- MODULE DualActiveSet -----------------------------
(***************************************************************************)
(* The workspace of the active-set solver (DaqpWorkspace) and what its     *)
(* routines do to it: core.cpp, factorization.cpp and transform.cpp under  *)
(* cpp/src/solver/active_set/.                                             *)
(*                                                                         *)
(* The arithmetic is exact.  The program                                   *)
(*     minimise x'Hx/2 + f'x  subject to  lower <= Ax <= upper             *)
(* becomes a least-distance problem  minimise |u|^2  subject to            *)
(* dlower <= Mu <= dupper  with rows of M of length one.  The working set  *)
(* WS lists the constraints held as equations; L and D factor M_W M_W' and *)
(* are updated when a constraint comes or goes.  Arrays count from 1 and   *)
(* are as long as what is valid in them, so n_active is Len(WS); row i of  *)
(* L has its i - 1 entries below the diagonal.  sing_ind is 0 when empty.  *)
(***************************************************************************)
EXTENDS Rational

RECURSIVE AddConstraint(_, _, _), RemoveConstraint(_, _), PivotLast(_)

\* Stands for DAQP_INF: beyond every number of an instance.
Infinity == Int2Q(10000)

IsLower(w, j) == "LOWER" \in w.sense[j]
IsActive(w, j) == "ACTIVE" \in w.sense[j]
IsImmutable(w, j) == "IMMUTABLE" \in w.sense[j]
BoundOf(w, j) == IF IsLower(w, j) THEN w.dlower[j] ELSE w.dupper[j]
NActive(w) == Len(w.WS)
Drop(s, k) == SubSeq(s, 1, k - 1) \o SubSeq(s, k + 1, Len(s))

\* DaqpWorkspace::allocate, and reset between solves: M, the bounds, the
\* scaling and the factors keep what an earlier solve left.
NewWorkspace(n, m, settings) ==
  [n |-> n, m |-> m, settings |-> settings,
   M |-> [i \in 1..m |-> ZeroVec(n)], Rinv |-> [i \in 1..n |-> ZeroVec(n)], v |-> ZeroVec(n),
   dupper |-> ZeroVec(m), dlower |-> ZeroVec(m),
   sense |-> [i \in 1..m |-> {}], scaling |-> [i \in 1..m |-> One],
   lam |-> <<>>, lam_star |-> <<>>, u |-> ZeroVec(n), fval |-> Zero, prox |-> {},
   L |-> <<>>, D |-> <<>>, xldl |-> <<>>, zldl |-> <<>>,
   WS |-> <<>>, sing_ind |-> 0, reuse_ind |-> 0]
Reset(w) == [w EXCEPT !.sing_ind = 0, !.WS = <<>>, !.L = <<>>, !.D = <<>>, !.reuse_ind = 0,
                      !.fval = Zero, !.lam = <<>>, !.lam_star = <<>>, !.u = ZeroVec(w.n)]
\* The working set is emptied; who is flagged active stays flagged.
Emptied(w) == [w EXCEPT !.sing_ind = 0, !.WS = <<>>, !.L = <<>>, !.D = <<>>, !.reuse_ind = 0]

----------------------------------------------------------------------------
(* The factorization *)

\* L * y = r.
ForwardOf[L \in Matrix, r \in Vector] ==
  Fold(LAMBDA y, i : Append(y, Sub(r[i], Dot(L[i], y))), <<>>, [i \in DOMAIN r |-> i])
\* L' * y = z.
BackwardOf[L \in Matrix, z \in Vector] ==
  LET k == Len(z)
      Step(y, i) == <<Sub(z[i], Total([j \in 1..Len(y) |-> Mul(y[j], L[i + j][i])]))>> \o y
  IN  Fold(Step, <<>>, [i \in 1..k |-> k + 1 - i])
Forward(L, r) == ForwardOf[L, r]
Backward(L, z) == BackwardOf[L, z]

\* daqp_update_LDL_add.  The first constraint is not tested for singularity.
UpdateLDLAdd(w, j) ==
  LET k == NActive(w)
      l == Forward(w.L, [i \in 1..k |-> Dot(w.M[w.WS[i]], w.M[j])])
      row == Computed([i \in 1..k |-> Quot(l[i], w.D[i])])
      d == Sub(Dot(w.M[j], w.M[j]), Dot(l, row))
      singular == k > 0 /\ (Lt(d, w.settings.sing_tol) \/ k >= w.n)
  IN  [w EXCEPT !.L = Append(@, row),
                !.D = Append(@, IF singular THEN Zero ELSE d),
                !.sing_ind = IF singular THEN k + 1 ELSE 0]

\* daqp_update_LDL_remove: without position rm, L and D are brought back to a
\* factor by Gill's update.  (The column of L that goes overwrites the part of
\* zldl that is not reused.)
Downdated[L \in Matrix, D \in Vector, rm \in Nat] ==
  LET k == Len(L)
      rows == [i \in 1..(k - 1) |-> IF i < rm THEN L[i] ELSE Drop(L[i + 1], rm)]
      Step(t, j) ==
        LET p == t.w[j]
            dbar == Add(D[rm + j], Mul(t.alpha, Mul(p, p)))
            beta == Quot(Mul(p, t.alpha), dbar)
            new == Computed([r \in 1..(k - rm) |->
                     IF r <= j THEN t.w[r] ELSE Sub(t.w[r], Mul(p, t.L[rm + r - 1][rm + j - 1]))])
        IN  [w |-> new,
             alpha |-> Quot(Mul(D[rm + j], t.alpha), dbar),
             D |-> Append(t.D, dbar),
             L |-> Computed([i \in 1..(k - 1) |->
                     IF i < rm + j THEN t.L[i]
                     ELSE [t.L[i] EXCEPT ![rm + j - 1] = Add(@, Mul(beta, new[i - rm + 1]))]])]
  IN  Fold(Step, [w |-> [r \in 1..(k - rm) |-> L[rm + r][rm]], alpha |-> D[rm],
                  D |-> SubSeq(D, 1, rm - 1), L |-> rows],
           [j \in 1..(k - rm) |-> j])
UpdateLDLRemove(w, rm) ==
  LET t == Downdated[w.L, w.D, rm] IN [w EXCEPT !.L = t.L, !.D = t.D]

\* Mutant: the row at the place of the one that has gone counts as known.
ReuseUpTo(w, rm) == IF rm < w.reuse_ind THEN rm ELSE w.reuse_ind
\* What can be reused of the last substitution after position rm has gone.
ReuseBefore(w, rm) == IF rm - 1 < w.reuse_ind THEN rm - 1 ELSE w.reuse_ind

\* The last pivot, where it is too small, makes the set singular.
LastPivot(w) ==
  LET k == NActive(w)
  IN  IF k > 0 /\ Lt(w.D[k], w.settings.sing_tol) THEN [w EXCEPT !.sing_ind = k, !.D[k] = Zero]
      ELSE PivotLast(w)
RemoveConstraint(w, rm) ==
  LastPivot([UpdateLDLRemove(w, rm) EXCEPT
               !.sense[w.WS[rm]] = @ \ {"ACTIVE"},
               !.WS = Drop(@, rm), !.lam = Drop(SubSeq(@, 1, NActive(w)), rm),
               !.reuse_ind = ReuseBefore(w, rm)])

AddConstraint(w, j, lam) ==
  PivotLast([UpdateLDLAdd([w EXCEPT !.sense[j] = @ \cup {"ACTIVE"}], j) EXCEPT
               !.WS = Append(@, j), !.lam = Append(SubSeq(@, 1, NActive(w)), lam)])

\* daqp_pivot_last: a small pivot before a larger one changes places with it.
BringBack(w, j, lam) == IF w.sing_ind # 0 THEN w ELSE AddConstraint(w, j, lam)
PivotLast(w) ==
  LET k == NActive(w)
      rm == k - 1
  IN  IF k > 1 /\ Lt(w.D[rm], w.settings.pivot_tol) /\ Lt(w.D[rm], w.D[k])
      THEN BringBack(RemoveConstraint(w, rm), w.WS[rm], w.lam[rm])
      ELSE w

\* daqp_activate_constraints: those flagged active enter the working set in
\* order; at the first that depends on the others, it and the later ones are
\* given up, and the flag is that of an overdetermined set if one of them is
\* an equality.
GiveUp(v, i) ==
  [work |-> [v EXCEPT !.sense = [k \in 1..v.m |-> IF k >= i /\ ~IsImmutable(v, k)
                                                   THEN v.sense[k] \ {"ACTIVE"} ELSE v.sense[k]],
                      !.WS = SubSeq(@, 1, NActive(v) - 1), !.L = SubSeq(@, 1, NActive(v) - 1),
                      !.D = SubSeq(@, 1, NActive(v) - 1), !.sing_ind = 0],
   flag |-> IF \E k \in i..v.m : IsActive(v, k) /\ IsImmutable(v, k) THEN "overdetermined" ELSE "ok",
   done |-> TRUE]
Entered(w, i) ==
  IF IsActive(w, i) THEN AddConstraint(w, i, IF IsLower(w, i) THEN Int2Q(-1) ELSE One) ELSE w
Settled(v, i) == IF v.sing_ind # 0 THEN GiveUp(v, i) ELSE [work |-> v, flag |-> "ok", done |-> FALSE]
ActivateConstraints(w) ==
  Fold(LAMBDA t, i : IF t.done THEN t ELSE Settled(Entered(t.work, i), i),
       [work |-> w, flag |-> "ok", done |-> FALSE], [i \in 1..w.m |-> i])

----------------------------------------------------------------------------
(* From the program to the least-distance problem *)

\* daqp_check_bounds: a constraint with equal bounds is an equality.
CheckBounds(w, upper, lower) ==
  [w EXCEPT !.sense = [i \in 1..w.m |->
     IF ~IsImmutable(w, i) /\ Lt(Sub(upper[i], lower[i]), w.settings.zero_tol)
     THEN w.sense[i] \cup {"ACTIVE", "IMMUTABLE"} ELSE w.sense[i]]]

\* daqp_update_Rinv: the Cholesky factor R'R of H with eps_prox added to the
\* pivots that are not positive, and its inverse.  (A diagonal H has a
\* storage of its own with the same numbers.)
CholeskyOf[H \in Matrix, zero_tol, eps_prox \in Rat] ==
  LET Sym(i, j) == Mul(Frac(1, 2), Add(H[i][j], H[j][i]))
      Step(t, i) ==
        LET col(j) == [k \in 1..(i - 1) |-> t.R[k][j]]
            pivot == Sub(H[i][i], Dot(col(i), col(i)))
            raised == IF Le(pivot, zero_tol) THEN Add(pivot, eps_prox) ELSE pivot
            root == Computed(Root(raised))
        IN  IF t.flag # "ok" \/ Le(raised, zero_tol) THEN [t EXCEPT !.flag = "nonconvex"]
            ELSE [flag |-> "ok",
                  prox |-> IF raised # pivot THEN t.prox \cup {i} ELSE t.prox,
                  R |-> Append(t.R, Computed([j \in DOMAIN H |->
                          IF j < i THEN Zero ELSE IF j = i THEN root
                          ELSE Quot(Sub(Sym(i, j), Dot(col(i), col(j))), root)]))]
  IN  Fold(Step, [R |-> <<>>, prox |-> {}, flag |-> "ok"], [i \in DOMAIN H |-> i])
UpdateRinv(w, H) ==
  LET t == CholeskyOf[H, w.settings.zero_tol, w.settings.eps_prox]
  IN  [flag |-> t.flag,
       work |-> IF t.flag # "ok" THEN w
                ELSE [w EXCEPT !.prox = t.prox,
                               !.Rinv = Computed(Transposed([j \in 1..w.n |-> Solution(t.R, Basis(w.n, j))], w.n))]]

UpdateV(w, f) == [w EXCEPT !.v = Computed(TVec(w.Rinv, f, w.n))]

\* daqp_update_M with daqp_normalize_M: rows of length one.  A row of zeros
\* is infeasible or never active; it keeps the scaling it had.
UpdateM(w, A) ==
  LET M == Computed([i \in 1..w.m |-> TVec(w.Rinv, A[i], w.n)])
      norm2 == Computed([i \in 1..w.m |-> Dot(M[i], M[i])])
      empty == {i \in 1..w.m : Lt(norm2[i], w.settings.zero_tol)}
      scaling == Computed([i \in 1..w.m |-> IF i \in empty THEN w.scaling[i] ELSE Inv(Root(norm2[i]))])
      violated == \E i \in empty : Lt(w.dupper[i], Neg(w.settings.primal_tol))
                                   \/ Lt(w.settings.primal_tol, w.dlower[i])
      e == Emptied(w)
  IN  IF violated THEN [work |-> e, flag |-> "infeasible"]
      ELSE [work |-> [e EXCEPT !.M = Computed([i \in 1..w.m |-> IF i \in empty THEN M[i] ELSE VScale(scaling[i], M[i])]),
                               !.scaling = scaling,
                               !.sense = [i \in 1..w.m |-> IF i \in empty THEN {"IMMUTABLE"} ELSE w.sense[i]]],
            flag |-> "ok"]

UpdateD(w, upper, lower) ==
  LET shift == Computed(MVec(w.M, w.v))
  IN  [w EXCEPT !.reuse_ind = 0,
                !.dupper = Computed([i \in 1..w.m |-> Add(Mul(upper[i], w.scaling[i]), shift[i])]),
                !.dlower = Computed([i \in 1..w.m |-> Add(Mul(lower[i], w.scaling[i]), shift[i])])]

\* daqp_setup_ldp; the bounds are in dupper and dlower already.  Each part
\* goes on from the one before, [work, flag], unless that one has failed.
\* (A part that fails leaves Rinv or M half written in the program; the next
\* solve writes them anew before it reads them.  An upper bound is never below
\* its lower one: buildBounds makes them equal, or the lower one infinite.)
WithEqualities(w, new) == IF new THEN ActivateConstraints(Emptied(w)) ELSE [work |-> w, flag |-> "ok"]
WithRows(t, new) ==
  IF t.flag # "ok" THEN t ELSE WithEqualities(UpdateD(t.work, t.work.dupper, t.work.dlower), new)
WithRinv(t, f, A, new) == IF t.flag # "ok" THEN t ELSE WithRows(UpdateM(UpdateV(t.work, f), A), new)
SetupLdp(w, H, f, A) ==
  LET bounded == CheckBounds(w, w.dupper, w.dlower)
  IN  WithRinv(UpdateRinv(bounded, H), f, A, bounded.sense # w.sense)

----------------------------------------------------------------------------
(* One iteration *)

\* daqp_compute_CSP: the multipliers lam_star of the working set taken as
\* equations; the first reuse_ind entries of the substitution are reused.
ComputeCSP(w) ==
  LET k == NActive(w)
      Row(x, i) == Append(x, IF i <= w.reuse_ind THEN w.xldl[i]
                             ELSE Sub(Neg(BoundOf(w, w.WS[i])), Dot(w.L[i], x)))
      x == Fold(Row, <<>>, [i \in 1..k |-> i])
      z == Computed([i \in 1..k |-> IF i <= w.reuse_ind THEN w.zldl[i] ELSE Quot(x[i], w.D[i])])
  IN  [w EXCEPT !.xldl = x, !.zldl = z, !.lam_star = Backward(w.L, z), !.reuse_ind = k]

\* daqp_compute_singular_direction: a combination of the rows of the working
\* set that vanishes.
SingularDirection(w) ==
  LET k == w.sing_ind
      p == Computed(Append(Backward(w.L, [i \in 1..(k - 1) |-> Neg(w.L[k][i])]), One))
  IN  [w EXCEPT !.lam_star = IF IsLower(w, w.WS[k]) THEN VScale(Int2Q(-1), p) ELSE p]

\* Mutant: equalities leave like the others.
WrongSignOfAll(w) ==
  {i \in 1..NActive(w) :
     IF IsLower(w, w.WS[i]) THEN Le(w.settings.dual_tol, w.lam_star[i])
     ELSE Le(w.lam_star[i], Neg(w.settings.dual_tol))}
\* daqp_remove_blocking: positions whose multiplier has the wrong sign, how
\* far the step can go to each, and the first of the nearest.
WrongSign(w) ==
  {i \in 1..NActive(w) :
     /\ ~IsImmutable(w, w.WS[i])
     /\ IF IsLower(w, w.WS[i]) THEN Le(w.settings.dual_tol, w.lam_star[i])
        ELSE Le(w.lam_star[i], Neg(w.settings.dual_tol))}
StepOf(w, i) ==
  Neg(Quot(w.lam[i], IF w.sing_ind = 0 THEN Sub(w.lam_star[i], w.lam[i]) ELSE w.lam_star[i]))
Blocking(w) ==
  LET S == WrongSign(w)
      nearest == {i \in S : \A j \in S : Le(StepOf(w, i), StepOf(w, j))}
  IN  IF S = {} THEN 0 ELSE Least(nearest)
RemoveBlocking(w, rm) ==
  LET alpha == StepOf(w, rm)
      toward(i) == IF w.sing_ind = 0 THEN Sub(w.lam_star[i], w.lam[i]) ELSE w.lam_star[i]
      lam == Computed([i \in 1..NActive(w) |-> Add(w.lam[i], Mul(alpha, toward(i)))])
  IN  RemoveConstraint([w EXCEPT !.lam = lam, !.sing_ind = 0], rm)

PrimalAndFval(w) ==
  LET u == Computed(VScale(Int2Q(-1), TVec([i \in 1..NActive(w) |-> w.M[w.WS[i]]], w.lam_star, w.n)))
  IN  [w EXCEPT !.u = u, !.fval = Dot(u, u)]

\* daqp_add_infeasible: the bound that u violates most, of those not active;
\* the first of several.
Violations(w) ==
  LET Mu(j) == Dot(w.M[j], w.u)
      Gaps(j) == {[add |-> j, side |-> "upper", gap |-> Sub(w.dupper[j], Mu(j))],
                  [add |-> j, side |-> "lower", gap |-> Sub(Mu(j), w.dlower[j])]}
  IN  {g \in UNION {Gaps(j) : j \in {i \in 1..w.m : ~IsActive(w, i) /\ ~IsImmutable(w, i)}} :
         Lt(g.gap, Neg(Mul(w.settings.primal_tol, w.scaling[g.add])))}
MostViolated(w) ==
  LET V == Computed(Violations(w))
      worst == {g \in V : \A h \in V : Le(g.gap, h.gap)}
  IN  IF V = {} THEN [add |-> 0, side |-> "none", gap |-> Zero]
      ELSE CHOOSE g \in worst : \A h \in worst : g.add <= h.add
AddInfeasible(w, c) ==
  AddConstraint([w EXCEPT !.sense[c.add] = IF c.side = "upper" THEN @ \ {"LOWER"} ELSE @ \cup {"LOWER"},
                          !.lam = w.lam_star, !.lam_star = w.lam],
                c.add, IF c.side = "upper" THEN One ELSE Int2Q(-1))

\* daqp_refine_active: one step of refinement of the multipliers.
RefineActive(w) ==
  LET k == NActive(w)
      r == Computed([i \in 1..k |-> Sub(Dot(w.M[w.WS[i]], w.u), BoundOf(w, w.WS[i]))])
      y == Forward(w.L, r)
      delta == Backward(w.L, Computed([i \in 1..k |-> Quot(y[i], w.D[i])]))
      u == Computed(VSub(w.u, TVec([i \in 1..k |-> w.M[w.WS[i]]], delta, w.n)))
  IN  [w EXCEPT !.xldl = delta, !.lam_star = VAdd(SubSeq(@, 1, k), delta), !.u = u, !.fval = Dot(u, u)]

\* ldp2qp_solution.
XOf(w) == MVec(w.Rinv, VSub(w.u, w.v))
UnscaledDuals(w) == [i \in 1..NActive(w) |-> Mul(w.lam_star[i], w.scaling[w.WS[i]])]
=============================================================================

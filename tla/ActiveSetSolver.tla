----------------------------- MODULE ActiveSetSolver -----------------------------
(***************************************************************************)
(* ActiveSetSolver of cpp/src/solver/active_set/solver.cpp over its life:  *)
(* setup, cold and warm solves and gradients of one problem.  (A batch is  *)
(* split over threads that share nothing: each problem has a workspace.)   *)
(* One iteration of daqp_ldp is one step.                                  *)
(*                                                                         *)
(* Left out: the callback, timers and the objective value.  A solve is     *)
(* equilibrated or not (needs_equilibration), by any scaling of a set.     *)
(***************************************************************************)
EXTENDS ActiveSetGradient

CONSTANTS
  Families,      \* what a solver is built for and called with:
                 \* [n, nz, m, stored, settings, mats, data, starts, scalings, losses]
  ClockPeriod,   \* iterations between two looks at the clock (64)
  MaxCalls,      \* bound on calls
  NONE           \* what is not there

ASSUME BoundsAssumption == ClockPeriod \in Nat \ {0} /\ MaxCalls \in Nat

VARIABLES
  family,     \* fixed by the constructor
  pc,         \* "idle", "ldp" in daqp_ldp, "extract" after it
  mats,       \* H_dense_ and A_dense_
  hasSolved,  \* has_solved_
  work,       \* the workspace
  call,       \* the running or the last solve: data as given and as used
  loop,       \* locals of daqp_ldp: [iter, tried_repair, cycle_counter, best_fval]
  exitflag,
  sol,        \* [status, x, s, z]
  state,      \* backward_states_
  held,       \* what a caller kept of its first solve, for backward_with_data
  grad,       \* the last gradient, with what it was asked for
  calls       \* calls so far

vars == <<family, pc, mats, hasSolved, work, call, loop, exitflag, sol, state, held, grad, calls>>
answers == <<sol, state, held, grad>>

n == family.n
m == family.m
nz == family.nz
settings == family.settings
NewLoop == [iter |-> 1, tried_repair |-> FALSE, cycle_counter |-> 0, best_fval |-> Int2Q(-1)]

Init ==
  /\ family \in Families
  /\ pc = "idle" /\ mats = NONE /\ hasSolved = FALSE
  /\ work = NewWorkspace(n, m, settings)
  /\ call = NONE /\ loop = NewLoop /\ exitflag = NONE
  /\ sol = NONE /\ state = NONE /\ held = NONE /\ grad = NONE
  /\ calls = 0

Setup ==
  /\ pc = "idle" /\ calls < MaxCalls
  /\ mats' \in family.mats
  /\ hasSolved' = FALSE
  /\ calls' = calls + 1
  /\ UNCHANGED <<family, pc, work, call, loop, exitflag, answers>>

----------------------------------------------------------------------------
(* A solve up to the loop *)

BuildBounds(w, b) ==
  [w EXCEPT !.dupper = b,
            !.dlower = [i \in 1..m |-> IF i <= nz THEN b[i] ELSE Neg(Infinity)],
            !.sense = [i \in 1..m |-> {}]]
Prepared(w, H, q, A, b) == SetupLdp(BuildBounds(Reset(w), b), H, q, A)

Equilibrated(H, q, A, b, t) ==
  [H |-> [i \in 1..n |-> [j \in 1..n |-> Mul(t.c, Mul(t.d[i], Mul(t.d[j], H[i][j])))]],
   q |-> [i \in 1..n |-> Mul(t.c, Mul(t.d[i], q[i]))],
   A |-> [i \in 1..m |-> [j \in 1..n |-> Mul(t.e[i], Mul(t.d[j], A[i][j]))]],
   b |-> [i \in 1..m |-> Mul(t.e[i], b[i])]]

\* With a setup that failed there is no loop to run.
Enter(prepared) ==
  /\ work' = prepared.work
  /\ IF prepared.flag = "ok" THEN pc' = "ldp" /\ exitflag' = NONE
     ELSE pc' = "extract" /\ exitflag' = prepared.flag
  /\ loop' = NewLoop
  /\ calls' = calls + 1
  /\ UNCHANGED <<family, mats, hasSolved, answers>>

\* t is what ruiz_equilibrate returns, NONE where needs_equilibration is false.
Solve ==
  /\ pc = "idle" /\ mats # NONE /\ calls < MaxCalls
  /\ \E d \in family.data, t \in family.scalings :
       \E e \in {IF t = NONE THEN [H |-> mats.H, q |-> d.q, A |-> mats.A, b |-> d.b]
                 ELSE Equilibrated(mats.H, d.q, mats.A, d.b, t)} :
       \E prepared \in {Prepared(work, e.H, e.q, e.A, e.b)} :
         /\ call' = [H |-> mats.H, A |-> mats.A, q |-> d.q, b |-> d.b, scaling |-> t]
         /\ Enter(prepared)

\* The inequalities of rows, in order, join the working set; if one depends on
\* the others the warm start is given up.
WarmSet(w, rows) ==
  Fold(LAMBDA v, i : IF v.sing_ind # 0 \/ i \notin rows THEN v ELSE AddConstraint(v, i, One),
       w, [i \in 1..m |-> i])

\* A warm start names the rows with s < primal_tol and z > dual_tol.  (As the
\* first constraint a row of zeros would give a pivot of zero: no instance
\* starts from one.)  It never equilibrates.
SolveWarmStart ==
  /\ pc = "idle" /\ mats # NONE /\ calls < MaxCalls
  /\ \E d \in family.data, rows \in family.starts :
       \E cold \in {Prepared(work, mats.H, d.q, mats.A, d.b)} :
       \E warm \in {WarmSet(cold.work, rows)} :
         /\ \A i \in rows : mats.A[i] # ZeroVec(n)
         /\ call' = [H |-> mats.H, A |-> mats.A, q |-> d.q, b |-> d.b, scaling |-> NONE]
         /\ \/ cold.flag # "ok" /\ Enter(cold)
            \/ cold.flag = "ok" /\ warm.sing_ind = 0 /\ Enter([work |-> warm, flag |-> "ok"])
            \/ cold.flag = "ok" /\ warm.sing_ind # 0 /\ Enter(Prepared(warm, mats.H, d.q, mats.A, d.b))

----------------------------------------------------------------------------
(* daqp_ldp *)

Exit(flag, w) ==
  /\ pc' = "extract" /\ exitflag' = flag /\ work' = w
  /\ UNCHANGED <<family, mats, hasSolved, call, calls, answers>>
Continue(w, l) ==
  /\ work' = w /\ loop' = [l EXCEPT !.iter = @ + 1]
  /\ UNCHANGED <<family, pc, mats, hasSolved, call, exitflag, calls, answers>>
InLoop == pc = "ldp" /\ loop.iter < settings.iter_limit

LimitReached ==
  /\ pc = "ldp" /\ loop.iter >= settings.iter_limit
  /\ Exit("iterlimit", work) /\ UNCHANGED loop
TimesOut ==
  /\ InLoop /\ settings.time_limit /\ loop.iter % ClockPeriod = 0
  /\ Exit("timelimit", work) /\ UNCHANGED loop

DropBlocking ==
  /\ InLoop /\ work.sing_ind = 0
  /\ \E w \in {ComputeCSP(work)} : \E rm \in {Blocking(w)} :
       rm # 0 /\ Continue(RemoveBlocking(w, rm), loop)

\* The working set has multipliers of the right sign: where that leads.
\* (A set of one element, or of none.)
Stationary ==
  IF ~InLoop \/ work.sing_ind # 0 THEN {}
  ELSE {PrimalAndFval(w) : w \in {c \in {ComputeCSP(work)} : Blocking(c) = 0}}
TooLarge(w) == Lt(Mul(Int2Q(2), settings.fval_bound), w.fval)

ExceedsBound ==
  \E w \in Stationary : TooLarge(w) /\ Exit("infeasible", w) /\ UNCHANGED loop

\* The cycle guard, with the value before the constraint was added.
NoProgress(w) == Lt(Sub(w.fval, loop.best_fval), settings.progress_tol)
AddViolated ==
  \E w \in Stationary : \E c \in {MostViolated(w)} :
    /\ ~TooLarge(w) /\ c.add # 0
    /\ \E a \in {AddInfeasible(w, c)} :
         \/ /\ ~NoProgress(w)
            /\ Continue(a, [loop EXCEPT !.best_fval = w.fval, !.cycle_counter = 0])
         \/ /\ NoProgress(w) /\ loop.cycle_counter <= settings.cycle_tol
            /\ Continue(a, [loop EXCEPT !.cycle_counter = @ + 1])
         \/ /\ NoProgress(w) /\ loop.cycle_counter > settings.cycle_tol /\ ~loop.tried_repair
            /\ Continue(ActivateConstraints(Emptied(a)).work,
                        [loop EXCEPT !.tried_repair = TRUE, !.cycle_counter = 0, !.best_fval = Int2Q(-1)])
         \/ /\ NoProgress(w) /\ loop.cycle_counter > settings.cycle_tol /\ loop.tried_repair
            /\ Exit("cycle", a) /\ loop' = [loop EXCEPT !.cycle_counter = @ + 1]

SmallestPivot(w) == CHOOSE d \in Elems(w.D) : \A e \in Elems(w.D) : Le(d, e)
NeedsRepair(w) ==
  NActive(w) > 2 /\ ~loop.tried_repair /\ Lt(SmallestPivot(w), settings.refactor_tol)

\* At the optimum an ill-conditioned factor is built anew; the side of every
\* constraint is read off its multiplier, that of the equalities too.
SideOf(w, j) ==
  IF j \notin Elems(w.WS) THEN w.sense[j]
  ELSE IF Le(Zero, w.lam[CHOOSE i \in 1..NActive(w) : w.WS[i] = j]) THEN w.sense[j] \ {"LOWER"}
  ELSE w.sense[j] \cup {"LOWER"}
Refactorize ==
  \E w \in Stationary :
    /\ ~TooLarge(w) /\ MostViolated(w).add = 0 /\ NeedsRepair(w)
    /\ \E sided \in {[w EXCEPT !.sense = [j \in 1..m |-> SideOf(w, j)]]} :
         Continue(ActivateConstraints(Emptied(sided)).work, [loop EXCEPT !.tried_repair = TRUE])

Optimum ==
  \E w \in Stationary :
    /\ ~TooLarge(w) /\ MostViolated(w).add = 0 /\ ~NeedsRepair(w)
    /\ Exit("optimal",
            IF NActive(w) > 0 /\ Lt(SmallestPivot(w), settings.pivot_tol) THEN RefineActive(w) ELSE w)
    /\ UNCHANGED loop

DropSingular ==
  /\ InLoop /\ work.sing_ind # 0
  /\ \E w \in {SingularDirection(work)} : \E rm \in {Blocking(w)} :
       rm # 0 /\ Continue(RemoveBlocking(w, rm), loop)
ProveInfeasible ==
  /\ InLoop /\ work.sing_ind # 0
  /\ \E w \in {SingularDirection(work)} :
       Blocking(w) = 0 /\ Exit("infeasible", w) /\ UNCHANGED loop

----------------------------------------------------------------------------
(* After the loop *)

\* Mutant: equalities that depend on each other are taken for a contradiction.
StatusWithoutRedundancy(flag) ==
  CASE flag = "optimal" -> "Solved"
    [] flag \in {"infeasible", "overdetermined"} -> "PrimalInfeasible"
    [] flag = "iterlimit" -> "MaxIterations"
    [] flag = "timelimit" -> "MaxTime"
    [] OTHER -> "NumericalError"
StatusOf(flag) ==
  CASE flag = "optimal" -> "Solved"
    [] flag = "infeasible" -> "PrimalInfeasible"
    [] flag = "iterlimit" -> "MaxIterations"
    [] flag = "timelimit" -> "MaxTime"
    [] OTHER -> "NumericalError"

\* The solution in the scaling of the call.
UserX(w) == IF call.scaling = NONE THEN XOf(w) ELSE VMul(call.scaling.d, XOf(w))
\* Mutant: without the scaling of the cost.
DualsOfScaledCost(w) ==
  LET lam == UnscaledDuals(w)
  IN  [i \in 1..NActive(w) |->
        IF call.scaling = NONE THEN lam[i] ELSE Mul(lam[i], call.scaling.e[w.WS[i]])]
UserDuals(w) ==
  LET lam == UnscaledDuals(w)
  IN  [i \in 1..NActive(w) |->
        IF call.scaling = NONE THEN lam[i]
        ELSE Mul(lam[i], Quot(call.scaling.e[w.WS[i]], call.scaling.c))]

SolutionOf(w, flag) ==
  IF flag # "optimal"
  THEN [status |-> StatusOf(flag), x |-> ZeroVec(n), s |-> ZeroVec(m), z |-> ZeroVec(m)]
  ELSE LET x == Computed(UserX(w))
           s == Computed(VSub(call.b, MVec(call.A, x)))
           size == LargestAbs(Append(call.b, One))
           negative == \E i \in (nz + 1)..m : Lt(s[i], Neg(Mul(settings.primal_tol, size)))
       IN  [status |-> IF negative THEN "NumericalError" ELSE "Solved",
            x |-> x, s |-> s,
            z |-> [j \in 1..m |->
                    IF \E i \in 1..NActive(w) : w.WS[i] = j
                    THEN LET i == CHOOSE k \in 1..NActive(w) : w.WS[k] = j
                         IN  IF IsLower(w, j) THEN Neg(w.lam_star[i]) ELSE w.lam_star[i]
                    ELSE Zero]]

\* ldp2qp_solution, extractSolution and cache_backward_state.
Extract ==
  /\ pc = "extract"
  /\ LET w == IF exitflag = "optimal" THEN [work EXCEPT !.lam_star = Computed(UserDuals(work))] ELSE work
     IN  /\ work' = w
         /\ sol' = SolutionOf(w, exitflag)
         /\ state' = SaveBackwardState(w)
         /\ held' = IF held # NONE \/ sol'.status # "Solved" THEN held
                    ELSE [call |-> call, sol |-> sol', state |-> state', prox |-> w.prox]
  /\ hasSolved' = TRUE
  /\ pc' = "idle"
  /\ UNCHANGED <<family, mats, call, loop, exitflag, grad, calls>>

Gradient(st, A, x, z, s, d) ==
  IF settings.diff_mu = NONE THEN BackwardExact(st, A, d, x, n, m)
  ELSE BackwardSmoothed(st, A, d, x, z, s, n, m, nz, settings.diff_mu)

\* With the matrices of the last setup and the solution and state of the last
\* solve.  After a setup it raises until the next solve.
BackwardPass ==
  /\ pc = "idle" /\ hasSolved /\ calls < MaxCalls
  /\ \E d \in family.losses :
       grad' = [of |-> call, sol |-> sol, state |-> state, prox |-> work.prox, loss |-> d,
                result |-> Gradient(state, mats.A, sol.x, sol.z, sol.s, d)]
  /\ calls' = calls + 1
  /\ UNCHANGED <<family, pc, mats, hasSolved, work, call, loop, exitflag, sol, state, held>>

\* Mutant: with the solver's own state in place of the caller's.
BackwardWithOwnState ==
  /\ pc = "idle" /\ held # NONE /\ calls < MaxCalls
  /\ \E d \in family.losses :
       grad' = [of |-> held.call, sol |-> held.sol, state |-> state, prox |-> held.prox, loss |-> d,
                result |-> Gradient(state, held.call.A, held.sol.x, held.sol.z, held.sol.s, d)]
  /\ calls' = calls + 1
  /\ UNCHANGED <<family, pc, mats, hasSolved, work, call, loop, exitflag, sol, state, held>>

\* With everything the caller kept of an earlier solve.
BackwardWithData ==
  /\ pc = "idle" /\ held # NONE /\ calls < MaxCalls
  /\ \E d \in family.losses :
       grad' = [of |-> held.call, sol |-> held.sol, state |-> held.state, prox |-> held.prox, loss |-> d,
                result |-> Gradient(held.state, held.call.A, held.sol.x, held.sol.z, held.sol.s, d)]
  /\ calls' = calls + 1
  /\ UNCHANGED <<family, pc, mats, hasSolved, work, call, loop, exitflag, sol, state, held>>

Iterate ==
  \/ LimitReached \/ TimesOut \/ DropBlocking \/ ExceedsBound \/ AddViolated
  \/ Refactorize \/ Optimum \/ DropSingular \/ ProveInfeasible
Next == Setup \/ Solve \/ SolveWarmStart \/ Iterate \/ Extract \/ BackwardPass \/ BackwardWithData
Spec == Init /\ [][Next]_vars

----------------------------------------------------------------------------
(* Properties *)

Answered == pc = "idle" /\ sol # NONE
\* eps_prox in the user's coordinates: what was added to entry i of H.
AddedTo(i, c, prox) ==
  IF i \notin prox THEN Zero
  ELSE IF c.scaling = NONE THEN settings.eps_prox
  ELSE Quot(settings.eps_prox, Mul(c.scaling.c, Mul(c.scaling.d[i], c.scaling.d[i])))
Regularized(c, prox) ==
  [i \in 1..n |-> [j \in 1..n |-> IF i = j THEN Add(c.H[i][j], AddedTo(i, c, prox)) ELSE c.H[i][j]]]
\* Equalities that Refactorize has given the lower side.
FlippedEqualities(sense) == {i \in 1..nz : "LOWER" \in sense[i]}

\* A solve that reports Solved returns the optimum of the user's program,
\* with the multipliers that prove it, after any sequence of earlier solves,
\* from a cold or any warm start, equilibrated or not: x is feasible, the
\* multipliers have the right sign, vanish where there is slack, and balance
\* the gradient.  H counts with eps_prox where it is singular.  The sign of
\* the multiplier of an equality is left open once a repair has run.
SolvedIsOptimal ==
  Answered /\ sol.status = "Solved" =>
    LET H == Regularized(call, work.prox)
        z == Computed([i \in 1..m |-> IF i \in FlippedEqualities(state.sense) THEN Neg(sol.z[i]) ELSE sol.z[i]])
    IN  /\ VAdd(VAdd(MVec(H, sol.x), call.q), TVec(call.A, z, n)) = ZeroVec(n)
        /\ sol.s = VSub(call.b, MVec(call.A, sol.x))
        /\ \A i \in 1..nz : sol.s[i] = Zero
        /\ \A i \in (nz + 1)..m : Le(Zero, sol.s[i]) /\ Le(Zero, z[i]) /\ Zero \in {sol.s[i], z[i]}

\* A solve that reports PrimalInfeasible holds a proof: a row of zeros whose
\* bound is violated, or multipliers of the right sign that combine the rows
\* to zero and the bounds to something negative, or a value beyond the
\* caller's own bound.
InfeasibleIsProved ==
  Answered /\ sol.status = "PrimalInfeasible" =>
    \/ \E i \in 1..m : /\ call.A[i] = ZeroVec(n)
                       /\ IF i <= nz THEN call.b[i] # Zero ELSE Lt(call.b[i], Zero)
    \/ TooLarge(work)
    \/ /\ Len(work.lam_star) = NActive(work)
       /\ LET rows == [k \in 1..NActive(work) |-> call.A[work.WS[k]]]
              y == Computed([k \in 1..NActive(work) |->
                     Mul(Mul(work.lam_star[k], work.scaling[work.WS[k]]),
                         IF call.scaling = NONE THEN One ELSE call.scaling.e[work.WS[k]])])
          IN  /\ TVec(rows, y, n) = ZeroVec(n)
              /\ Lt(Total([k \in DOMAIN y |-> Mul(y[k], call.b[work.WS[k]])]), Zero)
              /\ \A k \in DOMAIN y : work.WS[k] <= nz \/ Le(Zero, y[k])

\* The factor that additions, removals, exchanges and repairs have left is the
\* factor of the rows now in the working set, and what the next substitution
\* will reuse is what it would compute.
FactorIsOfWorkingSet ==
  pc = "ldp" =>
    LET k == NActive(work)
        Entry(i, j) == IF j = i THEN One ELSE work.L[i][j]
    IN  /\ \A i \in 1..k : \A j \in 1..i :
             Total([l \in 1..j |-> Mul(Mul(Entry(i, l), Entry(j, l)), work.D[l])])
               = Dot(work.M[work.WS[i]], work.M[work.WS[j]])
        /\ work.reuse_ind <= k
        /\ \A i \in 1..work.reuse_ind :
             /\ work.xldl[i] = Sub(Neg(BoundOf(work, work.WS[i])), Dot(work.L[i], SubSeq(work.xldl, 1, i - 1)))
             /\ work.zldl[i] = Quot(work.xldl[i], work.D[i])

\* The flags tell who is in the working set, no constraint is in it twice, and
\* an equality never leaves it, whatever is exchanged, dropped or rebuilt: a
\* constraint flagged active outside of it would never be looked at again.
FlagsMatchWorkingSet ==
  pc = "ldp" =>
    /\ {j \in 1..m : IsActive(work, j)} = Elems(work.WS)
    /\ Cardinality(Elems(work.WS)) = NActive(work)
    /\ \A j \in 1..nz : work.M[j] = ZeroVec(n) \/ j \in Elems(work.WS)

\* The gradient of an exact or smoothed backward pass is the derivative of the
\* solution of its own solve, for every direction in which the data can
\* move.  Excluded are equilibrated solves, as the source says, and flipped
\* equalities.
GradientIsOfItsSolve ==
  grad # NONE /\ grad.sol.status = "Solved" /\ grad.of.scaling = NONE
    /\ FlippedEqualities(grad.state.sense) = {} =>
    LET g == grad.result
        exact == settings.diff_mu = NONE
        H == Regularized(grad.of, grad.prox)
        z == IF exact THEN grad.sol.z ELSE Computed(CentralDuals(grad.sol.z, grad.sol.s, nz, settings.diff_mu))
        S == IF exact THEN Elems(grad.state.WS) ELSE 1..m
        ratio == [i \in 1..m |-> IF exact THEN Zero ELSE Quot(settings.diff_mu, Mul(z[i], z[i]))]
        Change(move) == Pairing(grad.loss, Directional(H, grad.of.A, grad.sol.x, z, S, ratio, move, n, m))
        stay == NoMove(n, m)
        P == StoredGradient(g.H, family.stored)
    IN  /\ ~g.raised
        /\ \A i \in 1..n : g.q[i] = Change([stay EXCEPT !.q[i] = One])
        /\ \A i \in 1..m : g.b[i] = Change([stay EXCEPT !.b[i] = One])
        /\ \A i \in 1..m, j \in 1..n : g.A[i][j] = Change([stay EXCEPT !.A[i][j] = One])
        /\ \A e \in family.stored : e[1] <= e[2] =>
             Total([k \in 1..2 |-> IF <<e[k], e[3 - k]>> \in family.stored /\ (k = 1 \/ e[1] # e[2])
                                   THEN P[<<e[k], e[3 - k]>>] ELSE Zero])
               = Change([stay EXCEPT !.H[e[1]][e[2]] = One, !.H[e[2]][e[1]] = One])
=============================================================================

------------------------------ MODULE IPSolver ------------------------------
(***************************************************************************)
(* The interior-point loop of moreau-cpu: Solver::solve of                 *)
(* solver/core/solver.rs with the bookkeeping of DefaultInfo (info.rs) and *)
(* DefaultSolution (solution.rs) it calls, over several consecutive solves *)
(* of one solver object.                                                   *)
(*                                                                         *)
(* The linear algebra is adversarial: a step may lead to any iterate of    *)
(* Iterates, a factorization may fail, a step may come out short.  What is *)
(* modelled exactly is the control: every convergence test, every snapshot *)
(* and restore, every change of the scaling strategy, and their order.     *)
(*                                                                         *)
(* Magnitudes (gaps, residuals, kappa/tau) are decimal exponents: v stands *)
(* for 10^v.  Only their order and the factor 100 of the code's            *)
(* regression tests matter.  NaN compares false with everything.           *)
(*                                                                         *)
(* A number the code stores is represented by the iterate it was computed  *)
(* from: cost/residual/gap fields of DefaultInfo by metricsOf, the         *)
(* kappa/tau field by ktOf, the residuals object by residualsOf, and so on.*)
(* Mixing up two iterates is then visible as two different provenances.    *)
(***************************************************************************)
EXTENDS Integers

CONSTANTS
  Iterates,      \* metric records the linear algebra can produce
  Starts,        \* those a default or warm start can produce: a warm point is not
                 \* validated and a failed factorization of the default start is
                 \* ignored, so NaN may be among them
  NaN,           \* the not-a-number magnitude
  MaxIter,       \* settings.max_iter
  YoloIters,     \* settings.yolo_num_iters
  MaxRuns,       \* bound: number of solve() calls on the object
  TolGap, TolFeas,           \* tol_gap_abs = tol_gap_rel, tol_feas
  ReducedGap, ReducedFeas,   \* reduced_tol_gap_*, reduced_tol_feas
  ReducedKt,                 \* reduced_tol_ktratio
  TinyKt,                    \* 100 * epsilon
  InfeasKt, AlmostInfeasKt   \* 1000 / tol_ktratio, 1000 / reduced_tol_ktratio

Magnitude == Int \cup {NaN}

\* gapA, gapR: absolute and relative duality gap; resP, resD: residuals;
\* kt: kappa/tau; pinf, dinf: how well the iterate proves primal or dual
\* infeasibility: 0 not at all, 1 at reduced, 2 at full tolerance.
IterateType == [gapA : Magnitude, gapR : Magnitude, resP : Magnitude,
                resD : Magnitude, kt : Magnitude, pinf : 0..2, dinf : 0..2]

NaNIterate == [gapA |-> NaN, gapR |-> NaN, resP |-> NaN, resD |-> NaN,
               kt |-> NaN, pinf |-> 0, dinf |-> 0]

ASSUME NaNAssumption == NaN \notin Int
ASSUME IterateAssumption ==
  /\ Iterates \subseteq IterateType
  /\ Starts \subseteq Iterates
  /\ \A i \in Iterates : i.gapA = NaN <=> i.gapR = NaN
ASSUME BoundAssumption == MaxIter \in Nat /\ YoloIters \in Nat /\ MaxRuns \in Nat
\* Reduced tolerances are no tighter than the full ones, and the kappa/tau
\* thresholds lie on their side of 1 = 10^0.
ASSUME ToleranceAssumption ==
  /\ {TolGap, TolFeas, ReducedGap, ReducedFeas, ReducedKt, TinyKt,
      InfeasKt, AlmostInfeasKt} \subseteq Int
  /\ TolGap <= ReducedGap /\ TolFeas <= ReducedFeas
  /\ TinyKt <= 0 /\ ReducedKt <= 0
  /\ 0 <= AlmostInfeasKt /\ AlmostInfeasKt <= InfeasKt

VARIABLES
  pc,           \* where solve() is; "idle" between calls
  conf,         \* settings and cones, see Conf
  run,          \* ghost: number of the current or last solve()
  iter, alpha,  \* locals of solve(); alpha: 0 if zero, 1 if positive
  scaling,      \* local of solve(): "PrimalDual" or "Dual"
  variables,    \* the current iterate
  residualsOf,  \* iterate the residuals object was computed from
  status, iterations, metricsOf, ktOf,          \* DefaultInfo
  prevMetricsOf, prevVars,                      \* info.prev_*, prev_vars
  bestSaved, bestIter, bestMetricsOf, bestVars, \* info.best_*, best_vars
  skipDefaultStart,                             \* set by a warm start
  smoothingCached, smoothingOf,                 \* smoothing_cached, smoothing_vars
  solution,     \* what the last solve() returned: status, the iterate of x, s
                \* and z, the one of costs and residuals (the costs of an
                \* infeasible status are NaN), iterations; mode of the call
  zone          \* ghost: reduced-tolerance iterates evaluated in this run

infoVars == <<status, iterations, metricsOf, ktOf>>
prevSnap == <<prevMetricsOf, prevVars>>
bestSnap == <<bestSaved, bestIter, bestMetricsOf, bestVars>>
smoothSnap == <<smoothingCached, smoothingOf>>
vars == <<pc, conf, run, iter, alpha, scaling, variables, residualsOf,
          infoVars, prevSnap, bestSnap, skipDefaultStart, smoothSnap,
          solution, zone>>

-----------------------------------------------------------------------------
(* Iterates as values.  A point is an iterate with the run and the pass of   *)
(* the loop that produced it.                                               *)

Point == [it : Iterates \cup {NaNIterate}, run : Nat, step : Nat]
NoPoint == [it |-> NaNIterate, run |-> 0, step |-> 0]
HasNaN(p) == p.it.gapA = NaN

Lt(a, b) == a # NaN /\ b # NaN /\ a < b
Le(a, b) == a # NaN /\ b # NaN /\ a <= b
Hundredfold(v) == IF v = NaN THEN NaN ELSE v + 2

Full == [gap |-> TolGap, feas |-> TolFeas, kt |-> InfeasKt, cert |-> 2,
         solved |-> "Solved", pinf |-> "PrimalInfeasible",
         dinf |-> "DualInfeasible"]
Almost == [gap |-> ReducedGap, feas |-> ReducedFeas, kt |-> AlmostInfeasKt,
           cert |-> 1, solved |-> "AlmostSolved",
           pinf |-> "AlmostPrimalInfeasible", dinf |-> "AlmostDualInfeasible"]

IsSolved(m, tol) ==
  /\ Lt(m.gapA, tol.gap) \/ Lt(m.gapR, tol.gap)
  /\ Lt(m.resP, tol.feas)
  /\ Lt(m.resD, tol.feas)

\* The reduced-tolerance zone, metrics m and kappa/tau k.
InZone(m, k) == IsSolved(m, Almost) /\ Le(k, ReducedKt)

\* Distances to the tight tolerances; the score of an iterate is the largest.
Ratios(m) == {m.resP - TolFeas, m.resD - TolFeas, m.gapA - TolGap}
\* Mutant of Closer: only the gap counts.
GapCloser(m, n) == m.gapA < n.gapA
Closer(m, n) == \E y \in Ratios(n) : \A x \in Ratios(m) : x < y

\* check_convergence: st if no test of tol settles the status.
CheckConvergence(tol, m, k, r, st) ==
  IF Le(k, 0) /\ IsSolved(m, tol) THEN tol.solved
  ELSE IF Lt(tol.kt, k) /\ r.pinf >= tol.cert THEN tol.pinf
  ELSE IF Lt(tol.kt, k) /\ r.dinf >= tol.cert THEN tol.dinf
  ELSE st

\* now is beyond 100 tol and more than 100 times the value before.
BlewUp(now, before, tol) ==
  Lt(Hundredfold(tol), now) /\ Lt(Hundredfold(before), now)

\* Mutant of PoorProgress: regressing residuals count at any kappa/tau.
PoorProgressAnyKt(m, k, p) ==
  /\ Lt(p.resD, m.resD) \/ Lt(p.resP, m.resP)
  /\ BlewUp(m.resD, p.resD, TolFeas) \/ BlewUp(m.resP, p.resP, TolFeas)
PoorProgress(m, k, p) ==
  /\ Lt(p.resD, m.resD) \/ Lt(p.resP, m.resP)
  /\ \/ Lt(k, TinyKt) /\ (Lt(p.gapA, TolGap) \/ Lt(p.gapR, TolGap))
     \/ Lt(k, 0) /\ (BlewUp(m.resD, p.resD, TolFeas) \/ BlewUp(m.resP, p.resP, TolFeas))

GapRegressed(m, k, p) ==
  Lt(k, 0) /\ Lt(p.gapA, ReducedGap) /\ BlewUp(m.gapA, p.gapA, ReducedGap)

\* Both gaps in the reduced zone, not yet tight, and a gap change below 1e-4
\* relative: for exact powers of ten, no change at all.
Stagnated(m, k, p) ==
  /\ InZone(m, k)
  /\ Lt(p.gapA, ReducedGap) \/ Lt(p.gapR, ReducedGap)
  /\ ~Lt(m.gapA, TolGap) /\ ~Lt(m.gapR, TolGap)
  /\ m.gapA = p.gapA

LimitReached == iterations = MaxIter

\* check_termination on the fields of info; timeUp: solve_time > time_limit.
TerminationStatus(timeUp) ==
  LET m == metricsOf.it  k == ktOf.it.kt  p == prevMetricsOf.it
      full == CheckConvergence(Full, m, k, residualsOf.it, "Unsolved")
  IN  IF full # "Unsolved" THEN full
      ELSE IF iter > 1 /\ (PoorProgress(m, k, p) \/ GapRegressed(m, k, p))
           THEN "InsufficientProgress"
      ELSE IF iter > 1 /\ Stagnated(m, k, p) THEN "AlmostSolved"
      ELSE IF LimitReached THEN "MaxIterations"
      ELSE IF timeUp THEN "MaxTime" ELSE "Unsolved"

Errored == {"NumericalError", "InsufficientProgress"}
\* Mutant of Limits: time is forgotten.
LimitsButTime == {"MaxIterations"}
Limits == {"MaxIterations", "MaxTime"}
Infeasible == {"PrimalInfeasible", "DualInfeasible",
               "AlmostPrimalInfeasible", "AlmostDualInfeasible"}
Status == {"Unsolved", "Solved", "AlmostSolved", "CallbackTerminated"}
            \cup Errored \cup Limits \cup Infeasible

\* Mutant of CanSwitch: the fallback can be taken again and again.
SwitchAgain == ~conf.symmetric
\* The Dual fallback is open to asymmetric cones, and only once.
CanSwitch == ~conf.symmetric /\ scaling = "PrimalDual"

-----------------------------------------------------------------------------
\* smoothing: gradients are enabled, with diff_method "smoothed"; smoothable:
\* slack cones that have a smoothed derivative; symmetric: no exponential or
\* power cone, neither as slack nor direct.
Conf == {c \in [yolo : BOOLEAN, smoothing : BOOLEAN,
                smoothable : BOOLEAN, symmetric : BOOLEAN] :
           c.smoothing => c.smoothable}

Init ==
  /\ pc = "idle" /\ conf \in Conf /\ run = 0
  /\ iter = 0 /\ alpha = 0 /\ scaling = "PrimalDual"
  /\ variables = NoPoint /\ residualsOf = NoPoint
  /\ status = "Unsolved" /\ iterations = 0
  /\ metricsOf = NoPoint /\ ktOf = NoPoint
  /\ prevMetricsOf = NoPoint /\ prevVars = NoPoint
  /\ bestSaved = FALSE /\ bestIter = 0
  /\ bestMetricsOf = NoPoint /\ bestVars = NoPoint
  /\ skipDefaultStart = FALSE
  /\ smoothingCached = FALSE /\ smoothingOf = NoPoint
  /\ solution = [status |-> "Unsolved", of |-> NoPoint, cost |-> NoPoint,
                 iterations |-> 0, yolo |-> FALSE]
  /\ zone = {}

\* validate_with_cones.  Mutant: no validation.
NoValidation(smoothing) == TRUE
SettingsValid(smoothing) == smoothing => conf.smoothable

\* update_settings between solves: the cones never change.
UpdateSettings(yolo, smoothing) ==
  /\ pc = "idle" /\ run < MaxRuns /\ ~skipDefaultStart
  /\ SettingsValid(smoothing)
  /\ conf' = [conf EXCEPT !.yolo = yolo, !.smoothing = smoothing]
  /\ UNCHANGED <<pc, run, iter, alpha, scaling, variables, residualsOf, infoVars,
                 prevSnap, bestSnap, skipDefaultStart, smoothSnap, solution, zone>>

\* CompiledSolver writes a warm point into the variables, evaluates the
\* residuals there and asks the next solve() not to overwrite it.
WarmStart(i) ==
  /\ pc = "idle" /\ run < MaxRuns /\ ~skipDefaultStart
  /\ variables' = [it |-> i, run |-> run + 1, step |-> 0]
  /\ residualsOf' = variables'
  /\ skipDefaultStart' = TRUE
  /\ UNCHANGED <<pc, conf, run, iter, alpha, scaling, infoVars, prevSnap,
                 bestSnap, smoothSnap, solution, zone>>

\* prev_vars when a YOLO solve starts from v.  Mutant: not seeded.
NoSeed(v) == prevVars
Seed(v) == IF conf.yolo THEN v ELSE prevVars

\* solve() up to the loop: info.reset, the default start, the YOLO seed.
\* info.reset leaves prev_*, the metrics and the best_* values alone.
Start(i) ==
  /\ pc = "idle" /\ run < MaxRuns
  /\ pc' = "top" /\ run' = run + 1
  /\ iter' = 0 /\ alpha' = 0 /\ scaling' = "PrimalDual"
  /\ status' = "Unsolved" /\ iterations' = 0
  /\ bestSaved' = FALSE /\ bestIter' = 0
  /\ smoothingCached' = FALSE
  /\ variables' = IF skipDefaultStart THEN variables
                  ELSE [it |-> i, run |-> run + 1, step |-> 0]
  /\ skipDefaultStart' = FALSE
  /\ prevVars' = Seed(variables')
  /\ zone' = {}
  /\ UNCHANGED <<conf, residualsOf, metricsOf, ktOf, prevMetricsOf,
                 bestMetricsOf, bestVars, smoothingOf, solution>>

\* try_save_best_iterate, with the metrics just computed.
SaveBest ==
  IF /\ InZone(metricsOf'.it, ktOf'.it.kt)
     /\ bestSaved => Closer(metricsOf'.it, bestMetricsOf.it)
  THEN /\ bestSaved' = TRUE /\ bestIter' = iterations'
       /\ bestMetricsOf' = metricsOf' /\ bestVars' = variables
  ELSE UNCHANGED bestSnap

\* Top of a regular pass: residuals.update, save_scalars, info.update and
\* try_save_best_iterate.
Evaluate ==
  /\ pc = "top" /\ ~conf.yolo
  /\ pc' = "check"
  /\ residualsOf' = variables
  /\ iterations' = iter
  /\ metricsOf' = variables /\ ktOf' = variables
  /\ SaveBest
  /\ zone' = IF InZone(variables.it, variables.it.kt) THEN zone \cup {variables} ELSE zone
  /\ UNCHANGED <<conf, run, iter, alpha, scaling, variables, status, prevSnap,
                 skipDefaultStart, smoothSnap, solution>>

\* Top of a YOLO pass: no convergence test, a fixed number of iterations.
YoloTop ==
  /\ pc = "top" /\ conf.yolo
  /\ residualsOf' = variables
  /\ \/ /\ iter >= YoloIters
        /\ status' = "MaxIterations" /\ pc' = "exit"
     \/ /\ iter < YoloIters
        /\ pc' = "step" /\ UNCHANGED status
  /\ UNCHANGED <<conf, run, iter, alpha, scaling, variables, iterations, metricsOf,
                 ktOf, prevSnap, bestSnap, skipDefaultStart, smoothSnap, solution, zone>>

CallbackStops ==
  /\ pc = "check"
  /\ status' = "CallbackTerminated" /\ pc' = "exit"
  /\ UNCHANGED <<conf, run, iter, alpha, scaling, variables, residualsOf, iterations,
                 metricsOf, ktOf, prevSnap, bestSnap, skipDefaultStart, smoothSnap,
                 solution, zone>>

\* check_termination settles on a status other than InsufficientProgress, or
\* on none.
CheckTermination(timeUp) ==
  /\ pc = "check"
  /\ TerminationStatus(timeUp) # "InsufficientProgress"
  /\ status' = TerminationStatus(timeUp)
  /\ pc' = IF status' = "Unsolved" THEN "step" ELSE "exit"
  /\ UNCHANGED <<conf, run, iter, alpha, scaling, variables, residualsOf, iterations,
                 metricsOf, ktOf, prevSnap, bestSnap, skipDefaultStart, smoothSnap,
                 solution, zone>>

\* check_termination finds poor progress: strategy_checkpoint_insufficient_
\* progress goes back to the previous iterate and, if it can, tries again with
\* the Dual strategy.  reset_to_prev_iterate restores neither ktratio nor the
\* residuals object.
RejectStep ==
  /\ pc = "check"
  /\ TerminationStatus(FALSE) = "InsufficientProgress"
  /\ metricsOf' = prevMetricsOf /\ variables' = prevVars
  /\ \/ /\ CanSwitch
        /\ status' = "Unsolved" /\ scaling' = "Dual" /\ pc' = "top"
     \/ /\ ~CanSwitch
        /\ status' = "InsufficientProgress" /\ pc' = "exit" /\ UNCHANGED scaling
  /\ UNCHANGED <<conf, run, iter, alpha, residualsOf, iterations, ktOf, prevSnap,
                 bestSnap, skipDefaultStart, smoothSnap, solution, zone>>

\* scale_cones finds the iterate outside the cones.
ScalingFails ==
  /\ pc = "step" /\ ~conf.yolo
  /\ status' = "NumericalError" /\ pc' = "exit"
  /\ UNCHANGED <<conf, run, iter, alpha, scaling, variables, residualsOf, iterations,
                 metricsOf, ktOf, prevSnap, bestSnap, skipDefaultStart, smoothSnap,
                 solution, zone>>

\* Passes that update the KKT system are counted.  Mutant: not in YOLO mode.
CountedUnlessYolo == IF conf.yolo THEN iter ELSE iter + 1
NextIter == iter + 1

\* The step is abandoned: with a strategy left the pass is repeated with the
\* Dual one, otherwise the loop ends with status st.  A step too short to go
\* on is too short for the first strategy (min_terminate_step_length <=
\* min_switch_step_length, as in the defaults).
AbandonStep(st) ==
  /\ pc = "step" /\ ~conf.yolo
  /\ iter' = NextIter /\ alpha' = 0
  /\ \/ /\ CanSwitch
        /\ scaling' = "Dual" /\ pc' = "top" /\ UNCHANGED status
     \/ /\ ~CanSwitch
        /\ status' = st /\ pc' = "exit" /\ UNCHANGED scaling
  /\ UNCHANGED <<conf, run, variables, residualsOf, iterations, metricsOf, ktOf,
                 prevSnap, bestSnap, skipDefaultStart, smoothSnap, solution, zone>>

KktFails == AbandonStep("NumericalError")
ShortStep == AbandonStep("InsufficientProgress")

\* save_prev_iterate and add_step; in YOLO mode prev_vars follows the iterate
\* as long as it is free of NaN.
TakeStep(i) ==
  /\ pc = "step"
  /\ iter' = NextIter /\ alpha' = 1
  /\ variables' = [it |-> i, run |-> run, step |-> NextIter]
  /\ \/ /\ ~conf.yolo
        /\ prevMetricsOf' = metricsOf /\ prevVars' = variables
     \/ /\ conf.yolo
        /\ prevVars' = IF HasNaN(variables') THEN prevVars ELSE variables'
        /\ UNCHANGED prevMetricsOf
  /\ pc' = "top"
  /\ UNCHANGED <<conf, run, scaling, residualsOf, infoVars, bestSnap,
                 skipDefaultStart, smoothSnap, solution, zone>>

Usable == {"Solved", "AlmostSolved", "MaxIterations", "CallbackTerminated"}

\* After the loop: the YOLO restore, save_scalars, and the refinement of the
\* smoothing iterate, which starts from the variables and puts them back.
Refine ==
  /\ pc = "exit"
  /\ variables' = IF conf.yolo /\ HasNaN(variables) THEN prevVars ELSE variables
  /\ iterations' = IF conf.yolo \/ (alpha = 0 /\ iter > 0) THEN iter ELSE iterations
  /\ \/ /\ conf.smoothing /\ status \in Usable
        /\ smoothingOf' = variables' /\ smoothingCached' = TRUE
        /\ residualsOf' = variables'
     \/ /\ ~(conf.smoothing /\ status \in Usable)
        /\ UNCHANGED <<smoothSnap, residualsOf>>
  /\ pc' = "post"
  /\ UNCHANGED <<conf, run, iter, alpha, scaling, status, metricsOf, ktOf, prevSnap,
                 bestSnap, skipDefaultStart, solution, zone>>

\* try_restore_best_iterate, info.post_process and solution.post_process.
\* Mutant of RestoresBest: limits are not eligible.
RestoresAfterErrors == ~conf.yolo /\ bestSaved /\ status \in Errored
RestoresBest == ~conf.yolo /\ bestSaved /\ status \in Errored \cup Limits

PostProcess ==
  /\ pc = "post"
  /\ \/ /\ RestoresBest
        /\ variables' = bestVars /\ metricsOf' = bestMetricsOf /\ ktOf' = bestMetricsOf
        /\ iterations' = bestIter /\ status' = "AlmostSolved"
     \/ /\ ~RestoresBest
        /\ status' = IF ~conf.yolo /\ status \in Errored \cup Limits
                     THEN CheckConvergence(Almost, metricsOf.it, ktOf.it.kt,
                                           residualsOf.it, status)
                     ELSE status
        /\ UNCHANGED <<variables, metricsOf, ktOf, iterations>>
  /\ solution' = [status |-> status', of |-> variables', cost |-> metricsOf',
                  iterations |-> iterations', yolo |-> conf.yolo]
  /\ pc' = "idle"
  /\ UNCHANGED <<conf, run, iter, alpha, scaling, residualsOf, prevSnap, bestSnap,
                 skipDefaultStart, smoothSnap, zone>>

Loop == \/ Evaluate \/ YoloTop \/ CallbackStops
        \/ \E timeUp \in BOOLEAN : CheckTermination(timeUp)
        \/ RejectStep \/ ScalingFails \/ KktFails \/ ShortStep
        \/ \E i \in Iterates : TakeStep(i)
        \/ Refine \/ PostProcess

Next == \/ \E yolo, smoothing \in BOOLEAN : UpdateSettings(yolo, smoothing)
        \/ \E i \in Starts : WarmStart(i) \/ Start(i)
        \/ Loop

\* solve() is a sequential function: once called it keeps running.
Spec == Init /\ [][Next]_vars /\ WF_vars(Loop)

-----------------------------------------------------------------------------
(* Properties.                                                              *)

TypeOK ==
  /\ pc \in {"idle", "top", "check", "step", "exit", "post"}
  /\ conf \in Conf
  /\ run \in 0..MaxRuns /\ iter \in Nat /\ alpha \in {0, 1}
  /\ scaling \in {"PrimalDual", "Dual"}
  /\ {variables, residualsOf, metricsOf, ktOf, prevMetricsOf, prevVars,
      bestMetricsOf, bestVars, smoothingOf} \subseteq Point
  /\ status \in Status /\ iterations \in Nat
  /\ bestSaved \in BOOLEAN /\ bestIter \in Nat
  /\ skipDefaultStart \in BOOLEAN /\ smoothingCached \in BOOLEAN
  /\ solution \in [status : Status, of : Point, cost : Point,
                   iterations : Nat, yolo : BOOLEAN]
  /\ zone \subseteq Point

Returned == pc = "idle" /\ run > 0

\* info.reset keeps the previous iterate of an earlier solve.  The progress
\* tests nevertheless only ever compare with an iterate of this solve, and
\* the one they would go back to is the one they compared with.
ProgressTestsReadThisRun ==
  pc = "check" /\ iter > 1 =>
    /\ prevMetricsOf.run = run
    /\ prevVars = prevMetricsOf

\* A regular solve returns an iterate of this call, with the objective of
\* that same iterate, and a status that this iterate justifies: tolerances for
\* Solved and AlmostSolved, a certificate for the infeasible statuses.
StatusIsHonest ==
  Returned /\ ~solution.yolo =>
    LET m == solution.of.it IN
    /\ solution.of.run = run
    /\ solution.cost = solution.of
    /\ solution.status # "Unsolved"
    /\ solution.status = "Solved" => IsSolved(m, Full)
    /\ solution.status = "AlmostSolved" => IsSolved(m, Almost)
    /\ solution.status = "PrimalInfeasible" => m.pinf = 2
    /\ solution.status = "DualInfeasible" => m.dinf = 2
    /\ solution.status = "AlmostPrimalInfeasible" => m.pinf >= 1
    /\ solution.status = "AlmostDualInfeasible" => m.dinf >= 1

\* A reduced-accuracy solution seen at any iteration of a solve is not lost:
\* the solve cannot end in an error, a limit or an "almost infeasible" status.
NoSolutionLost ==
  Returned /\ zone # {} =>
    solution.status \in {"Solved", "AlmostSolved", "CallbackTerminated",
                        "PrimalInfeasible", "DualInfeasible"}

Score(m) == CHOOSE x \in Ratios(m) : \A y \in Ratios(m) : y <= x

\* The snapshot try_restore_best_iterate would restore is the iterate of this
\* solve closest to the tight tolerances, metrics and variables together.
BestIsClosest ==
  pc # "idle" =>
    /\ bestSaved <=> zone # {}
    /\ bestSaved => /\ bestVars = bestMetricsOf /\ bestVars \in zone
                    /\ \A p \in zone : Score(bestVars.it) <= Score(p.it)

\* The iteration counter, tested for equality only, never passes its limit:
\* neither by abandoned steps nor by passes repeated with the Dual strategy.
IterationsBounded ==
  pc # "idle" => iter <= IF conf.yolo THEN YoloIters ELSE MaxIter

\* A YOLO solve never hands out NaN, unless it started from it: it falls back to
\* its last valid iterate, and to its own starting point if the first step already
\* failed.
YoloReturnsNumbers ==
  Returned /\ solution.yolo =>
    /\ solution.of.run = run
    /\ HasNaN(solution.of) => solution.of.step = 0

\* Every call of solve() returns.
SolveReturns == pc # "idle" ~> pc = "idle"

-----------------------------------------------------------------------------
(* The loop as one call of the contract: everything between the start and   *)
(* the answer is hidden, except that an acceptable point was reached.       *)

Claim(st) ==
  CASE st = "Unsolved" -> "none"
    [] st = "Solved" -> "solved"
    [] st = "AlmostSolved" -> "acceptable"
    [] st = "PrimalInfeasible" -> "primal infeasible"
    [] st = "DualInfeasible" -> "dual infeasible"
    [] st = "AlmostPrimalInfeasible" -> "nearly primal infeasible"
    [] st = "AlmostDualInfeasible" -> "nearly dual infeasible"
    [] st = "CallbackTerminated" -> "interrupted"
    [] OTHER -> "gave up"
Quality(m) == IF IsSolved(m, Full) THEN 2 ELSE IF IsSolved(m, Almost) THEN 1 ELSE 0

Contract == INSTANCE SolveContract WITH
  busy <- pc # "idle",
  calls <- run,
  seen <- zone # {},
  answer <- [call |-> solution.of.run, claim |-> Claim(solution.status),
             quality |-> Quality(solution.of.it),
             primal |-> solution.of.it.pinf, dual |-> solution.of.it.dinf]

\* Over any sequence of solves, settings updates and warm starts the solver
\* keeps the contract of solve().
FulfilsContract == Contract!Spec
=============================================================================

--------------------------- MODULE IPSolverProofs ---------------------------
(***************************************************************************)
(* Safety of the interior-point loop for every set of iterates, every      *)
(* tolerance setting that satisfies ToleranceAssumption and every bound.   *)
(*                                                                         *)
(* The argument is one inductive invariant, IInv.  Its parts say, for each *)
(* place of the loop, which iterate each stored number was computed from.  *)
(***************************************************************************)
EXTENDS IPSolver, TLAPS

InLoop == pc \in {"top", "check", "step"}
Running == pc # "idle"

\* The previous-iterate snapshot belongs to this run.
PrevFresh == prevMetricsOf.run = run /\ prevVars = prevMetricsOf

\* Without a fresh snapshot no pass was counted, or a single one that was
\* abandoned for the Dual strategy.
PrevInv ==
  InLoop /\ ~conf.yolo /\ ~PrevFresh =>
    \/ iter = 0
    \/ iter = 1 /\ scaling = "Dual"

\* Where the iterate and the numbers of DefaultInfo come from.
CurrentInv ==
  /\ Running => variables.run = run /\ run > 0
  /\ skipDefaultStart => pc = "idle" /\ variables.run = run + 1 /\ variables.step = 0
  /\ ~conf.yolo /\ pc \in {"check", "step", "exit", "post"} => metricsOf = variables
  /\ ~conf.yolo /\ pc \in {"check", "step"} =>
       ktOf = variables /\ residualsOf = variables
  /\ ~conf.yolo /\ pc \in {"exit", "post"} =>
       \/ ktOf = variables /\ residualsOf = variables
       \/ status = "InsufficientProgress" /\ Lt(ktOf.it.kt, 0)

\* What the status stands for while solve() runs.
StatusInv ==
  /\ InLoop => status = "Unsolved"
  /\ conf.yolo => pc # "check"
  /\ ~conf.yolo /\ pc \in {"exit", "post"} =>
       /\ status \in {"Solved", "AlmostSolved", "PrimalInfeasible", "DualInfeasible",
                      "CallbackTerminated"} \cup Errored \cup Limits
       /\ status = "Solved" => IsSolved(variables.it, Full)
       /\ status = "AlmostSolved" => IsSolved(variables.it, Almost)
       /\ status = "PrimalInfeasible" => variables.it.pinf = 2
       /\ status = "DualInfeasible" => variables.it.dinf = 2
  /\ conf.yolo /\ pc \in {"exit", "post"} => status = "MaxIterations"

\* The best-iterate snapshot and the iterates it was chosen from.
BestInv ==
  Running =>
    /\ bestSaved <=> zone # {}
    /\ bestSaved => bestVars = bestMetricsOf /\ bestVars \in zone
    /\ \A p \in zone : /\ p.run = run /\ InZone(p.it, p.it.kt)
                       /\ Score(bestVars.it) <= Score(p.it)
    /\ conf.yolo => zone = {}

\* The only NaN a YOLO solve may hand out is its own start.
NumberOrStart(p) == HasNaN(p) => p.step = 0

\* The YOLO snapshot is usable if the start was.
YoloInv ==
  Running /\ conf.yolo =>
    /\ prevVars.run = run /\ NumberOrStart(prevVars)
    /\ pc = "post" => NumberOrStart(variables)

\* A pass that goes on to a step has not reached the limit.
CountInv ==
  Running =>
    /\ iter <= IF conf.yolo THEN YoloIters ELSE MaxIter
    /\ pc \in {"check", "step"} /\ ~conf.yolo => iterations = iter
    /\ pc = "step" => iter # IF conf.yolo THEN YoloIters ELSE MaxIter

IInv == /\ TypeOK /\ PrevInv /\ CurrentInv /\ StatusInv /\ BestInv /\ YoloInv
        /\ CountInv /\ StatusIsHonest /\ NoSolutionLost /\ YoloReturnsNumbers

-----------------------------------------------------------------------------
(* What the convergence tests return.                                       *)

USE NaNAssumption, ToleranceAssumption

\* The score of an iterate with numbers in its fields is the largest ratio.
LEMMA ScoreIsLargest ==
  ASSUME NEW m, m.resP \in Int, m.resD \in Int, m.gapA \in Int
  PROVE  /\ Score(m) \in Int
         /\ Score(m) \in Ratios(m)
         /\ \A y \in Ratios(m) : y <= Score(m)
<1> DEFINE P(x) == x \in Ratios(m) /\ \A y \in Ratios(m) : y <= x
<1>1. \E x : P(x)
  <2>1. CASE m.resP - TolFeas >= m.resD - TolFeas /\ m.resP - TolFeas >= m.gapA - TolGap
    BY <2>1 DEF Ratios
  <2>2. CASE m.resD - TolFeas >= m.resP - TolFeas /\ m.resD - TolFeas >= m.gapA - TolGap
    BY <2>2 DEF Ratios
  <2>3. CASE m.gapA - TolGap >= m.resP - TolFeas /\ m.gapA - TolGap >= m.resD - TolFeas
    BY <2>3 DEF Ratios
  <2> QED BY <2>1, <2>2, <2>3
<1>2. P(CHOOSE x : P(x))
  BY <1>1
<1>3. Score(m) = CHOOSE x : P(x)
  BY Zenon DEF Score
<1>4. P(Score(m))
  BY <1>2, <1>3
<1> QED BY <1>4 DEF Ratios

\* The code's comparison of two iterates compares their scores.
LEMMA CloserIsSmallerScore ==
  ASSUME NEW m, m.resP \in Int, m.resD \in Int, m.gapA \in Int,
         NEW n, n.resP \in Int, n.resD \in Int, n.gapA \in Int
  PROVE  Closer(m, n) <=> Score(m) < Score(n)
<1>1. /\ Score(m) \in Int /\ Score(m) \in Ratios(m)
      /\ \A y \in Ratios(m) : y <= Score(m)
  BY ScoreIsLargest
<1>2. /\ Score(n) \in Int /\ Score(n) \in Ratios(n)
      /\ \A y \in Ratios(n) : y <= Score(n)
  BY ScoreIsLargest
<1>3. Ratios(m) \subseteq Int /\ Ratios(n) \subseteq Int
  BY DEF Ratios
<1> QED BY <1>1, <1>2, <1>3 DEF Closer

\* An iterate of the reduced zone has numbers in its fields.
LEMMA ZoneHasNumbers ==
  ASSUME NEW m \in Iterates \cup {NaNIterate}, NEW k, InZone(m, k)
  PROVE  m.resP \in Int /\ m.resD \in Int /\ m.gapA \in Int
<1>1. m # NaNIterate
  BY DEF InZone, IsSolved, Lt, NaNIterate
<1>2. m \in IterateType /\ (m.gapA = NaN <=> m.gapR = NaN)
  BY <1>1, IterateAssumption
<1> QED BY <1>2 DEF IterateType, Magnitude, InZone, IsSolved, Lt, Almost

\* check_convergence settles on a status only if the tests it stands for
\* succeed.
LEMMA ConvergenceStatus ==
  ASSUME NEW tol \in {Full, Almost}, NEW m, NEW k, NEW r, NEW st
  PROVE  LET c == CheckConvergence(tol, m, k, r, st) IN
         \/ c = st
         \/ c = tol.solved /\ IsSolved(m, tol)
         \/ c = tol.pinf /\ r.pinf >= tol.cert /\ Lt(tol.kt, k)
         \/ c = tol.dinf /\ r.dinf >= tol.cert /\ Lt(tol.kt, k)
BY Zenon DEF CheckConvergence

\* check_termination settles on a status only if the tests it stands for
\* succeed; progress is only judged after the first step, and only where
\* kappa/tau is below 1.
LEMMA TerminationIsJustified ==
  ASSUME NEW t \in BOOLEAN, ktOf \in Point
  PROVE  LET c == TerminationStatus(t) IN
         \/ c = "Unsolved" \/ c \in Limits
         \/ c = "Solved" /\ IsSolved(metricsOf.it, Full)
         \/ c = "AlmostSolved" /\ IsSolved(metricsOf.it, Almost)
         \/ c = "PrimalInfeasible" /\ residualsOf.it.pinf >= 2
         \/ c = "DualInfeasible" /\ residualsOf.it.dinf >= 2
         \/ c = "InsufficientProgress" /\ iter > 1 /\ Lt(ktOf.it.kt, 0)
<1> DEFINE m == metricsOf.it  k == ktOf.it.kt  p == prevMetricsOf.it
           full == CheckConvergence(Full, m, k, residualsOf.it, "Unsolved")
<1>1. CASE full # "Unsolved"
  <2>1. TerminationStatus(t) = full
    BY <1>1, Zenon DEF TerminationStatus
  <2>2. \/ full = "Unsolved"
        \/ full = Full.solved /\ IsSolved(m, Full)
        \/ full = Full.pinf /\ residualsOf.it.pinf >= Full.cert
        \/ full = Full.dinf /\ residualsOf.it.dinf >= Full.cert
    BY ConvergenceStatus, Zenon
  <2> QED BY <1>1, <2>1, <2>2 DEF Full
<1>2. CASE full = "Unsolved" /\ iter > 1 /\ (PoorProgress(m, k, p) \/ GapRegressed(m, k, p))
  <2>1. TerminationStatus(t) = "InsufficientProgress"
    BY <1>2, Zenon DEF TerminationStatus
  <2>2. Lt(k, 0)
    <3>1. Lt(k, TinyKt) \/ Lt(k, 0)
      BY <1>2, Zenon DEF PoorProgress, GapRegressed
    <3>2. k \in Magnitude
      BY IterateAssumption DEF Point, IterateType, NaNIterate, Magnitude
    <3> QED BY <3>1, <3>2 DEF Lt, Magnitude
  <2> QED BY <1>2, <2>1, <2>2
<1>3. CASE /\ full = "Unsolved"
           /\ ~(iter > 1 /\ (PoorProgress(m, k, p) \/ GapRegressed(m, k, p)))
           /\ iter > 1 /\ Stagnated(m, k, p)
  <2>1. TerminationStatus(t) = "AlmostSolved"
    BY <1>3, Zenon DEF TerminationStatus
  <2> QED BY <1>3, <2>1 DEF Stagnated, InZone
<1>4. CASE /\ full = "Unsolved"
           /\ ~(iter > 1 /\ (PoorProgress(m, k, p) \/ GapRegressed(m, k, p)))
           /\ ~(iter > 1 /\ Stagnated(m, k, p))
  <2>1. TerminationStatus(t) \in {"MaxIterations", "MaxTime", "Unsolved"}
    BY <1>4, Zenon DEF TerminationStatus
  <2> QED BY <2>1 DEF Limits
<1> QED BY <1>1, <1>2, <1>3, <1>4

-----------------------------------------------------------------------------
(* The type invariant.                                                      *)

\* What check_convergence and check_termination return is a status.
LEMMA StatusTyped ==
  /\ \A t \in BOOLEAN : TerminationStatus(t) \in Status
  /\ \A m, k, r : \A st \in Status : CheckConvergence(Almost, m, k, r, st) \in Status
<1>1. ASSUME NEW m, NEW k, NEW r, NEW st \in Status, NEW tol \in {Full, Almost}
      PROVE  CheckConvergence(tol, m, k, r, st) \in Status
  <2>1. {tol.solved, tol.pinf, tol.dinf} \subseteq Status
    BY DEF Full, Almost, Status, Infeasible
  <2> QED BY <2>1, Zenon DEF CheckConvergence
<1>2. ASSUME NEW t \in BOOLEAN PROVE TerminationStatus(t) \in Status
  <2> DEFINE full == CheckConvergence(Full, metricsOf.it, ktOf.it.kt, residualsOf.it, "Unsolved")
  <2>1. full \in Status
    BY <1>1 DEF Status
  <2>2. TerminationStatus(t) \in
          {full, "InsufficientProgress", "AlmostSolved", "MaxIterations", "MaxTime", "Unsolved"}
    BY Zenon DEF TerminationStatus
  <2> QED BY <2>1, <2>2 DEF Status, Errored, Limits
<1> QED BY <1>1, <1>2

\* Every step keeps the types.
LEMMA TypeInvariant == ASSUME TypeOK, [Next]_vars PROVE TypeOK'
<1> USE BoundAssumption, IterateAssumption
<1>1. ASSUME NEW yolo \in BOOLEAN, NEW smoothing \in BOOLEAN, UpdateSettings(yolo, smoothing)
      PROVE  TypeOK'
  <2>1. conf' \in Conf
    BY <1>1 DEF UpdateSettings, SettingsValid, TypeOK, Conf
  <2> QED BY <1>1, <2>1 DEF UpdateSettings, TypeOK, infoVars, prevSnap, bestSnap, smoothSnap
<1>2. ASSUME NEW i \in Starts, WarmStart(i) PROVE TypeOK'
  <2>1. variables' \in Point
    BY <1>2 DEF WarmStart, TypeOK, Point
  <2> QED BY <1>2, <2>1 DEF WarmStart, TypeOK, infoVars, prevSnap, bestSnap, smoothSnap
<1>3. ASSUME NEW i \in Starts, Start(i) PROVE TypeOK'
  <2>1. variables' \in Point
    BY <1>3 DEF Start, TypeOK, Point
  <2>2. prevVars' \in Point
    BY <1>3, <2>1 DEF Start, Seed, TypeOK
  <2>3. run' \in 0..MaxRuns
    BY <1>3 DEF Start, TypeOK
  <2> QED BY <1>3, <2>1, <2>2, <2>3 DEF Start, TypeOK, Status
<1>4. CASE Evaluate
  <2>1. /\ {bestMetricsOf', bestVars'} \subseteq Point
        /\ bestSaved' \in BOOLEAN /\ bestIter' \in Nat
    BY <1>4 DEF Evaluate, SaveBest, TypeOK, bestSnap
  <2>2. zone' \subseteq Point
    BY <1>4 DEF Evaluate, TypeOK
  <2> QED BY <1>4, <2>1, <2>2 DEF Evaluate, TypeOK, prevSnap, smoothSnap
<1>5. CASE YoloTop
  BY <1>5 DEF YoloTop, TypeOK, prevSnap, bestSnap, smoothSnap, Status, Limits
<1>6. CASE CallbackStops
  BY <1>6 DEF CallbackStops, TypeOK, prevSnap, bestSnap, smoothSnap, Status
<1>7. ASSUME NEW t \in BOOLEAN, CheckTermination(t) PROVE TypeOK'
  BY <1>7, StatusTyped DEF CheckTermination, TypeOK, prevSnap, bestSnap, smoothSnap
<1>8. CASE RejectStep
  BY <1>8 DEF RejectStep, TypeOK, prevSnap, bestSnap, smoothSnap, Status, Errored
<1>9. CASE ScalingFails
  BY <1>9 DEF ScalingFails, TypeOK, prevSnap, bestSnap, smoothSnap, Status, Errored
<1>10. CASE KktFails \/ ShortStep
  BY <1>10 DEF KktFails, ShortStep, AbandonStep, NextIter, TypeOK, prevSnap, bestSnap,
               smoothSnap, Status, Errored
<1>11. ASSUME NEW i \in Iterates, TakeStep(i) PROVE TypeOK'
  <2>1. variables' \in Point
    BY <1>11 DEF TakeStep, NextIter, TypeOK, Point
  <2> QED BY <1>11, <2>1 DEF TakeStep, NextIter, TypeOK, infoVars, bestSnap, smoothSnap
<1>12. CASE Refine
  BY <1>12 DEF Refine, TypeOK, prevSnap, bestSnap, smoothSnap
<1>13. CASE PostProcess
  <2>1. status' \in Status
    BY <1>13, StatusTyped DEF PostProcess, TypeOK, Status
  <2>2. {variables', metricsOf', ktOf'} \subseteq Point /\ iterations' \in Nat
    BY <1>13 DEF PostProcess, TypeOK
  <2>3. solution' \in [status : Status, of : Point, cost : Point,
                       iterations : Nat, yolo : BOOLEAN]
    BY <1>13, <2>1, <2>2 DEF PostProcess, TypeOK, Conf
  <2> QED BY <1>13, <2>1, <2>2, <2>3 DEF PostProcess, TypeOK, prevSnap, bestSnap, smoothSnap
<1>14. CASE UNCHANGED vars
  BY <1>14 DEF vars, infoVars, prevSnap, bestSnap, smoothSnap, TypeOK
<1> QED
  BY <1>1, <1>2, <1>3, <1>4, <1>5, <1>6, <1>7, <1>8, <1>9, <1>10, <1>11, <1>12, <1>13,
     <1>14 DEF Next, Loop

-----------------------------------------------------------------------------
(* One lemma per part of the inductive invariant, one step per action that  *)
(* can disturb it.                                                          *)

\* The previous-iterate snapshot: abandoning an uncounted first pass uses up
\* the only change of strategy, and a step that is taken makes it fresh.
LEMMA PrevStep == ASSUME IInv, [Next]_vars PROVE PrevInv'
<1> USE DEF IInv, PrevInv, PrevFresh, InLoop
<1>1. ASSUME NEW yolo \in BOOLEAN, NEW smoothing \in BOOLEAN, UpdateSettings(yolo, smoothing)
      PROVE  PrevInv'
  BY <1>1 DEF UpdateSettings
<1>2. ASSUME NEW i \in Starts, WarmStart(i) \/ Start(i) PROVE PrevInv'
  BY <1>2 DEF WarmStart, Start
<1>3. CASE Evaluate \/ CallbackStops \/ ScalingFails \/ Refine \/ PostProcess
  BY <1>3 DEF Evaluate, CallbackStops, ScalingFails, Refine, PostProcess, prevSnap
<1>4. CASE YoloTop
  BY <1>4 DEF YoloTop
<1>5. ASSUME NEW t \in BOOLEAN, CheckTermination(t) PROVE PrevInv'
  BY <1>5 DEF CheckTermination, prevSnap
<1>6. CASE RejectStep
  BY <1>6 DEF RejectStep, CanSwitch, prevSnap
<1>7. CASE KktFails \/ ShortStep
  BY <1>7 DEF KktFails, ShortStep, AbandonStep, CanSwitch, NextIter, prevSnap, TypeOK
<1>8. ASSUME NEW i \in Iterates, TakeStep(i) PROVE PrevInv'
  BY <1>8 DEF TakeStep, CurrentInv, Running
<1>9. CASE UNCHANGED vars
  BY <1>9 DEF vars, prevSnap
<1> QED BY <1>1, <1>2, <1>3, <1>4, <1>5, <1>6, <1>7, <1>8, <1>9 DEF Next, Loop

\* A rejected step: the tests ran on a fresh snapshot, below kappa/tau = 1.
LEMMA RejectFacts ==
  ASSUME IInv, RejectStep
  PROVE  ~conf.yolo /\ PrevFresh /\ Lt(ktOf.it.kt, 0) /\ zone = zone'
<1>1. iter > 1 /\ Lt(ktOf.it.kt, 0)
  <2>1. ktOf \in Point /\ FALSE \in BOOLEAN
    BY DEF IInv, TypeOK
  <2>2. TerminationStatus(FALSE) = "InsufficientProgress"
    BY DEF RejectStep
  <2> QED BY <2>1, <2>2, TerminationIsJustified DEF Limits
<1>2. ~conf.yolo
  BY DEF IInv, StatusInv, RejectStep
<1>3. PrevFresh
  BY <1>1, <1>2 DEF IInv, PrevInv, InLoop, RejectStep
<1> QED BY <1>1, <1>2, <1>3 DEF RejectStep

\* Where the numbers come from.
LEMMA CurrentStep == ASSUME IInv, [Next]_vars PROVE CurrentInv'
<1> USE DEF IInv, CurrentInv, Running
<1>1. ASSUME NEW yolo \in BOOLEAN, NEW smoothing \in BOOLEAN, UpdateSettings(yolo, smoothing)
      PROVE  CurrentInv'
  BY <1>1 DEF UpdateSettings
<1>2. ASSUME NEW i \in Starts, WarmStart(i) \/ Start(i) PROVE CurrentInv'
  <2>1. run + 1 > 0
    BY BoundAssumption DEF TypeOK
  <2> QED BY <1>2, <2>1 DEF WarmStart, Start
<1>3. CASE Evaluate
  BY <1>3 DEF Evaluate
<1>4. CASE YoloTop
  BY <1>4 DEF YoloTop
<1>5. CASE CallbackStops \/ ScalingFails
  BY <1>5 DEF CallbackStops, ScalingFails
<1>6. ASSUME NEW t \in BOOLEAN, CheckTermination(t) PROVE CurrentInv'
  BY <1>6 DEF CheckTermination
<1>7. CASE RejectStep
  BY <1>7, RejectFacts DEF RejectStep, PrevFresh
<1>8. CASE KktFails \/ ShortStep
  BY <1>8 DEF KktFails, ShortStep, AbandonStep
<1>9. ASSUME NEW i \in Iterates, TakeStep(i) PROVE CurrentInv'
  BY <1>9 DEF TakeStep
<1>10. CASE Refine
  <2>1. variables'.run = run
    BY <1>10 DEF Refine, YoloInv
  <2>2. ~conf.yolo => variables' = variables
    BY <1>10 DEF Refine
  <2> QED BY <1>10, <2>1, <2>2 DEF Refine, Usable
<1>11. CASE PostProcess
  BY <1>11 DEF PostProcess
<1>12. CASE UNCHANGED vars
  BY <1>12 DEF vars, infoVars
<1> QED
  BY <1>1, <1>2, <1>3, <1>4, <1>5, <1>6, <1>7, <1>8, <1>9, <1>10, <1>11, <1>12
  DEF Next, Loop

\* What the status stands for.
LEMMA StatusStep == ASSUME IInv, [Next]_vars PROVE StatusInv'
<1> USE DEF IInv, StatusInv, InLoop
<1>1. ASSUME NEW yolo \in BOOLEAN, NEW smoothing \in BOOLEAN, UpdateSettings(yolo, smoothing)
      PROVE  StatusInv'
  BY <1>1 DEF UpdateSettings
<1>2. ASSUME NEW i \in Starts, WarmStart(i) \/ Start(i) PROVE StatusInv'
  BY <1>2 DEF WarmStart, Start
<1>3. CASE Evaluate \/ CallbackStops \/ ScalingFails \/ Refine \/ PostProcess
  BY <1>3 DEF Evaluate, CallbackStops, ScalingFails, Refine, PostProcess, Errored
<1>4. CASE YoloTop
  BY <1>4 DEF YoloTop
<1>5. ASSUME NEW t \in BOOLEAN, CheckTermination(t) PROVE StatusInv'
  <2>1. ~conf.yolo /\ metricsOf = variables /\ residualsOf = variables
    BY <1>5 DEF CheckTermination, CurrentInv
  <2>2. ktOf \in Point /\ variables.it.pinf \in 0..2 /\ variables.it.dinf \in 0..2
    BY IterateAssumption DEF TypeOK, Point, IterateType, NaNIterate
  <2>3. \/ status' = "Unsolved" \/ status' \in Limits
        \/ status' = "Solved" /\ IsSolved(variables.it, Full)
        \/ status' = "AlmostSolved" /\ IsSolved(variables.it, Almost)
        \/ status' = "PrimalInfeasible" /\ variables.it.pinf >= 2
        \/ status' = "DualInfeasible" /\ variables.it.dinf >= 2
    BY <1>5, <2>1, <2>2, TerminationIsJustified DEF CheckTermination
  <2>4. /\ pc' = IF status' = "Unsolved" THEN "step" ELSE "exit"
        /\ UNCHANGED <<conf, variables>>
    BY <1>5 DEF CheckTermination
  <2> QED BY <2>1, <2>2, <2>3, <2>4 DEF Limits
<1>6. CASE RejectStep
  BY <1>6 DEF RejectStep, Errored
<1>7. CASE KktFails \/ ShortStep
  BY <1>7 DEF KktFails, ShortStep, AbandonStep, Errored
<1>8. ASSUME NEW i \in Iterates, TakeStep(i) PROVE StatusInv'
  BY <1>8 DEF TakeStep, infoVars
<1>9. CASE UNCHANGED vars
  BY <1>9 DEF vars, infoVars
<1> QED BY <1>1, <1>2, <1>3, <1>4, <1>5, <1>6, <1>7, <1>8, <1>9 DEF Next, Loop

\* The best-iterate snapshot: SaveBest replaces it exactly when the iterate
\* just evaluated is in the zone and closer than the saved one.
LEMMA BestStep == ASSUME IInv, [Next]_vars PROVE BestInv'
<1> USE DEF IInv, BestInv, Running
<1>1. ASSUME NEW yolo \in BOOLEAN, NEW smoothing \in BOOLEAN, UpdateSettings(yolo, smoothing)
      PROVE  BestInv'
  BY <1>1 DEF UpdateSettings
<1>2. ASSUME NEW i \in Starts, WarmStart(i) \/ Start(i) PROVE BestInv'
  BY <1>2 DEF WarmStart, Start
<1>3. CASE Evaluate
  <2> DEFINE v == variables
  <2>0. /\ v \in Point /\ bestMetricsOf \in Point /\ v.run = run /\ ~conf.yolo
        /\ zone \subseteq Point
    BY <1>3 DEF Evaluate, TypeOK, CurrentInv
  <2>1. CASE ~InZone(v.it, v.it.kt)
    <3>1. UNCHANGED bestSnap /\ zone' = zone
      BY <1>3, <2>1 DEF Evaluate, SaveBest
    <3> QED BY <1>3, <3>1 DEF Evaluate, bestSnap
  <2>2. CASE InZone(v.it, v.it.kt)
    <3>1. zone' = zone \cup {v} /\ UNCHANGED <<conf, run>>
      BY <1>3, <2>2 DEF Evaluate
    <3>2. v.it.resP \in Int /\ v.it.resD \in Int /\ v.it.gapA \in Int
      BY <2>0, <2>2, ZoneHasNumbers DEF Point
    <3>3. Score(v.it) \in Int
      BY <3>2, ScoreIsLargest
    <3>4. ASSUME NEW p \in zone
          PROVE  p.it.resP \in Int /\ p.it.resD \in Int /\ p.it.gapA \in Int /\ Score(p.it) \in Int
      <4>1. p.it \in Iterates \cup {NaNIterate} /\ InZone(p.it, p.it.kt)
        BY <1>3, <2>0, <3>4 DEF Point, Evaluate
      <4>2. p.it.resP \in Int /\ p.it.resD \in Int /\ p.it.gapA \in Int
        BY <4>1, ZoneHasNumbers
      <4> QED BY <4>2, ScoreIsLargest
    <3>5. CASE ~bestSaved \/ Closer(v.it, bestMetricsOf.it)
      <4>1. bestSaved' = TRUE /\ bestMetricsOf' = v /\ bestVars' = v
        BY <1>3, <2>2, <3>5 DEF Evaluate, SaveBest
      <4>2. \A p \in zone : Score(v.it) <= Score(p.it)
        <5>1. CASE ~bestSaved
          BY <1>3, <5>1 DEF Evaluate
        <5>2. CASE bestSaved
          <6>1. bestVars \in zone /\ bestMetricsOf = bestVars
            BY <1>3, <5>2 DEF Evaluate
          <6>2. Score(v.it) < Score(bestVars.it)
            BY <3>2, <3>4, <3>5, <5>2, <6>1, CloserIsSmallerScore
          <6>3. \A p \in zone : Score(bestVars.it) <= Score(p.it)
            BY <1>3 DEF Evaluate
          <6> QED BY <3>3, <3>4, <6>1, <6>2, <6>3
        <5> QED BY <5>1, <5>2
      <4> QED BY <1>3, <2>0, <2>2, <3>1, <3>3, <4>1, <4>2 DEF Evaluate
    <3>6. CASE bestSaved /\ ~Closer(v.it, bestMetricsOf.it)
      <4>1. UNCHANGED <<bestSaved, bestVars, bestMetricsOf>>
        BY <1>3, <3>6 DEF Evaluate, SaveBest, bestSnap
      <4>2. bestVars \in zone /\ bestMetricsOf = bestVars
        BY <1>3, <3>6 DEF Evaluate
      <4>3. Score(bestVars.it) <= Score(v.it)
        BY <3>2, <3>3, <3>4, <3>6, <4>2, CloserIsSmallerScore
      <4> QED BY <1>3, <2>0, <2>2, <3>1, <3>6, <4>1, <4>2, <4>3 DEF Evaluate
    <3> QED BY <3>5, <3>6
  <2> QED BY <2>1, <2>2
<1>4. CASE YoloTop \/ CallbackStops \/ ScalingFails
  BY <1>4 DEF YoloTop, CallbackStops, ScalingFails, bestSnap
<1>5. ASSUME NEW t \in BOOLEAN, CheckTermination(t) PROVE BestInv'
  BY <1>5 DEF CheckTermination, bestSnap
<1>6. CASE RejectStep
  BY <1>6 DEF RejectStep, bestSnap
<1>7. CASE KktFails \/ ShortStep
  BY <1>7 DEF KktFails, ShortStep, AbandonStep, bestSnap
<1>8. ASSUME NEW i \in Iterates, TakeStep(i) PROVE BestInv'
  BY <1>8 DEF TakeStep, bestSnap
<1>9. CASE Refine
  BY <1>9 DEF Refine, bestSnap
<1>10. CASE PostProcess
  BY <1>10 DEF PostProcess
<1>11. CASE UNCHANGED vars
  BY <1>11 DEF vars, bestSnap
<1> QED
  BY <1>1, <1>2, <1>3, <1>4, <1>5, <1>6, <1>7, <1>8, <1>9, <1>10, <1>11 DEF Next, Loop

\* The YOLO snapshot.
LEMMA YoloStep == ASSUME IInv, [Next]_vars PROVE YoloInv'
<1> USE DEF IInv, YoloInv, Running, NumberOrStart
<1>1. ASSUME NEW yolo \in BOOLEAN, NEW smoothing \in BOOLEAN, UpdateSettings(yolo, smoothing)
      PROVE  YoloInv'
  BY <1>1 DEF UpdateSettings
<1>2. ASSUME NEW i \in Starts, WarmStart(i) PROVE YoloInv'
  BY <1>2 DEF WarmStart
<1>3. ASSUME NEW i \in Starts, Start(i) PROVE YoloInv'
  <2>1. variables'.run = run' /\ variables'.step = 0
    BY <1>3 DEF Start, CurrentInv
  <2>2. conf'.yolo => prevVars' = variables'
    BY <1>3 DEF Start, Seed
  <2>3. pc' = "top"
    BY <1>3 DEF Start
  <2> QED BY <2>1, <2>2, <2>3 DEF HasNaN
<1>4. CASE Evaluate \/ YoloTop \/ CallbackStops \/ ScalingFails \/ KktFails \/ ShortStep
  BY <1>4 DEF Evaluate, YoloTop, CallbackStops, ScalingFails, KktFails, ShortStep,
              AbandonStep, prevSnap, HasNaN
<1>5. ASSUME NEW t \in BOOLEAN, CheckTermination(t) PROVE YoloInv'
  BY <1>5 DEF CheckTermination, prevSnap, HasNaN
<1>6. CASE RejectStep
  BY <1>6, RejectFacts DEF RejectStep
<1>7. ASSUME NEW i \in Iterates, TakeStep(i) PROVE YoloInv'
  BY <1>7 DEF TakeStep, HasNaN
<1>8. CASE Refine
  BY <1>8 DEF Refine, prevSnap, HasNaN
<1>9. CASE PostProcess
  BY <1>9 DEF PostProcess
<1>10. CASE UNCHANGED vars
  BY <1>10 DEF vars, prevSnap, HasNaN
<1> QED
  BY <1>1, <1>2, <1>3, <1>4, <1>5, <1>6, <1>7, <1>8, <1>9, <1>10 DEF Next, Loop

\* The pass counter: check_termination stops the solve at the limit, before
\* the only actions that count.
LEMMA CountStep == ASSUME IInv, [Next]_vars PROVE CountInv'
<1> USE BoundAssumption DEF IInv, CountInv, Running
<1>0. iter \in Nat
  BY DEF TypeOK
<1>1. ASSUME NEW yolo \in BOOLEAN, NEW smoothing \in BOOLEAN, UpdateSettings(yolo, smoothing)
      PROVE  CountInv'
  BY <1>1 DEF UpdateSettings
<1>2. ASSUME NEW i \in Starts, WarmStart(i) \/ Start(i) PROVE CountInv'
  BY <1>2 DEF WarmStart, Start
<1>3. CASE Evaluate
  BY <1>3 DEF Evaluate
<1>4. CASE YoloTop
  BY <1>0, <1>4 DEF YoloTop
<1>5. CASE CallbackStops \/ ScalingFails
  BY <1>5 DEF CallbackStops, ScalingFails
<1>6. ASSUME NEW t \in BOOLEAN, CheckTermination(t) PROVE CountInv'
  <2>1. ~conf.yolo /\ pc = "check" /\ UNCHANGED <<conf, iter, iterations>>
    BY <1>6 DEF CheckTermination, StatusInv
  <2>2. pc' = "step" => TerminationStatus(t) = "Unsolved"
    BY <1>6 DEF CheckTermination
  <2>3. TerminationStatus(t) = "Unsolved" => ~LimitReached
    BY Zenon DEF TerminationStatus
  <2> QED BY <2>1, <2>2, <2>3 DEF LimitReached
<1>7. CASE RejectStep
  BY <1>7 DEF RejectStep
<1>8. CASE KktFails \/ ShortStep
  BY <1>0, <1>8 DEF KktFails, ShortStep, AbandonStep, NextIter
<1>9. ASSUME NEW i \in Iterates, TakeStep(i) PROVE CountInv'
  BY <1>0, <1>9 DEF TakeStep, NextIter
<1>10. CASE Refine
  BY <1>10 DEF Refine
<1>11. CASE PostProcess
  BY <1>11 DEF PostProcess
<1>12. CASE UNCHANGED vars
  BY <1>12 DEF vars, infoVars
<1> QED
  BY <1>1, <1>2, <1>3, <1>4, <1>5, <1>6, <1>7, <1>8, <1>9, <1>10, <1>11, <1>12
  DEF Next, Loop

-----------------------------------------------------------------------------
(* What solve() returns: only PostProcess establishes it, and only Start,   *)
(* UpdateSettings and WarmStart are possible until the next return.         *)

Promise == StatusIsHonest /\ NoSolutionLost /\ YoloReturnsNumbers

LEMMA OnlyPostProcessReturns ==
  ASSUME IInv, [Next]_vars
  PROVE  PostProcess \/ pc' # "idle" \/ UNCHANGED <<pc, run, solution, zone>>
<1>1. ASSUME NEW yolo \in BOOLEAN, NEW smoothing \in BOOLEAN, UpdateSettings(yolo, smoothing)
      PROVE  UNCHANGED <<pc, run, solution, zone>>
  BY <1>1 DEF UpdateSettings
<1>2. ASSUME NEW i \in Starts, WarmStart(i) PROVE UNCHANGED <<pc, run, solution, zone>>
  BY <1>2 DEF WarmStart
<1>3. ASSUME NEW i \in Starts, Start(i) PROVE pc' # "idle"
  BY <1>3 DEF Start
<1>4. CASE Evaluate \/ YoloTop \/ CallbackStops \/ RejectStep \/ ScalingFails \/ KktFails
             \/ ShortStep \/ Refine
  BY <1>4 DEF Evaluate, YoloTop, CallbackStops, RejectStep, ScalingFails, KktFails,
              ShortStep, AbandonStep, Refine
<1>5. ASSUME NEW t \in BOOLEAN, CheckTermination(t) PROVE pc' # "idle"
  BY <1>5 DEF CheckTermination
<1>6. ASSUME NEW i \in Iterates, TakeStep(i) PROVE pc' # "idle"
  BY <1>6 DEF TakeStep
<1>7. CASE UNCHANGED vars
  BY <1>7 DEF vars
<1> QED BY <1>1, <1>2, <1>3, <1>4, <1>5, <1>6, <1>7 DEF Next, Loop

\* A restored iterate is in the reduced zone.  Without a restore, the reduced
\* tests run on an iterate whose metrics are its own; only its residuals and
\* kappa/tau may belong to a rejected step, and kappa/tau below 1 keeps the
\* infeasibility tests from reading them.
LEMMA PostProcessKeepsPromise == ASSUME IInv, PostProcess PROVE Promise'
<1> USE DEF IInv
<1>1. /\ pc = "post" /\ variables.run = run /\ run' = run /\ zone' = zone
      /\ solution' = [status |-> status', of |-> variables', cost |-> metricsOf',
                      iterations |-> iterations', yolo |-> conf.yolo]
  BY DEF PostProcess, CurrentInv, Running
<1>2. /\ solution'.status = status' /\ solution'.of = variables'
      /\ solution'.cost = metricsOf' /\ solution'.yolo = conf.yolo
  BY <1>1
<1>3. /\ bestSaved <=> zone # {}
      /\ bestSaved => bestVars = bestMetricsOf /\ bestVars \in zone
      /\ \A p \in zone : p.run = run /\ InZone(p.it, p.it.kt)
      /\ conf.yolo => zone = {}
  BY <1>1 DEF BestInv, Running
<1>4. CASE conf.yolo
  <2>1. ~RestoresBest /\ variables' = variables /\ (HasNaN(variables) => variables.step = 0)
    BY <1>1, <1>4 DEF PostProcess, RestoresBest, YoloInv, NumberOrStart, Running
  <2> QED
    BY <1>1, <1>2, <1>3, <1>4, <2>1
    DEF Promise, StatusIsHonest, NoSolutionLost, YoloReturnsNumbers, HasNaN
<1>5. CASE ~conf.yolo /\ RestoresBest
  <2>1. /\ status' = "AlmostSolved" /\ variables' = bestVars /\ metricsOf' = bestVars
        /\ bestVars.run = run /\ IsSolved(bestVars.it, Almost)
    BY <1>3, <1>5 DEF PostProcess, RestoresBest, InZone
  <2> QED
    BY <1>1, <1>2, <1>5, <2>1
    DEF Promise, StatusIsHonest, NoSolutionLost, YoloReturnsNumbers, IsSolved, Lt, Almost
<1>6. CASE ~conf.yolo /\ ~RestoresBest
  <2> DEFINE v == variables
  <2>1. variables' = v /\ metricsOf' = v /\ metricsOf = v
    BY <1>1, <1>6 DEF PostProcess, CurrentInv
  <2>2. \/ ktOf = v /\ residualsOf = v
        \/ Lt(ktOf.it.kt, 0)
    BY <1>1, <1>6 DEF CurrentInv
  <2>3. /\ status \in {"Solved", "AlmostSolved", "PrimalInfeasible", "DualInfeasible",
                       "CallbackTerminated"} \cup Errored \cup Limits
        /\ status = "Solved" => IsSolved(v.it, Full)
        /\ status = "AlmostSolved" => IsSolved(v.it, Almost)
        /\ status = "PrimalInfeasible" => v.it.pinf = 2
        /\ status = "DualInfeasible" => v.it.dinf = 2
    BY <1>1, <1>6 DEF StatusInv
  <2>4. CASE status \in Errored \cup Limits
    <3>1. zone = {}
      BY <1>3, <1>6, <2>4 DEF RestoresBest
    <3>2. status' = CheckConvergence(Almost, v.it, ktOf.it.kt, residualsOf.it, status)
      BY <1>6, <2>1, <2>4 DEF PostProcess
    <3>3. \/ status' = status
          \/ status' = "AlmostSolved" /\ IsSolved(v.it, Almost)
          \/ /\ Lt(AlmostInfeasKt, ktOf.it.kt)
             /\ \/ status' = "AlmostPrimalInfeasible" /\ residualsOf.it.pinf >= 1
                \/ status' = "AlmostDualInfeasible" /\ residualsOf.it.dinf >= 1
      BY <3>2, ConvergenceStatus DEF Almost
    <3>4. Lt(AlmostInfeasKt, ktOf.it.kt) => ~Lt(ktOf.it.kt, 0)
      <4>1. ktOf.it.kt \in Magnitude
        BY IterateAssumption DEF TypeOK, Point, IterateType, NaNIterate, Magnitude
      <4> QED BY <4>1 DEF Lt, Magnitude
    <3>5. \/ status' = status
          \/ status' = "AlmostSolved" /\ IsSolved(v.it, Almost)
          \/ status' = "AlmostPrimalInfeasible" /\ v.it.pinf >= 1
          \/ status' = "AlmostDualInfeasible" /\ v.it.dinf >= 1
      BY <2>2, <3>3, <3>4
    <3>6. StatusIsHonest'
      BY <1>1, <1>2, <2>1, <2>4, <3>5
      DEF StatusIsHonest, IsSolved, Lt, Almost, Full, Errored, Limits
    <3> QED
      BY <1>1, <1>2, <1>6, <3>1, <3>6 DEF Promise, NoSolutionLost, YoloReturnsNumbers
  <2>5. CASE status \notin Errored \cup Limits
    <3>1. status' = status
      BY <1>6, <2>5 DEF PostProcess
    <3>2. StatusIsHonest'
      BY <1>1, <1>2, <2>1, <2>3, <2>5, <3>1
      DEF StatusIsHonest, IsSolved, Lt, Almost, Full
    <3> QED
      BY <1>1, <1>2, <1>6, <2>3, <2>5, <3>1, <3>2
      DEF Promise, NoSolutionLost, YoloReturnsNumbers
  <2> QED BY <2>4, <2>5
<1> QED BY <1>4, <1>5, <1>6

\* Every step keeps what a returned solve promises: only PostProcess and the
\* beginning of the next call touch it.
LEMMA PromiseStep == ASSUME IInv, [Next]_vars PROVE Promise'
<1>1. CASE pc' # "idle"
  BY <1>1 DEF Promise, StatusIsHonest, NoSolutionLost, YoloReturnsNumbers, Returned
<1>2. CASE UNCHANGED <<pc, run, solution, zone>>
  <2>1. StatusIsHonest'
    BY <1>2 DEF IInv, StatusIsHonest, Returned, IsSolved, Lt, Full, Almost
  <2>2. NoSolutionLost'
    BY <1>2 DEF IInv, NoSolutionLost, Returned
  <2>3. YoloReturnsNumbers'
    BY <1>2 DEF IInv, YoloReturnsNumbers, Returned, HasNaN
  <2> QED BY <2>1, <2>2, <2>3 DEF Promise
<1> QED BY <1>1, <1>2, OnlyPostProcessReturns, PostProcessKeepsPromise

-----------------------------------------------------------------------------
(* The theorems.                                                            *)

\* A fresh solver object satisfies the invariant.
LEMMA InitInv == Init => IInv
<1> SUFFICES ASSUME Init PROVE IInv
  OBVIOUS
<1>1. TypeOK
  <2>1. NoPoint \in Point
    BY DEF NoPoint, Point
  <2>2. "Unsolved" \in Status
    BY DEF Status
  <2>3. solution \in [status : Status, of : Point, cost : Point,
                      iterations : Nat, yolo : BOOLEAN]
    BY <2>1, <2>2 DEF Init
  <2>4. {variables, residualsOf, metricsOf, ktOf, prevMetricsOf, prevVars,
         bestMetricsOf, bestVars, smoothingOf} \subseteq Point /\ zone \subseteq Point
    BY <2>1 DEF Init
  <2>5. run \in 0..MaxRuns
    BY BoundAssumption DEF Init
  <2> QED BY <2>2, <2>3, <2>4, <2>5 DEF Init, TypeOK
<1> QED
  BY <1>1 DEF Init, IInv, PrevInv, InLoop, CurrentInv, Running, StatusInv, BestInv,
              YoloInv, CountInv, StatusIsHonest, NoSolutionLost, YoloReturnsNumbers,
              Returned

\* IInv is inductive: it holds of every reachable state of every instance.
THEOREM Inductive == Spec => []IInv
<1>1. IInv /\ [Next]_vars => IInv'
  <2> SUFFICES ASSUME IInv, [Next]_vars PROVE IInv'
    OBVIOUS
  <2>1. TypeOK
    BY DEF IInv
  <2> QED
    BY <2>1, TypeInvariant, PrevStep, CurrentStep, StatusStep, BestStep, YoloStep,
       CountStep, PromiseStep
    DEF IInv, Promise
<1> QED BY InitInv, <1>1, PTL DEF Spec

\* The variables keep their types; the numbers DefaultInfo stores always come
\* from an iterate the loop had.
THEOREM TypeCorrect == Spec => []TypeOK
<1>1. IInv => TypeOK
  BY DEF IInv
<1> QED BY <1>1, Inductive, PTL

\* The progress tests of check_termination and the iterate they go back to
\* never reach into an earlier solve, although info.reset keeps it.
THEOREM ProgressReadsThisRun == Spec => []ProgressTestsReadThisRun
<1>1. IInv => ProgressTestsReadThisRun
  BY DEF IInv, ProgressTestsReadThisRun, PrevInv, PrevFresh, InLoop, StatusInv
<1> QED BY <1>1, Inductive, PTL

\* The status of a regular solve is justified by the iterate it returns.
THEOREM HonestStatus == Spec => []StatusIsHonest
<1>1. IInv => StatusIsHonest
  BY DEF IInv
<1> QED BY <1>1, Inductive, PTL

\* A reduced-accuracy solution evaluated during a solve is never thrown away.
THEOREM SolutionKept == Spec => []NoSolutionLost
<1>1. IInv => NoSolutionLost
  BY DEF IInv
<1> QED BY <1>1, Inductive, PTL

\* What try_restore_best_iterate would restore is the closest iterate seen.
THEOREM BestKept == Spec => []BestIsClosest
<1>1. IInv => BestIsClosest
  BY DEF IInv, BestInv, Running, BestIsClosest
<1> QED BY <1>1, Inductive, PTL

\* A YOLO solve returns numbers.
THEOREM YoloIsNumeric == Spec => []YoloReturnsNumbers
<1>1. IInv => YoloReturnsNumbers
  BY DEF IInv
<1> QED BY <1>1, Inductive, PTL

\* The pass counter stops at its limit.
THEOREM CounterBounded == Spec => []IterationsBounded
<1>1. IInv => IterationsBounded
  BY DEF IInv, CountInv, Running, IterationsBounded
<1> QED BY <1>1, Inductive, PTL

-----------------------------------------------------------------------------
(* The loop implements the contract of solve().                             *)

\* A new solver object is a new party to the contract.
LEMMA ContractInit == Init => Contract!Init
BY DEF Init, Contract!Init, NoPoint, Claim

\* The end of a solve is an answer the contract allows: what StatusIsHonest and
\* NoSolutionLost promise for regular solves, and no claim at all from a YOLO
\* solve.
LEMMA AnswerIsAllowed == ASSUME IInv, PostProcess PROVE Contract!Finish
<1>1. /\ pc = "post" /\ pc' = "idle" /\ run' = run /\ zone' = zone
      /\ solution'.status = status' /\ solution'.of = variables' /\ solution'.yolo = conf.yolo
  BY DEF PostProcess
<1>2. StatusIsHonest' /\ NoSolutionLost'
  BY PostProcessKeepsPromise DEF Promise
<1>3. run > 0
  BY <1>1 DEF IInv, CurrentInv, Running
<1>4. variables'.run = run /\ (conf.yolo => status' = "MaxIterations" /\ zone = {})
  <2>1. CASE RestoresBest
    BY <1>1, <2>1 DEF PostProcess, IInv, BestInv, Running, RestoresBest
  <2>2. CASE ~RestoresBest
    BY <1>1, <2>2 DEF PostProcess, IInv, CurrentInv, StatusInv, BestInv, Running
  <2> QED BY <2>1, <2>2
<1>5. Returned'
  BY <1>1, <1>3 DEF Returned
<1> DEFINE m == solution'.of.it
           a == [call |-> solution'.of.run, claim |-> Claim(solution'.status),
                 quality |-> Quality(m), primal |-> m.pinf, dual |-> m.dinf]
<1>6. CASE conf.yolo
  <2>1. a.claim = "gave up"
    BY <1>1, <1>4, <1>6 DEF Claim
  <2> QED
    BY <1>1, <1>4, <1>6, <2>1 DEF Contract!Finish, Contract!Justified
<1>7. CASE ~conf.yolo
  <2>1. /\ status' # "Unsolved"
        /\ status' = "Solved" => IsSolved(m, Full)
        /\ status' = "AlmostSolved" => IsSolved(m, Almost)
        /\ status' = "PrimalInfeasible" => m.pinf = 2
        /\ status' = "DualInfeasible" => m.dinf = 2
        /\ status' = "AlmostPrimalInfeasible" => m.pinf >= 1
        /\ status' = "AlmostDualInfeasible" => m.dinf >= 1
    BY <1>1, <1>2, <1>5, <1>7 DEF StatusIsHonest
  <2>2. /\ a.claim = "none" => status' = "Unsolved"
        /\ a.claim = "solved" => status' = "Solved"
        /\ a.claim = "acceptable" => status' = "AlmostSolved"
        /\ a.claim = "primal infeasible" => status' = "PrimalInfeasible"
        /\ a.claim = "dual infeasible" => status' = "DualInfeasible"
        /\ a.claim = "nearly primal infeasible" => status' = "AlmostPrimalInfeasible"
        /\ a.claim = "nearly dual infeasible" => status' = "AlmostDualInfeasible"
        /\ status' = "CallbackTerminated" => a.claim = "interrupted"
        /\ status' \in {"Solved", "AlmostSolved", "PrimalInfeasible", "DualInfeasible"} =>
             a.claim \notin {"gave up", "nearly primal infeasible", "nearly dual infeasible"}
    BY <1>1 DEF Claim
  <2>3. /\ IsSolved(m, Full) => a.quality = 2
        /\ IsSolved(m, Almost) => a.quality = 1 \/ a.quality = 2
    BY DEF Quality
  <2>4. Contract!Justified(a) /\ a.claim # "none"
    <3>1. a.primal = m.pinf /\ a.dual = m.dinf
      OBVIOUS
    <3>2. a.quality = 1 \/ a.quality = 2 => a.quality >= 1
      BY SMT
    <3> HIDE DEF a, m
    <3>3. a.claim # "none"
      BY <2>1, <2>2
    <3>4. a.claim = "solved" => a.quality = 2
      BY <2>1, <2>2, <2>3
    <3>5. a.claim = "acceptable" => a.quality >= 1
      BY <2>1, <2>2, <2>3, <3>2
    <3>6. a.claim = "primal infeasible" => a.primal = 2
      BY <2>1, <2>2, <3>1
    <3>7. a.claim = "dual infeasible" => a.dual = 2
      BY <2>1, <2>2, <3>1
    <3>8. a.claim = "nearly primal infeasible" => a.primal >= 1
      BY <2>1, <2>2, <3>1
    <3>9. a.claim = "nearly dual infeasible" => a.dual >= 1
      BY <2>1, <2>2, <3>1
    <3> QED BY <3>3, <3>4, <3>5, <3>6, <3>7, <3>8, <3>9 DEF Contract!Justified
  <2>5. zone # {} =>
          a.claim \notin {"gave up", "nearly primal infeasible", "nearly dual infeasible"}
    BY <1>1, <1>2, <1>5, <2>2 DEF NoSolutionLost
  <2> QED
    BY <1>1, <1>4, <2>4, <2>5 DEF Contract!Finish
<1> QED BY <1>6, <1>7

\* Every step of the loop is one of the contract or changes nothing a caller
\* sees; a pass that evaluates an acceptable iterate is Reach.
LEMMA ContractStep ==
  ASSUME IInv, [Next]_vars PROVE [Contract!Next]_(Contract!contract)
<1>1. ASSUME NEW i \in Starts, Start(i) PROVE Contract!Begin
  BY <1>1 DEF Start, Contract!Begin
<1>2. CASE Evaluate
  <2>1. /\ pc = "top" /\ pc' = "check" /\ run' = run /\ solution' = solution
        /\ zone' = IF InZone(variables.it, variables.it.kt) THEN zone \cup {variables} ELSE zone
    BY <1>2 DEF Evaluate
  <2>2. CASE InZone(variables.it, variables.it.kt)
    BY <2>1, <2>2 DEF Contract!Reach, Contract!Next
  <2>3. CASE ~InZone(variables.it, variables.it.kt)
    BY <2>1, <2>3 DEF Contract!contract
  <2> QED BY <2>2, <2>3
<1>3. CASE PostProcess
  BY <1>3, AnswerIsAllowed DEF Contract!Next
<1>4. ASSUME /\ (pc = "idle") <=> (pc' = "idle")
             /\ UNCHANGED <<run, solution, zone>>
      PROVE  UNCHANGED Contract!contract
  BY <1>4 DEF Contract!contract
<1>5. ASSUME NEW yolo \in BOOLEAN, NEW smoothing \in BOOLEAN, UpdateSettings(yolo, smoothing)
      PROVE  UNCHANGED Contract!contract
  BY <1>4, <1>5 DEF UpdateSettings
<1>6. ASSUME NEW i \in Starts, WarmStart(i) PROVE UNCHANGED Contract!contract
  BY <1>4, <1>6 DEF WarmStart
<1>7. CASE YoloTop \/ CallbackStops \/ RejectStep \/ ScalingFails \/ KktFails
             \/ ShortStep \/ Refine
  <2>1. /\ pc # "idle" /\ pc' # "idle"
        /\ UNCHANGED <<run, solution, zone>>
    BY <1>7 DEF YoloTop, CallbackStops, RejectStep, ScalingFails, KktFails, ShortStep,
                AbandonStep, Refine
  <2> QED BY <1>4, <2>1
<1>8. ASSUME NEW t \in BOOLEAN, CheckTermination(t) PROVE UNCHANGED Contract!contract
  <2>1. pc # "idle" /\ pc' # "idle" /\ UNCHANGED <<run, solution, zone>>
    BY <1>8 DEF CheckTermination
  <2> QED BY <1>4, <2>1
<1>9. ASSUME NEW i \in Iterates, TakeStep(i) PROVE UNCHANGED Contract!contract
  <2>1. pc # "idle" /\ pc' # "idle" /\ UNCHANGED <<run, solution, zone>>
    BY <1>9 DEF TakeStep
  <2> QED BY <1>4, <2>1
<1>10. CASE UNCHANGED vars
  BY <1>4, <1>10 DEF vars
<1> QED
  BY <1>1, <1>2, <1>3, <1>5, <1>6, <1>7, <1>8, <1>9, <1>10 DEF Next, Loop, Contract!Next

\* For every set of iterates, tolerances and bounds, the interior-point loop
\* keeps the contract of solve(): over any sequence of calls, each ends with an
\* answer of its own that claims no more than its point shows.
THEOREM KeepsContract == Spec => FulfilsContract
<1>1. IInv /\ [Next]_vars => [Contract!Next]_(Contract!contract)
  BY ContractStep
<1> QED BY ContractInit, <1>1, Inductive, PTL DEF Spec, FulfilsContract, Contract!Spec

=============================================================================

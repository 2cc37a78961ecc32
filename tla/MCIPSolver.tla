----------------------------- MODULE MCIPSolver -----------------------------
(***************************************************************************)
(* Small instances of IPSolver.  Tolerances are the defaults of            *)
(* settings.rs rounded to powers of ten: 1e-8 tight, 1e-4 reduced,         *)
(* kappa/tau thresholds 1e-14, 1e-4, 1e9 and 1e7.                          *)
(***************************************************************************)
EXTENDS IPSolver

Metrics(gap, res, kt) ==
  [gapA |-> gap, gapR |-> gap, resP |-> res, resD |-> res, kt |-> kt,
   pinf |-> 0, dinf |-> 0]

Far       == Metrics(1, 1, 0)            \* a starting point
NearA     == Metrics(-6, -6, -5)         \* in the reduced zone
NearB     == Metrics(-7, -5, -5)         \* in the zone, gap better, score worse
Optimal   == Metrics(-9, -9, -15)        \* Solved
Diverged  == Metrics(-1, 0, -3)          \* a bad step: gap and residuals blow up
Suspect   == [Metrics(3, 3, 8) EXCEPT !.pinf = 1, !.dinf = 1]

Few == {Far, NearA, NearB, Optimal, Diverged, Suspect, NaNIterate}
Minus4 == -4
Minus8 == -8
Minus13 == -13
\* A start may be far, in the reduced zone, or NaN.
Starting == {Far, NearA, NaNIterate}

=============================================================================

----------------------------- MODULE SolveContract -----------------------------
(***************************************************************************)
(* What a caller of Solver::solve() may rely on, without the iterations:   *)
(* each call ends with one answer, computed in that call; the answer       *)
(* claims no more than its point shows, and a call that came across an     *)
(* acceptable point does not answer that it gave up.                       *)
(***************************************************************************)
EXTENDS Naturals

VARIABLES
  busy,     \* solve() is running
  calls,    \* number of calls begun
  seen,     \* an acceptable point was reached in the current or last call
  answer    \* of the last call: call is the one its point was computed in

contract == <<busy, calls, seen, answer>>

\* An answer is [call, claim, quality, primal, dual]; the last three tell how
\* well its point is a solution or a certificate of infeasibility: 0 not at
\* all, 1 at reduced, 2 at full accuracy.
Justified(a) ==
  /\ a.claim = "solved" => a.quality = 2
  /\ a.claim = "acceptable" => a.quality >= 1
  /\ a.claim = "primal infeasible" => a.primal = 2
  /\ a.claim = "dual infeasible" => a.dual = 2
  /\ a.claim = "nearly primal infeasible" => a.primal >= 1
  /\ a.claim = "nearly dual infeasible" => a.dual >= 1

Init ==
  /\ busy = FALSE /\ calls = 0 /\ seen = FALSE
  /\ answer.call = 0 /\ answer.claim = "none"

Begin ==
  /\ ~busy
  /\ busy' = TRUE /\ calls' = calls + 1 /\ seen' = FALSE
  /\ UNCHANGED answer

Reach ==
  /\ busy
  /\ seen' = TRUE
  /\ UNCHANGED <<busy, calls, answer>>

Finish ==
  /\ busy
  /\ busy' = FALSE
  /\ answer'.call = calls
  /\ answer'.claim # "none"
  /\ Justified(answer')
  /\ seen => answer'.claim \notin {"gave up", "nearly primal infeasible", "nearly dual infeasible"}
  /\ UNCHANGED <<calls, seen>>

Next == Begin \/ Reach \/ Finish
Spec == Init /\ [][Next]_contract
=============================================================================

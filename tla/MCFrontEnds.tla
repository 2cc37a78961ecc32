------------------------------ MODULE MCFrontEnds ------------------------------
(***************************************************************************)
(* Bounds on the runs of the backend: three make a solve, another and a     *)
(* third of the first one's matrices, or a retried warm start and a solve;  *)
(* JAX keeps an adapter for each batch size, and gets two.                  *)
(***************************************************************************)
EXTENDS FrontEnds

MCMaxRuns ==
  [f \in Fronts |-> CASE f = "jax" -> 2 [] f = "torch" -> 3 [] OTHER -> 4]
=============================================================================

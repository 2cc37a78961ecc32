------------------------------ MODULE FrontEnds ------------------------------
(***************************************************************************)
(* The four Python front ends over the CPU adapter: a user makes one of     *)
(* them and calls it in any order.                                          *)
(***************************************************************************)
EXTENDS PythonSolvers, TensorSolvers

Init ==
  /\ front \in Fronts
  /\ SingleInit \/ CompiledInit \/ TorchInit \/ JaxInit
  /\ asked = NotAsked /\ answer = <<>> /\ grad = <<>>
  /\ runs = 0 /\ spoiled = FALSE

Next == SolversNext \/ TensorNext

Spec == Init /\ [][Next]_callerVars

\* Every problem is solved with the P and A its caller passed: through the
\* caches of the adapter, of torch and of JAX, changes of batch size, retries
\* and backward passes on other data in between.  Not after a step known to
\* break it: torch's per-problem solve, or a backward pass that failed.
SolvesWhatItWasGiven ==
  ~spoiled => \A i \in DOMAIN answer : answer[i].point.mats.id = asked.values.id

\* moreau/torch/__init__.py, solve: "Stateless call - all problem data is
\* passed as arguments", and set up "is skipped" only "if P and A haven't
\* changed since the last call".
StatelessSolve == \A i \in DOMAIN answer : answer[i].point.mats.id = asked.values.id

\* No result of a warm start that failed is returned, a warm start that did
\* not fail is not replaced by the cold retry of its neighbours (torch, which
\* replaces the batch, apart), and status and point are of the same run.
MergeIsConsistent ==
  asked.warm =>
    \A i \in DOMAIN answer :
      /\ answer[i].info = answer[i].point
      /\ i \in ShouldRetryCold(asked.first) => ~answer[i].point.warm
      /\ front \in {"single", "compiled"} /\ i \notin ShouldRetryCold(asked.first)
           => answer[i].point = asked.first[i]

Retried == MustRetry(asked.warm, asked.first)

\* backward() differentiates at the solution last returned: in Solver when
\* that is a cold one, whatever the warm starts before it, in CompiledSolver
\* unless the last solve was retried; setup() and auto-tuning in between.
GradientIsAtTheAnswer ==
  \A i \in DOMAIN grad :
    (IF front = "single" THEN ~answer[1].point.warm ELSE ~Retried) => grad[i] = answer[i].point

\* moreau/__init__.py, CompiledSolver.solve: "Successful warm-started solutions
\* are preserved so downstream backward passes use the iterate the user
\* expected".
GradientUsesWarmSolution ==
  \A i \in DOMAIN grad \cap Differentiable(answer) : grad[i] = answer[i].point
=============================================================================

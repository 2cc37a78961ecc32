-------------------------------- MODULE Caller --------------------------------
(***************************************************************************)
(* What a user of a Python front end sees: one object of one of the four   *)
(* classes, the matrices of the last solve(), what it returned and where    *)
(* the last backward() differentiated.  The front ends share the rule for  *)
(* retrying a failed warm start (moreau/_types.py).                         *)
(***************************************************************************)
EXTENDS CpuAdapter, FiniteSets

CONSTANTS
  Fronts,          \* the classes modelled: "single", "compiled", "torch", "jax"
  Ids,             \* contents of P and A
  MaxBatch,        \* largest batch
  MaxRuns,         \* bound on the runs of the backend, for each class
  Statuses,        \* of a problem; "none" comes without a solution
  NoRetry,         \* IPMSettings.warm_start_no_retry
  FailedBackward   \* whether a backward pass on explicit data may fail

ASSUME CallerAssumption ==
  /\ Fronts \subseteq {"single", "compiled", "torch", "jax"}
  /\ MaxBatch \in Nat \ {0} /\ MaxRuns \in [Fronts -> Nat]
  /\ NoRetry \subseteq Statuses /\ FailedBackward \in BOOLEAN

VARIABLES
  front,     \* the class of the object
  solver,    \* its state
  asked,     \* last solve: its matrices, whether warm, its first run's results
  answer,    \* what it returned, per problem
  grad,      \* where the last backward differentiated, per problem
  runs,      \* runs of the backend so far
  spoiled    \* a step after which torch or JAX may hold unknown matrices

callerVars == <<front, solver, asked, answer, grad, runs, spoiled>>

Batches == 1..MaxBatch
Shared(i) == [form |-> "shared", id |-> i, rows |-> 0]
PerProblem(i, k) == [form |-> "batch", id |-> i, rows |-> k]
\* The values a call with a batch of k may pass.
ValuesFor(k) == {Shared(i) : i \in Ids} \cup {PerProblem(i, k) : i \in Ids}
\* 1-D values tiled to 2-D.
Tiled(v, k) == PerProblem(v.id, k)
\* Statuses of one run on k problems.
Outcomes(k) == [1..k -> Statuses]

NotAsked == [values |-> NoValues, warm |-> FALSE, first |-> <<>>]

\* x, z, s from one run; status, obj_val and iterations; z_x.
Returned(res) == [i \in DOMAIN res |-> [point |-> res[i], info |-> res[i], zx |-> res[i]]]

\* _should_retry_cold
ShouldRetryCold(res) == {i \in DOMAIN res : res[i].status \notin NoRetry}
MustRetry(warm, res) == warm /\ ShouldRetryCold(res) # {}
\* Statuses of the cold run, if there is one.
ColdOutcomes(retry, k) == IF retry THEN Outcomes(k) ELSE {<<>>}

\* _check_backward_statuses: the problems whose upstream may be nonzero.
Differentiable(ans) == {i \in DOMAIN ans : ans[i].info.status # "none"}

\* A solve of v returned ans, after first and perhaps a cold run.
Answers(v, warm, first, ans) ==
  /\ asked' = [values |-> v, warm |-> warm, first |-> first]
  /\ answer' = ans
  /\ grad' = <<>>
=============================================================================

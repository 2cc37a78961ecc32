# Moreau in TLA+

Moreau solves convex conic programs with quadratic objective,

    minimise  x'Px/2 + q'x   subject to  Ax + s = b,  s in K  (and entries of x in K'),

one at a time or in batches that share a structure, and differentiates the
solution with respect to the data. This directory holds TLA+ models of its
parts, the TLC configurations that check them on small instances, and
machine-checked proofs about eight of them. Paths below are relative to
`src/packages/` of the repository; `moreau-cpu/src/solver/` is abbreviated
`solver/`, `solver/implementations/default/` is `default/`, and
`moreau-cpu/cpp/src/solver/active_set/` is `active_set/`.

## Inventory

| component | state it keeps | operations | what makes it hard | correct when | status |
|---|---|---|---|---|---|
| Interior-point loop, `solver/core/solver.rs` | iterate; previous, best and smoothing iterate; scaling strategy; counters | `solve`, `update_settings` | one object is reused for many solves; steps are rejected, abandoned, retried with another strategy | it returns, with an iterate of this call that justifies the status | `IPSolver`, proved |
| Bookkeeping, `default/info.rs`, `solution.rs`, `settings.rs` | metrics of the current, previous and best iterate | `reset`, `update`, `check_termination`, save and restore, `post_process` | metrics and variables are stored apart and restored in part; equality test on the limit | metrics describe the iterate they are used with | `IPSolver`, proved |
| Batch solver, `default/compiled_solver.rs` | slots, equilibrated P of each problem, cache of solved states, flags | `setup*`, `solve*`, `backward`, `backward_with_data` | every operation writes into the same slots; problems share slots; errors in the middle of a batch | a solve uses the last setup, a gradient its own problem | `CompiledSolver`, proved |
| Worker pool and locks | slot and gradient-state mutexes | tasks of one batch | work stealing while locks are held | every batch is answered | `BatchPool`, safety proved |
| C ABI, `moreau-cpu/src/c_api.rs` | handle with the last solutions | `moreau_solver_*` | codes, caught panics, results kept apart from the solver | a caller sees solutions of the present problem | `CApi`, proved |
| Solver object, `default/solver.rs`, `problemdata.rs`, `variables.rs`, `equilibration.rs` | scaled data, scalings, norms, solution, gradient pattern | `new*`, `load_and_equilibrate`, `solve_batch*`, `forward*`, `backward*` | four changes of coordinates, undone in several places | results are about the user's problem; an iteration is a Newton step | `DefaultSolver`, `NewtonStep`, proved in part |
| Presolver, `default/presolver.rs` | map of kept rows | reduce, reverse | index shifts | reverse undoes reduce | `DefaultSolver` |
| Differentiation, `default/diff/` | pattern and values of the augmented system | adjoint, forward | hand-written assembly in two versions (before and with data) | it is the derivative of the solution map | `Differentiation`, `ConeDerivatives` |
| KKT solvers, `solver/core/kktsolvers/`, `moreau-cpu/src/qdldl/` | matrix, maps, permuted copy, signs, factors | assemble, update, factor, refine, solve | the matrix exists twice and is updated in place; integer tree algorithms | factors belong to the current matrix | `KKTSolver`, proved |
| Chordal decomposition, `solver/chordal/` | supernode tree, clique graph, augmented problem | merge, augment, reverse, complete | graph algorithms with in-place index updates | nothing is lost, doubled or read too early | `ChordalDecomposition`, proved in part |
| Active-set solver, `active_set/` | working set, its factor, flags, backward states | `setup`, `solve`, `solve_warm_start`, `backward*` | updated factors, degenerate pivots, cycling | optimal or proved infeasible, gradient of its own solve | `ActiveSetSolver` |
| Python front ends, `moreau/python/moreau/`, adapter `moreau-cpu/python/moreau_cpu/` | adapters, last info, caches of P and A at four levels | `solve`, warm-start retry, `backward`, auto-tune | results of two solves are merged; set-ups are skipped by comparison | what is solved is what was passed; `backward` is about what `solve` returned | `FrontEnds`, proved |
| Cones, `solver/core/cones/` | scalings | update, products, corrections, barriers, step lengths | every operation exists for cones on rows and on entries of x, and for small and large ones | a step solves the linearized conditions; iterates stay interior | `ConeScaling`, `GenPowerCone`, `ConeDerivatives`; not exponential, power and PSD cones |
| CUDA backend, Julia, settings I/O | | | | | not modelled |

**Interaction.** Python, Julia and C call the batch solver, or a single solver
object. The batch solver loads problems into the slots of its pool and runs the
interior-point loop on each, as tasks of a rayon pool; afterwards it copies what
the slots hold into its cache. `backward` copies a cached state back into a slot
and differentiates there; `backward_with_data` loads the caller's data,
differentiates, and puts the old contents back. The loop calls the KKT solver
for steps and the bookkeeping for every decision; the only callback into user
code is the termination callback. Small quadratic programs may go to the
active-set solver instead. Nothing is persisted and nothing is sent over a
network. The hazards of this code, each at its line, are in `PROJECT.json`.

## Modules

| module | models | built on |
|---|---|---|
| `SolveContract` | what a call of `solve()` promises, abstractly | |
| `IPSolver`, `MCIPSolver`, `IPSolverProofs` | `Solver::solve` with its bookkeeping over several solves of one object | refines `SolveContract` |
| `CompiledSolver`, `CompiledSolverProofs` | slots, cache and operations of the batch solver | |
| `CApi`, `CApiProofs` | the C handle around it | `CompiledSolver` |
| `BatchPool`, `BatchPoolProofs` | workers and locks while the problems of one batch run | |
| `Caller`, `CpuAdapter`, `PythonSolvers`, `TensorSolvers`, `FrontEnds`, `FrontEndsProofs`, `MCFrontEnds` | a user's call; the adapter over the batch solver; `Solver` and `CompiledSolver`; PyTorch and JAX; any of them | in this order |
| `Arrays`, `Field`, `SparseMatrix` | arrays from 0; numbers modulo a prime; the sparse matrix operations of `algebra/` | |
| `ConeDerivatives`, `Differentiation` | derivatives of projections; the augmented system | `SparseMatrix` |
| `GenPowerCone`, `ConeScaling`, `NewtonStep` | the generalized power cone; the cones of an iteration; residuals, right-hand sides and steps | `ConeDerivatives`, `Differentiation` |
| `DefaultSolver` | the solver object | `NewtonStep` |
| `SolutionMap`, `BarrierJets`, `NewtonSystem`, `MCDefaultSolver`, `SolutionMapProofs` | what its results are to be; derivatives of barriers by definition; what an iteration is to be | `DefaultSolver` |
| `KKTAssembly`, `LDLFactor`, `KKTSolver`, `MCKKT`, `KKTSolverProofs` | filling the KKT matrix; symbolic analysis of qdldl; the solver over its life | `Arrays` |
| `CliqueTree`, `CliqueMerge`, `ChordalDecomposition`, `MCChordal`, `ChordalProofs` | supernodes; merge strategies; one decomposed cone | `Arrays` |
| `Rational`, `DualActiveSet`, `ActiveSetGradient`, `ActiveSetSolver`, `MCActiveSet` | fractions; the workspace and its routines; gradients; the solver object | in this order |

Three ways of abstracting numbers are used. Where control decides and numbers
are an input, they are **adversarial**: a step of `IPSolver` ends in any iterate
of a set. Where it matters *which* number is used, a number is its
**provenance**: the call, problem, place or term it came from (`CompiledSolver`,
`FrontEnds`, `KKTSolver`, `ChordalDecomposition`). Where the result of the
arithmetic matters, it is **exact**: modulo a prime (263) in `DefaultSolver`, where no
order is needed, and in fractions in `ActiveSetSolver`, which decides by signs.

### IPSolver: one solver object

What the loop knows of an iterate is a record of decimal exponents (gaps,
residuals, kappa/tau) and two certificate levels, or NaN. A step leads to any
record of the constant `Iterates`; a factorization may fail, a step be too
short, the callback or the clock stop the solve at any time. The control is
complete: each convergence test, snapshot and restore, the strategy fallback,
YOLO mode, the smoothing refinement, warm starts and settings updates, in the
order of the code. Stored numbers are variables that hold the iterate they were
computed from (`metricsOf`, `ktOf`, `residualsOf`, `prevMetricsOf`,
`bestMetricsOf`, ...), tagged with run and pass, so a mix-up of two iterates is
a difference of two variables. `pc` follows `solve()`:

| `pc` | place in `solve()` | actions |
|---|---|---|
| `idle` | between calls | `UpdateSettings`, `WarmStart`, `Start` |
| `top` | head of the loop | `Evaluate` (regular), `YoloTop` |
| `check` | after the metrics are known | `CallbackStops`, `CheckTermination`, `RejectStep` |
| `step` | scaling, KKT update, step | `ScalingFails`, `KktFails`, `ShortStep`, `TakeStep` |
| `exit` | after the loop | `Refine` |
| `post` | post-processing | `PostProcess` |

The costs of an infeasible status are replaced by NaN in `DefaultSolution`; the
model keeps their provenance because the residuals next to them are reported
unchanged. A step too short to continue is assumed too short for the first
strategy as well (`min_terminate_step_length <= min_switch_step_length`, true
of the defaults 1e-4 and 1e-1). The initial infinities of `prev_*` are a NaN
iterate: every test on either is false, but for residuals that compare as
larger, and `ProgressTestsReadThisRun` shows that no test reads them. The start of
a solve may be NaN as well: a warm point is not validated, and `default_start`
ignores a factorization that failed (`solver.rs:647`). A regular solve then ends
with the status its metrics justify; a YOLO solve hands out the NaN it was given,
and `YoloReturnsNumbers` allows no other.

`SolveContract` has three actions: a call begins, it reaches points of the
reduced zone, it ends with an answer whose point is of this call and whose
status claims no more than the point shows, and not with an error or a limit
once it has reached the zone. `FulfilsContract` is its specification under a
refinement mapping from `IPSolver`.

### CompiledSolver and CApi

A slot holds the origin `[call, prob]` of its P, A, scaling, vectors and
solution, and whether rows of A have been zeroed for an infinite b. A call is a
`Begin...` action, one action per task, in any order, and a `Finish...` action.
A task holds its slot's mutex from beginning to end, so it is one step. Errors
of the derivative solver and the panic on an empty cached state are actions;
after the panic the mutex is poisoned. Ghost variables record which call
filled the cache, which slots something other than a setup has replaced, and
which saw an infinite b. `CApi` composes this with the handle: each entry point
checks its arguments, runs the operation, keeps or drops the last solutions,
and turns a panic into a code; calls may also reach the solver around the handle.

### BatchPool: workers and locks

`BatchPool` opens a task. A worker has a stack of activities; a task takes its
slot's mutex, in a backward call the mutex of a gradient state, factorizes and
drops both. With `faer-nt` (and `max_threads` other than 1) the factorization
offers half of its work to the same pool; a worker whose half was stolen looks
for other work, keeping its locks. Rayon itself is external: it is modelled
from what `join` guarantees, and `TakeBack` covers factorizations too small to
fork.

### FrontEnds

`Caller` has a user's request and answer; a point is [values it was solved
with, warm or cold, run]. `CpuAdapter` keeps the single and the batch core of
`moreau_cpu` with their caches, and `SolveSingle`, `SolveBatch`, `BackwardCore`
and `BackwardWithData` follow its methods. `PythonSolvers` adds retry and merge
of failed warm starts and auto-tuning; `TensorSolvers` the caches of PyTorch
(shared tensors compared by identity and value) and JAX (bytes compared in the
callback, which may or may not find the pending warm start). `spoiled` is a
ghost: torch's per-problem solve or a failed `backward_with_data` has happened,
after which notes about loaded matrices are known to be wrong.

Left out: a 1D P next to a 2D A, the auto-tuning of torch and JAX, the paths for
problems with only direct cones and for the active-set adapter, vmap and compile
rules, and that `z_x` of a failed warm run is kept in the merge. A torch solve
that raises changes nothing in the model.

### DefaultSolver

The user's problem is presolved, copied, scaled, rectified and normalized by the
steps of the code; `Solve` then takes *the* solution of the data the solver
holds, found by elimination from the complementarity the instance is known to
have, scaled by any tau. So everything between the data and the solution, and
between the solution and the gradients, is computed as the code does it and
compared with a reference (`SolutionMap`): the optimality conditions of the
user's own problem and the Jacobian of its solution. The smoothing iterate is
any feasible interior point. Derivatives of exponential, power and PSD cones are
opaque symmetric blocks with the right pattern. Left out: the branch of
`unscale` for certificates, the clipping bounds and all but one pass of Ruiz
scaling; one geometric mean `g` serves all direct-x cones; `MuThreshold` stands
for the "large" flag of a barrier parameter.

`Iterate` is one iteration at an interior point that solves nothing: residuals,
the scaling of every cone, the reduced matrix with its expansions, affine and
combined right-hand side (the second overwrites the first), the steps, and
`add_step`; or a pass of the centring that ends a smoothed solve (`m = 0`).
`FirstPoint` is `default_start` of a symmetric problem up to the shift into the
cones. Cones are zero, nonnegative, second-order and generalized power cones, on
rows and on entries of x, the latter two also beyond the sizes at which they are
expanded. `NewtonSystem` states what such a direction is to solve on all
variables, with the scaling as a matrix and, for the power cone, with gradient,
Hessian and third derivative of the barrier computed from its definition
(`BarrierJets`: evaluation with infinitesimals), so no formula of the code is used
to check itself.

What needs an order or a real number is replaced as follows. Positive means: has
a square root modulo 263, of which -1 has none; points are chosen so that what the
code takes a root of has one. Eigenvectors of the 4x4 projector become the vectors
of an elimination, which have the one property used: the same sum of signed squares.
Powers of the entries of a point are given by a table (`PowerProduct`), because no
identity of the formulas depends on two of them. Decisions by size are inputs of a
step: primal-dual or dual strategy, heavy columns (the threshold 1e12), and the
factor by which a correction is cut. The second Gram-Schmidt pass, which changes
nothing in exact arithmetic, is left out.

### KKTSolver

An entry of the matrix is the set of terms whose sum it is, each a source with the
version of it that was written. `Construct` counts and fills with the seven helpers
of `kkt_assembly.rs` for both triangles, permutes the copy of the engine and runs
qdldl's symbolic analysis. Then follow the calls of an interior-point iteration:
`LoadData` (new P and A), `Rescale` (new cone scalings), `Update` (scaling blocks,
shift, factorization, which may fail), `Solve` for the constant and for the step
right-hand side, and `Refine` and `Refined`, one round of iterative refinement and
its end. `UpdateSettings` switches `static_regularization_enable` between two
updates. Refinement compares norms of a small set with its two thresholds; its stop
ratio is assumed to be at least 1 (`RefinementAssumption`), which the code needs and
the validation of the settings does not enforce. With `iterative_refinement_enable`
switched off the code only tests the solution for finite entries
(`directldlkktsolver.rs:590`); that path is left out, and every solve of the model
refines. The arithmetic of the factorization
is left out and the ordering is an input, any permutation (`OrdersAssumption`). For
the engine that stores the lower triangle, `MCKKT` gives direct-x indices in ascending
order (see Observed).

### ChordalDecomposition

A number of the problem is the place it comes from. The pattern of one PSD cone
between rows of other cones goes through the elimination tree, the supernodes,
one of three merge strategies, post-order and renumbering, then compact and
standard augmentation of A and b, the batch maps, the reversal, its adjoint and
the completion. The elimination order is an input.

### ActiveSetSolver

One iteration of `daqp_ldp` is one step. A problem becomes a least-distance
problem (`SetupLdp`), the working set grows and shrinks, its LDL' factor is
updated in place, and the loop ends with one of its exit flags; `Extract` turns
that into status and solution and saves the backward state. All numbers are
fractions, exactly; instances are chosen so that each root is one. Tolerances
are ordinary constants, large enough that singularity, pivoting, repair and the
cycle guard happen. Ruiz's scaling is an input. The gradients solve with the exact Schur complement, without
the 1e-12 that `backward.cpp` (274, 348) adds to its diagonal. Left out: the split of a batch
over threads, which share nothing, the callback, timers but for the exit they
cause, the objective value, and the bindings.

## Runs

| run | what it shows | instance | distinct states |
|---|---|---|---|
| `ip` | six invariants of a solve, `SolveReturns` (liveness), `FulfilsContract` (refinement) | 7 iterates, 3 of them starts, 2 solves, limit 2 | 1,112,469 |
| `batch_calls` | solves use the last setup, gradients their own problem, the handle agrees | 1 thread, batches of 1 and 2, 5 calls | 771,812 |
| `pool_sequential` | no worker waits for itself; every batch returns (liveness) | 2 workers, up to 4 problems, 3 slots, 2 gradient states | 34,072 |
| `pool_threaded` | violated: see Findings | the same with up to 3 problems | |
| `python` | matrices passed are matrices used; merge; gradient at the answer | 4 front ends, 2 values, batches of 1 and 2, 2 to 4 backend runs | 447,448 |
| `py_gradient`, `py_stale` | violated: see Findings | the same | |
| `default` | solution, data, Newton steps, gradients, transposes and patterns | 16 problems, 3 methods, 4 kinds of step | 826 |
| `diff_presolve` | violated: see Findings | the same | |
| `kkt` | assembly, currency of every factored entry, the matrix of the refinement, signs, symbolic factor, one factor per step | 44 problems, N = 4, M = 5, 3 engines, 2 orders, 2 rescalings, 2 rounds of refinement | 187,762 |
| `chordal` | clique tree, clique graph, copies, batch maps, adjoint, completion | 320 graphs on 7 vertices, 3 strategies | 6,277 |
| `active` | optimality, infeasibility proofs, factor, flags, gradients | 13 families of 2 or 3 variables and up to 6 rows, 4 calls | 7,690 |

**Bounds.** The iterates of `MCIPSolver` contain for the tests of the loop one
that passes and one that fails: far from optimal, two points of the reduced zone
whose order by gap differs from their order by score, optimal, diverged, almost
certified infeasible, NaN. A start is far, near or NaN. Two solves suffice for what leaks from one
solve to the next, since a solve overwrites what an earlier one left or leaves it
untouched; two iterations suffice for the progress tests (`iter > 1`). What is
invariant there is also proved for all values of the bounds. Five calls on the
batch solver allow setup, forward, second setup, backward and a second forward,
the longest chain by which slot contents travel; on one initial thread the pool
grows, and problems share a slot before it has. Four problems on three slots and
two gradient states give every combination of shared and private locks. Three
backend runs make a solve, another, and a third with the first one's matrices;
a retried warm start takes two. Of the 16 problems of `default`, each cone kind
occurs on rows and on entries of x, active, inactive and on a boundary, next to
an infinite row and to problems the constructor refuses; cones of 3 and 4 entries
are a small and a large one, with the thresholds set to 3, and the four steps have
both strategies, with and without heavy columns, cut corrections and m other than
1. Its
equations are compared modulo 263, entry by entry: a wrong one holds by accident at one
point in 263, for each entry and each step it occurs in. Problems of `kkt` have
patterns of P with and without diagonal and every kind of block and expansion;
two rescalings and a failure between them are enough for anything stale. The
graphs of `chordal` are all cycles with missing edges, complete graphs with
missing edges, and a cluster with a sparse part, up to the choice of the missing
edges: many small cliques, few large ones, and both; seven vertices give trees
with chains, forks and merges in both directions. The families of `active` hold
what the loop can meet: degenerate corners, rows close to each other, dependent
and empty rows, a singular and an indefinite P, repair, cycling, every limit;
four calls are a setup, a solve, a second solve over what it left, and a
gradient of the first.

**Deadlock** is checked in `chordal` and `kkt`, which end in a final state that
stutters. The others stop when their bounds on calls are reached or after a
panic; there blocking is the subject of `SolveReturns` and
`SequentialBatchReturns`.

**Fairness.** `solve()` is a sequential function, so `IPSolver` assumes weak
fairness of the loop as a whole: some step of it is taken as long as one can be.
No choice inside the loop is assumed fair; steps may go wrong for ever.
`BatchPool` assumes weak fairness of each worker, an operating-system thread that
is ready to run. The other modules have no liveness property and no fairness.

## Findings

Each is a run that TLC finds violated.

* `pool_threaded`: with `faer-nt`, a worker that waits for a stolen half of its
  factorization takes another problem of the batch and can block on the gradient
  state it holds itself.
* `diff_presolve`: after presolve has removed a row of infinite b,
  `solution_to_equilibrated` pairs the stored solution, of the user's length,
  with scalings of the reduced length: forward and backward derivatives are taken
  at a point that is not the solution.
* `py_gradient`: the cold retry replaces the backend's cache for the whole batch;
  `CompiledSolver.backward` then differentiates at the cold solutions, also for
  problems whose warm solution was kept.
* `py_stale`: a torch solve with shared matrices after one with per-problem
  matrices skips the set up and solves with the other call's matrices.

## Proofs

All eight proofs are of `Spec => []Inv` by an inductive invariant, for every value
of the constants that the named assumptions allow, with one lemma per part of
the invariant and one step per action.

`IPSolverProofs` (assumptions `NaNAssumption`, `IterateAssumption`,
`BoundAssumption`, `ToleranceAssumption`: the tolerances are ordered as the
settings require) proves `TypeCorrect`, `ProgressReadsThisRun`, `HonestStatus`,
`SolutionKept`, `BestKept`, `YoloIsNumeric` and `CounterBounded` (`IterationsBounded`,
stated by the proof alone). The properties
speak of a finished solve or of one place in the loop and are not inductive;
`IInv` adds why they hold:

* `PrevInv`: the previous iterate is of this run once `iter > 1` can be read,
  because a pass that advances the counter without a step has used up the fallback;
* `CurrentInv`: metrics, residuals and variables are of the same iterate wherever
  they are read together. After a reset this holds of the metrics only; there the
  status is `InsufficientProgress` and kappa/tau was below 1, so that no
  certificate can be claimed from the residuals left over;
* `StatusInv`: a status that ends the loop is justified by the metrics;
* `BestInv`: the snapshot is a member of `zone`, the reduced-tolerance iterates of
  this run, and none of them scores better (`CloserIsSmallerScore` and
  `ScoreIsLargest` relate the code's comparison to a maximum);
* `YoloInv`: the fallback iterate of a YOLO solve is of this run, and a number
  unless it is the start;
* `CountInv`: the counter is below the limit wherever it will be advanced.

`PromiseStep` shows that `PostProcess` turns the invariant into the promise to
the caller, and `KeepsContract` that `IPSolver` implements `SolveContract`:
initial states map to initial states, `Start` to `Begin`, a pass that enters the
zone to `Reach`, `PostProcess` to `Finish`, everything else to stuttering.

`CompiledSolverProofs` (`PoolAssumption`) proves `IndexesExist`, `UsesSetup` and
`OwnGradient`. Its invariant distinguishes cached states that are *own*, filled by
a solve of the present setup, from *foreign* ones of an earlier setup, and says
(`BaseInv`, `SlotInv`, `CacheInv`, `OutInv`, `CallInv`) that a slot that no
backward pass has replaced holds contents of the last setup, that the cache holds
for each problem contents of that problem, and that a running backward call
restores what its own problem needs. `CApiProofs` extends it by the handle:
`HandleAgrees` (what a C caller can read is what backward uses) and
`HandleSolvesSetup` (through the handle alone no slot is ever replaced by older
matrices, so the exception in `SolveUsesSetup` does not arise).

`BatchPoolProofs` (`BatchAssumption`) proves `NeverSelfWaits`: a lock has one
owner, which is an activity of a worker's stack (`OwnerInv`), a task is in one
stack once (`OnceInv`), and with single-threaded factorizations a stack has one
task (`SequentialInv`).

`FrontEndsProofs` (`CallerAssumption`) proves `MatricesArrive`, `MergeConsistent` and
`GradientAtAnswer`. A set-up is skipped at three levels on the strength of a note, and
its invariant says of each note that it is true: `Coherent` of the two solvers of an
adapter, `TorchHolds` of the shared matrices of torch, `JaxHolds` of the bytes of JAX,
the latter as long as `spoiled` does not hold, which is why the violation `py_stale`
does not contradict the theorem. `SetupFacts` and `SolveFacts` state what the adapter
promises and every front end is proved from them alone. For the gradient `SingleInv`
says that the single solver's cache is the answer unless that is warm started, and
`CompiledInv` that the single solver never runs there, so that `backward`, which prefers
its cache, takes the right one.

`KKTSolverProofs` (`EnginesAssumption`, `OrdersAssumption`, `RefinementAssumption`)
proves `FactoredIsCurrent`, `RefinementUsesTrueMatrix`, `SignsMatchSentinels` and
`StepUsesOneFactor`. The control part (`ControlOK`) is proved without further premise:
which versions are written at which `pc`, that both solves of a step come after the
same factorization, and how many rounds of refinement there were. The part about the
matrices (`MatricesOK`) says of every entry, of the solver's own copy and of the
engine's permuted one, which terms at which version it holds (`Built` after the
assembly, `Copied` after the permutation, `Updated` after an update). It rests on one
premise, `[]AssemblyFits`: the assembly of a problem yields maps whose places are
distinct, complete and within the matrix. That is a fact about recursive functions
over the columns, so it is left to TLC, and the theorems read `Spec /\ []AssemblyFits
=> []...`; the premise is an invariant of the run `kkt`. From it follow
`ScalingCompletes` (writing blocks, signs and expansions in the order of the code
leaves no entry of an older version) and `CopyLaid` (the same through the
permutation of the engine's copy), and with them every action.

`SolutionMapProofs` (`ProblemsAssumption`, `ScalingsAssumption`: the data of a problem
are matrices and vectors of integers of matching sizes, and the factors of a scaling
are long enough and numbers) proves `BatchHoldsData` and `DataOfBatch`, about a solver
that is built for a pattern (`gs # NULL`) and loaded again and again: through every
load, every new right-hand side and every solve its matrices and vectors are those of
the user's last problem under the factors it records (`HeldData`), and those factors
are constant over each cone that needs it (`ConesKept`). That the cached norms are the
user's (`HeldNorms`), and with it all of `DataIsUsersProblem`, has one premise,
`Invertible(dat)`: the recorded factors have reciprocals. The code's factors are
positive; here they are numbers modulo a prime, and a product of factors that are
not 0 is not 0, but the sum from which the scaling of a cone is taken may be. No state
of `default` has such a factor. The argument is `ScaledData`, entry by entry: it holds
of the data as they are loaded with all factors 1 (`UnscaledData`), and each pass of
`equilibrate` keeps it (`EquilibrateLaw`), because scaling by a factor after a factor
is scaling by their product; the passes of `rectify` divide what a cone shall have by
what a row has, so that afterwards its rows agree. `Invertible` then turns scaled norms back into the user's
(`NormsHold`). `BatchInv` carries this through a solver's life. That sums follow their
terms, what is not 0 has a reciprocal and a cone's rows follow those of the cones
before it is each shown from the least exception, so that no induction over data is
needed. Not covered is a solver built by `New`, where presolve drops rows and P may be
given with both triangles: there `DataIsUsersProblem` is model-checked.

`ChordalProofs` (`OrderAssumption`: an elimination order reaches every vertex;
`ThresholdAssumption`) proves `CliqueTreeAlways`, `CopiesAlways`, `BatchAlways`,
`CompletionAlways` and `AdjointAlways` for cones and sparsity patterns of any size, by the invariant
`PatternInv`, which follows the decomposition from step to step. The symbolic factor
hands the higher neighbours of a column on to the lowest of them (`Factor`).
`pothen_sun` groups its columns into chains whose neighbourhoods nest (`Grouped`).
The supernodes with their separators are then a `Junction`: the separator of a
clique lies in the clique of its parent, below that one's end and not all of it, and
entirely behind the supernode of its own; every entry of the pattern is inside a
clique. A merge of a clique into its parent leaves a junction; which merge is next
does not matter, so the thresholds do not either. The post order is proved to visit
every clique once and each before its parent (`InPostOrder`), and the renumbering to
make supernodes consecutive and cliques ascending (`Arranged`), which is what the
completion needs: when it comes to a clique from the last to the first, the
separator's block is known and the rest of the columns is not.

The rows follow from the clique tree once it is written down in the user's vertices
(`Stack`): place x of the block of clique k stands for the pair `Spot(k, x)`, the
blocks lie one below the other (`Slot`), and a place is repeated from the parent's
block if both vertices are in the separator (`Tie`). Because the cliques that hold a
pair are connected, exactly one of them holds it outside its separator (`OwnerOfPair`,
`OneOwner`): that is the one place of an original row that is no overlap, and each of
the others is the plus row of one overlap column whose minus row is the same pair in
the parent's block (`RowsFit`). `Carries` says of a row of the problem that it has a
place at all; the pattern has one because every entry of it is inside a clique. That
the sizes counted before the split, sums of triangular numbers, are those of the sets
of columns, and that an entry has as many copies as cliques hold it, is shown by
one-to-one maps between these sets (`SameSize`). `PatternInv` records of the augmented
problem only that it is made from a problem of such rows (`Made`). The adjoint needs of
all this only that the map of the reversal stays within the rows. The folds and
walks over arrays that the code's loops have become are unfolded by hand, over the
number of steps, and what all subsets of a finite set have is shown from a least
exception.

The five theorems leave out the strategy `clique_graph`. That its result is a clique
tree rests on the theorem that a spanning tree of greatest weight of the clique graph
is a clique tree, after merges that keep the graph reduced; here that strategy is
model-checked only.

**Only model-checked.** Liveness (`SolveReturns`, `SequentialBatchReturns`) is out of
the prover's reach. Of `chordal`, everything under the strategy `clique_graph`,
`CliqueGraphConsistent` with it. `AssemblyFits` and
`SymbolicFactorIsFill` of `kkt`, the properties of `active`, and of `default` all but
`DataIsUsersProblem` (`SolutionSolvesUsersProblem`, `GradientIsOfSolutionMap`,
`AdjointIsTransposeOfForward`, `PatternFits`, `StepIsNewton`) are about what recursive
algorithms compute from matrices and graphs, and need induction over data. `FlagsMatchWorkingSet` of `active`
looks like control alone but is not inductive without what the pivots of the factor
say about the rows of the working set.

## Observed while modelling

Not all of these have a run; the models keep to the side where the code works or
name the exception in the property.

* `solver.rs:544`: the smoothing iterate is refined before the best iterate is
  restored, and not at all after some error statuses, so an `AlmostSolved` answer
  can have no smoothing iterate or another one's (comment at 541-543).
* `info.rs:371`: right after a reset to the previous iterate the stagnation test
  compares it with itself (comment at 354: consecutive iterates). In YOLO mode
  `obj_val` is of an earlier evaluation (`solution.rs:99`).
* `compiled_solver.rs:1615`: `backward` on a cache older than the last setup leaves
  that setup's A and scaling in the slots; the next solve restores P only.
  `precompute_equilibration` (deprecated) followed by `solve` indexes empty lists.
* `kkt_assembly.rs:351` with `datamaps.rs:571`: for the lower triangle (Pardiso) the
  slots of a direct-x expansion are recorded in the cone's order and written in
  sorted order; with indices out of order the scaling is permuted.
* `directldlkktsolver.rs:691`: the shift of the diagonal is written only while
  `static_regularization_enable` holds; an update after it was switched off
  leaves the shift of the one before in the engine's copy, at entries no scaling rewrites.
* `qdldl.rs:809-821`: the inverse of a permutation accepts a duplicate of the entry
  at position 0. `refactor().unwrap()` panics on a zero pivot without dynamic
  regularization.
* `problemdata.rs:100-130`: the chordal analysis is of the original A, b and cones,
  its augmentation is applied to the presolved ones.
* Smoothed or automatic differentiation with a direct-x exponential or power cone
  panics (`solver/core/cones/mod.rs:961`); `forward_batch` ignores direct-x cones;
  `solve_batch_preequilibrated` does not clamp an infinite b;
  `infeasible_solution` returns an empty `z_x`, which shifts a flat one; the backward
  pass combines x and z of the smoothing iterate with `z_x` of the solution; a P
  given with both triangles would be doubled in `build_qp_kkt_matrix`.
* `variables.rs:278-316` with `kktsystem.rs:386-440`: the first point of a symmetric
  problem never sets `z_x`; it is shifted into its cone from what the previous solve of
  the object left, so a cold start of a reused solver with direct-x cones depends on it.
* `genpowcone.rs:1626`: the correction of a direct-x power cone is half the third
  derivative along the affine step with a factor of the fourth power of mu and none of
  m, as its comment explains by experiments; `NewtonSystem` states it so.
* `moreau_cpu` adapter: `backward` prefers the single solver's cache, whichever solver
  ran last; a cold solve, a warm one and `backward` differentiate the cold one. The
  merge of a retried warm start keeps `z_x` of the failed run.
* PyTorch: `_cached_shared_P` may not exist when the first solve was per-problem;
  `backward` with another batch size makes the next shared solve raise "setup() must
  be called". JAX: a batched warm start raises at `int(status)`; a pending warm start
  left by a call that raised is used by the next cold call. A failed
  `backward_with_data` leaves the caller's matrices in the slot while the caches of
  torch and JAX still claim the set-up ones.
* Comments say the release profile has `panic = "abort"`; no `Cargo.toml` sets it.
* `active_set/core.cpp:402`: a repair sets the lower side on an equality with a
  negative multiplier and `extractSolution` then negates it: z, and the gradient by
  b, have the wrong sign there (`FlippedEqualities` in the properties).
* `active_set/core.cpp:84-96`: if a pivot exchange precedes the singular row,
  activation drops another constraint than the one it reports on, and the repairs
  ignore its result. In exact arithmetic this cannot happen, so the model does
  not show it.
* `active_set/solver.cpp`: redundant but consistent equalities end as
  `NumericalError`; an unbounded linear program is regularized by `eps_prox` and
  reported as `Solved`; a warm start never equilibrates, and as its first row an empty
  row gives a pivot of zero that is not tested; a gradient after an equilibrated solve
  uses the scaled factor, as a comment there says.

## Not modelled

* Step lengths, smoothing of an iterate, feasibility tests and first points of
  nonsymmetric cones, scalings and derivatives of exponential, three-dimensional power
  and PSD cones, and the arithmetic of factorizations: inequalities, searches and
  series of real numbers. Their results are adversarial, opaque or inputs.
* The CUDA backend: its control is spread over asynchronous kernels and library calls
  that would have to be invented to be modelled.
* The Julia front end: it translates a MathOptInterface model into the C calls that
  `CApi` has; the translation has no state of its own worth a model.
* The registry of thread pools and `fork`, overlapping calls from several threads on one
  solver (the documentation asks for one thread per solver), the adjoint solver built on
  demand for chordal problems, the deprecated `precompute_equilibration`.
* Settings files, timers, printing, validation messages, device discovery.

## Plan

Done: `IPSolver` with its contract, the batch solver with the C handle, the
worker pool, the Python layers, the solver object with differentiation, the KKT
solver, the chordal decomposition, the active-set solver; proofs of the first
four and of the KKT solver, of the data a batch's solver holds, and of the chordal
decomposition along the elimination tree. Next would be:

1. `DataIsUsersProblem` for a solver built by `New`: `ScaledData` over the kept rows,
   with a lemma that selecting rows and the upper triangle keeps entries.
2. The clique graph strategy of the chordal decomposition: merges that keep the graph
   reduced, and its spanning tree a clique tree.
3. The registry of worker pools, with the weak references and a fork.
4. The front ends on top of `CompiledSolver` itself rather than of the adapter's
   summary of it.

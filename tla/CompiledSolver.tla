--------------------------- MODULE CompiledSolver ---------------------------
(***************************************************************************)
(* CompiledSolver of moreau-cpu (implementations/default/                  *)
(* compiled_solver.rs): a pool of solvers, one slot per problem of a batch,*)
(* that setup() fills and equilibrates once and solve(), backward(),       *)
(* backward_with_data() and solve_batch_parallel() use and overwrite.      *)
(*                                                                         *)
(* Numbers are represented by their origin: a datum [call, prob] stands    *)
(* for the values that problem prob of that call supplied.  A slot holds   *)
(* the origins of its P, of its A, of the scaling it applies to new        *)
(* vectors, of its q and b, and of the solution it stores; zeroed says     *)
(* that rows of A were set to zero for an infinite b.  The scaled system a *)
(* solve works on is right exactly when these origins agree.               *)
(*                                                                         *)
(* A call runs its problems as tasks on the worker pool, in any order; a   *)
(* task holds the mutex of its slot from beginning to end, hence is one    *)
(* step.  setup takes the object exclusively.  Calls do not overlap: the   *)
(* documentation asks for one thread per solver.                           *)
(***************************************************************************)
EXTENDS Integers, Sequences

CONSTANTS
  NumThreads,  \* initial size of the pool
  MaxBatch,    \* bound: problems per call
  MaxCalls     \* bound: calls on the object

ASSUME PoolAssumption ==
  NumThreads \in Nat \ {0} /\ MaxBatch \in Nat \ {0} /\ MaxCalls \in Nat

VARIABLES
  gradEnabled,  \* grad_enabled
  pool,         \* solver_pool
  precomputed,  \* equilibration_precomputed
  batchSize,    \* batch_size
  base,         \* base_equilibrated_P_values
  cache,        \* solutions_cache
  call,         \* the call that runs: [op, id, todo, out, failed]
  calls,        \* ghost: calls made so far
  forward,      \* ghost: the call whose results the cache holds
  spoiled,      \* ghost: per slot, what replaced the setup's matrices
  infSeen       \* ghost: slots that met an infinite b since the last setup

vars == <<gradEnabled, pool, precomputed, batchSize, base, cache, call,
          calls, forward, spoiled, infSeen>>
ghosts == <<forward, spoiled, infSeen>>

-----------------------------------------------------------------------------
Datum == [call : 0..MaxCalls, prob : 0..MaxBatch]
NoDatum == [call |-> 0, prob |-> 0]

Contents == [P : Datum, A : Datum, scale : Datum, zeroed : BOOLEAN,
             vec : Datum, sol : Datum]
\* A slot with its matrices, vectors, scaling and solution from d.
Loaded(d) == [P |-> d, A |-> d, scale |-> d, zeroed |-> FALSE, vec |-> d, sol |-> d]
\* CachedState::empty; also what a slot holds before any data.
Empty == Loaded(NoDatum)

Problems == 1..MaxBatch
\* The slots the pool can grow to.
PoolLimit == IF NumThreads > MaxBatch THEN NumThreads ELSE MaxBatch
Slots == 1..PoolLimit
\* Problem i works on this slot.
SlotOf(i) == ((i - 1) % Len(pool)) + 1
Here(i) == [call |-> call.id, prob |-> i]

Idle == [op |-> "none", id |-> 0, todo |-> {}, out |-> <<>>, failed |-> FALSE]

\* A call of op on k problems starts.
Begin(op, k) ==
  /\ call.op = "none" /\ calls < MaxCalls
  /\ calls' = calls + 1
  /\ call' = [op |-> op, id |-> calls + 1, todo |-> 1..k,
              out |-> [i \in 1..k |-> Empty], failed |-> FALSE]

\* The task of problem i ends with result r.
Yield(i, r) == call' = [call EXCEPT !.todo = @ \ {i}, !.out[i] = r]

Init ==
  /\ gradEnabled \in BOOLEAN
  /\ pool = [s \in 1..NumThreads |-> Empty]
  /\ precomputed = FALSE /\ batchSize = NumThreads
  /\ base = <<>> /\ cache = <<>>
  /\ call = Idle /\ calls = 0
  /\ forward = 0
  /\ spoiled = [s \in Slots |-> {}]
  /\ infSeen = {}

PoolSize(k) == IF k > Len(pool) THEN k ELSE Len(pool)

\* Mutant of SetupBase: setup_shared clears the list and leaves it empty.
SharedBaseEmpty(shared, data) == IF shared THEN <<>> ELSE data
SetupBase(shared, data) == data

\* What equilibrate_matrices makes of a slot loaded with d: P and A scaled in
\* place by factors computed from them alone.
Equilibrated(slot, d) ==
  [slot EXCEPT !.P = d, !.A = d, !.scale = d, !.zeroed = FALSE]

\* The values problem i of a setup call brings: its own slice of the flat
\* arrays, or with setup_shared those of the first.
Supplied(id, shared, i) == [call |-> id, prob |-> IF shared THEN 1 ELSE i]

\* setup, setup_flat and setup_shared.  Slots beyond the batch keep what
\* they have.
Setup(k, shared) ==
  /\ call.op = "none" /\ calls < MaxCalls
  /\ calls' = calls + 1
  /\ LET data == [i \in 1..k |-> Supplied(calls + 1, shared, i)]
         old(s) == IF s <= Len(pool) THEN pool[s] ELSE Empty
     IN /\ pool' = [s \in 1..PoolSize(k) |->
                      IF s > k THEN old(s) ELSE Equilibrated(old(s), data[s])]
        /\ base' = SetupBase(shared, data)
  /\ precomputed' = TRUE /\ batchSize' = k
  /\ spoiled' = [s \in DOMAIN spoiled |-> IF s <= k THEN {} ELSE spoiled[s]]
  /\ infSeen' = infSeen \ (1..k)
  /\ UNCHANGED <<gradEnabled, cache, call, forward>>

BeginSolve ==
  /\ precomputed
  /\ Begin("solve", batchSize)
  /\ UNCHANGED <<gradEnabled, pool, precomputed, batchSize, base, cache, ghosts>>

\* What sanitize_inf_b finds in b: nothing, rows made vacuous by +inf (inf),
\* an infeasible row (stop), or an infeasible row after vacuous ones (both).
\* Vacuous rows of A are zeroed in place, and no later solve restores them.
BKinds == {"finite", "inf", "stop", "both"}
ZeroesRows(b) == b \in {"inf", "both"}
InfeasibleB(b) == b \in {"stop", "both"}

Solve(i, b) ==
  /\ call.op = "solve" /\ i \in call.todo
  /\ LET old == pool[i]
         new == [old EXCEPT !.P = base[i], !.zeroed = @ \/ ZeroesRows(b),
                            !.vec = Here(i)]
     IN IF InfeasibleB(b)
        THEN pool' = [pool EXCEPT ![i] = new] /\ Yield(i, Empty)
        ELSE /\ pool' = [pool EXCEPT ![i] = [new EXCEPT !.sol = Here(i)]]
             /\ Yield(i, pool'[i])
  /\ infSeen' = IF ZeroesRows(b) THEN infSeen \cup {i} ELSE infSeen
  /\ UNCHANGED <<gradEnabled, precomputed, batchSize, base, cache, calls, forward, spoiled>>

BeginParallel(k) ==
  /\ Begin("parallel", k)
  /\ UNCHANGED <<gradEnabled, pool, precomputed, batchSize, base, cache, ghosts>>

\* solve_batch_parallel brings its own matrices and leaves them in the slot.
Parallel(i) ==
  /\ call.op = "parallel" /\ i \in call.todo
  /\ pool' = [pool EXCEPT ![SlotOf(i)] = Loaded(Here(i))]
  /\ Yield(i, pool'[SlotOf(i)])
  /\ spoiled' = [spoiled EXCEPT ![SlotOf(i)] = @ \cup {"parallel"}]
  /\ UNCHANGED <<gradEnabled, precomputed, batchSize, base, cache, calls, forward, infSeen>>

\* The states the tasks captured become the cache, all at once.
FinishForward ==
  /\ call.op \in {"solve", "parallel"} /\ call.todo = {}
  /\ cache' = IF gradEnabled THEN call.out ELSE cache
  /\ forward' = IF gradEnabled THEN call.id ELSE forward
  /\ call' = Idle
  /\ UNCHANGED <<gradEnabled, pool, precomputed, batchSize, base, calls, spoiled, infSeen>>

BeginBackward ==
  /\ gradEnabled /\ cache # <<>>
  /\ Begin("backward", Len(cache))
  /\ UNCHANGED <<gradEnabled, pool, precomputed, batchSize, base, cache, ghosts>>

\* What backward puts into the slot before differentiating.
\* Mutant of Restored: the solution is left as it is.
RestoredButSolution(slot, cached) == [cached EXCEPT !.sol = slot.sol]
Restored(slot, cached) == cached

\* Differentiate the cached state; the slot keeps it.  err: the derivative
\* solver refuses the upstream gradient.
Backward(i, err) ==
  /\ call.op = "backward" /\ i \in call.todo /\ cache[i] # Empty
  /\ LET s == SlotOf(i)
     IN /\ pool' = [pool EXCEPT ![s] = Restored(@, cache[i])]
        /\ spoiled' = [spoiled EXCEPT ![s] =
                         IF s <= Len(base) /\ cache[i].P = base[s] THEN @ ELSE @ \cup {"stale"}]
        /\ call' = [call EXCEPT !.todo = @ \ {i}, !.failed = @ \/ err,
                                !.out[i] = IF err THEN Empty ELSE pool'[s]]
  /\ UNCHANGED <<gradEnabled, precomputed, batchSize, base, cache, calls, forward, infSeen>>

\* The state of a problem found infeasible in b is empty: copying it into
\* the slot panics, and the panic poisons the slot's mutex.
BackwardPanics ==
  /\ call.op = "backward"
  /\ \E i \in call.todo : cache[i] = Empty
  /\ call' = [call EXCEPT !.op = "panicked"]
  /\ UNCHANGED <<gradEnabled, pool, precomputed, batchSize, base, cache, calls, ghosts>>

BeginWithData(k) ==
  /\ gradEnabled
  /\ Begin("withData", k)
  /\ UNCHANGED <<gradEnabled, pool, precomputed, batchSize, base, cache, ghosts>>

\* What backward_with_data puts back.  Mutant of Saved: not the scaling.
SavedButScaling(slot, loaded) == [slot EXCEPT !.sol = loaded.sol, !.scale = loaded.scale]
Saved(slot, loaded) == [slot EXCEPT !.sol = loaded.sol]

\* backward_with_data loads the caller's data, differentiates, and restores
\* matrices, scaling and vectors: after success only.
WithData(i, err) ==
  /\ call.op = "withData" /\ i \in call.todo
  /\ LET s == SlotOf(i)
         loaded == Loaded(Here(i))
     IN /\ pool' = [pool EXCEPT ![s] = IF err THEN loaded ELSE Saved(@, loaded)]
        /\ spoiled' = [spoiled EXCEPT ![s] = IF err THEN @ \cup {"failed"} ELSE @]
        /\ call' = [call EXCEPT !.todo = @ \ {i}, !.failed = @ \/ err,
                                !.out[i] = IF err THEN Empty ELSE loaded]
  /\ UNCHANGED <<gradEnabled, precomputed, batchSize, base, cache, calls, forward, infSeen>>

\* After an error the tasks that have not started may be skipped.
FinishBackward ==
  /\ call.op \in {"backward", "withData"}
  /\ call.todo = {} \/ call.failed
  /\ call' = Idle
  /\ UNCHANGED <<gradEnabled, pool, precomputed, batchSize, base, cache, calls, ghosts>>

Next ==
  \/ \E k \in Problems : \/ \E shared \in BOOLEAN : Setup(k, shared)
                         \/ BeginParallel(k) \/ BeginWithData(k)
  \/ BeginSolve \/ BeginBackward
  \/ \E i \in Problems :
       \/ \E b \in BKinds : Solve(i, b)
       \/ Parallel(i)
       \/ \E err \in BOOLEAN : Backward(i, err) \/ WithData(i, err)
  \/ BackwardPanics \/ FinishForward \/ FinishBackward

Spec == Init /\ [][Next]_vars

-----------------------------------------------------------------------------
(* Properties.                                                              *)

\* The problems of the running call that have a result.
Answered == {i \in DOMAIN call.out : call.out[i] # Empty}

\* The system solved for problem i is the one setup was given for it.
Consistent(c, i) == c.P = base[i] /\ c.A = base[i] /\ c.scale = base[i]

\* A solve indexes the pool and the equilibrated P of setup, for every
\* problem of its batch (the panic shared_setup_repeated_solve.rs records).
SolveIndexesExist ==
  call.op = "solve" => Len(call.out) <= Len(pool) /\ Len(call.out) <= Len(base)

\* A solve works on matrices and scaling of the last setup, all of one
\* problem, with rows of A missing only if an infinite b asked for it since;
\* backward on current states and successful backward_with_data in between
\* do not disturb this.
SolveUsesSetup ==
  call.op = "solve" =>
    \A i \in Answered : spoiled[i] = {} =>
      /\ Consistent(call.out[i], i)
      /\ call.out[i].zeroed <=> i \in infSeen

\* A gradient is taken at the solution, vectors and matrices of its own
\* problem: of the last forward call for backward, of this call for
\* backward_with_data; whatever slot the problem shares with others.
GradientIsOfItsProblem ==
  \A i \in Answered :
    LET c == call.out[i] IN
    /\ call.op = "backward" =>
         c.vec = [call |-> forward, prob |-> i] /\ c.sol = c.vec /\ c.P = cache[i].P
    /\ call.op = "withData" =>
         c = Loaded(Here(i))
=============================================================================

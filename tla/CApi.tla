-------------------------------- MODULE CApi --------------------------------
(***************************************************************************)
(* The C ABI of moreau-cpu (c_api.rs): a handle around one CompiledSolver. *)
(* Its batch size is fixed when it is created; a call is refused unless    *)
(* the handle is ready for it, and every call reports a code.  A panic in  *)
(* the solver is caught and reported, and the handle stays in the caller's *)
(* hands.                                                                  *)
(*                                                                         *)
(* The object is driven either through the handle ("c") or directly, as    *)
(* the Rust and Python callers do ("rust").  Arguments are right or wrong  *)
(* (NULL, or a count that is neither one problem's nor the batch's); what  *)
(* a wrong count is made of is left out.                                   *)
(***************************************************************************)
EXTENDS CompiledSolver

VARIABLES
  via,     \* who drives the solver: "rust" or "c"
  handle,  \* MoreauSolverInner: batch, isSetup, hasSolution, solutions;
           \* poisoned: a mutex of the solver was held by a task that panicked
  code     \* what the last call returned

hvars == <<via, handle, code>>
cvars == <<vars, hvars>>

Codes == {"OK", "INVALID_ARGUMENT", "NOT_SETUP", "NUMERICAL", "INTERNAL"}

\* moreau_solver_create: the pool has no more workers than problems.
NewHandle(k) ==
  [batch |-> k, isSetup |-> FALSE, hasSolution |-> FALSE, solutions |-> <<>>,
   poisoned |-> FALSE]

CInit ==
  /\ Init
  /\ via \in {"rust", "c"}
  /\ \E k \in Problems : handle = NewHandle(k) /\ (via = "c" => NumThreads <= k)
  /\ code = "OK"

\* The first test that fails decides what a call returns.
FirstOf(tests) ==
  LET failing == {j \in DOMAIN tests : ~tests[j][1]}
  IN IF failing = {} THEN "OK"
     ELSE tests[CHOOSE j \in failing : \A l \in failing : j <= l][2]

SetupCode(argsOk) == FirstOf(<< <<argsOk, "INVALID_ARGUMENT">> >>)
SolveCode(argsOk) ==
  FirstOf(<< <<handle.isSetup, "NOT_SETUP">>, <<argsOk, "INVALID_ARGUMENT">> >>)
BackwardCode(argsOk) ==
  FirstOf(<< <<gradEnabled, "INVALID_ARGUMENT">>, <<handle.hasSolution, "NOT_SETUP">>,
             <<argsOk, "INVALID_ARGUMENT">> >>)
\* moreau_solver_get_solution and moreau_solver_copy_solution.
GetCode(idx) ==
  FirstOf(<< <<handle.hasSolution, "NOT_SETUP">>,
             <<idx \in DOMAIN handle.solutions, "INVALID_ARGUMENT">> >>)

Ready == via = "c" /\ call.op = "none"

\* A refused call, and a query, change nothing but the code.
Refused ==
  /\ Ready
  /\ \E argsOk \in BOOLEAN :
       \E c \in {SetupCode(argsOk), SolveCode(argsOk), BackwardCode(argsOk)} :
         c # "OK" /\ code' = c
  /\ UNCHANGED <<vars, via, handle>>

Get(idx) ==
  /\ Ready
  /\ code' = GetCode(idx)
  /\ UNCHANGED <<vars, via, handle>>

\* Every accepted call of a handle takes the mutex of each slot of the batch,
\* so one poisoned slot makes all of them panic; what such a call did before
\* is never read again.
Panics ==
  /\ Ready /\ handle.poisoned
  /\ code' = "INTERNAL"
  /\ UNCHANGED <<vars, via, handle>>

\* Mutant of AfterSetup: the old solutions stay available.
AfterSetupKeeps(hd) == [hd EXCEPT !.isSetup = TRUE]
AfterSetup(hd) == [hd EXCEPT !.isSetup = TRUE, !.hasSolution = FALSE]

\* moreau_solver_setup: values shared by the batch if both counts are those
\* of one problem, otherwise one list per problem.
CSetup(shared) ==
  /\ Ready /\ ~handle.poisoned
  /\ Setup(handle.batch, shared)
  /\ handle' = AfterSetup(handle) /\ code' = SetupCode(TRUE)
  /\ UNCHANGED via

\* moreau_solver_solve and moreau_solver_solve_warm.
CSolve ==
  /\ Ready /\ ~handle.poisoned
  /\ SolveCode(TRUE) = "OK"
  /\ BeginSolve
  /\ UNCHANGED hvars

\* handle_solve_result.
CSolved ==
  /\ via = "c" /\ call.op = "solve"
  /\ FinishForward
  /\ handle' = [handle EXCEPT !.solutions = call.out, !.hasSolution = TRUE]
  /\ code' = "OK"
  /\ UNCHANGED via

\* moreau_solver_backward.
CBackward ==
  /\ Ready /\ ~handle.poisoned
  /\ BackwardCode(TRUE) = "OK"
  /\ BeginBackward
  /\ UNCHANGED hvars

CBackwardDone ==
  /\ via = "c" /\ call.op = "backward"
  /\ FinishBackward
  /\ code' = IF call.failed THEN "NUMERICAL" ELSE "OK"
  /\ UNCHANGED <<via, handle>>

\* catch_panic: the empty state of an infeasible problem does not fit its slot.
CBackwardPanics ==
  /\ via = "c" /\ call.op = "backward"
  /\ \E i \in call.todo : cache[i] = Empty
  /\ call' = Idle
  /\ handle' = [handle EXCEPT !.poisoned = TRUE] /\ code' = "INTERNAL"
  /\ UNCHANGED <<gradEnabled, pool, precomputed, batchSize, base, cache, calls,
                 ghosts, via>>

\* The tasks of a call, the same whoever made it.
Task(i) ==
  /\ \/ \E b \in BKinds : Solve(i, b)
     \/ \E err \in BOOLEAN : Backward(i, err)
  /\ UNCHANGED hvars

CNext ==
  \/ via = "rust" /\ Next /\ UNCHANGED hvars
  \/ via = "c" /\ \E i \in Problems : Task(i)
  \/ Refused
  \/ \E idx \in Problems : Get(idx)
  \/ \E shared \in BOOLEAN : CSetup(shared)
  \/ Panics
  \/ CSolve \/ CSolved \/ CBackward \/ CBackwardDone \/ CBackwardPanics

CSpec == CInit /\ [][CNext]_cvars

-----------------------------------------------------------------------------
(* Properties.                                                              *)

\* The solutions a handle offers belong to the data of its last setup, and
\* are the ones backward differentiates: clearing has_solution in setup is
\* what keeps a C caller from taking gradients at the states of an earlier
\* setup, which the solver itself would allow.
HandleAgreesWithSolver ==
  (handle.hasSolution /\ ~handle.poisoned) =>
    /\ gradEnabled => cache = handle.solutions
    /\ \A i \in DOMAIN handle.solutions :
         handle.solutions[i] # Empty => Consistent(handle.solutions[i], i)

=============================================================================

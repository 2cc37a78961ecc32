------------------------------ MODULE CpuAdapter ------------------------------
(***************************************************************************)
(* moreau_cpu.Solver (moreau_cpu/_cpu/__init__.py): the object every       *)
(* Python front end drives on the CPU.  It keeps the matrices of the last  *)
(* setup() and two solvers of CompiledSolver's kind, made when first       *)
(* needed: one for a single cold problem, one for everything else, each    *)
(* with a copy of the matrices it was last set up with.                    *)
(*                                                                         *)
(* P and A are one value [form, id, rows]: "shared" by the problems, or    *)
(* one per problem ("batch", 2-D, rows of them).  A result is named by the *)
(* run of the solver that computed it, with the matrices that solver held, *)
(* whether it was warm started, and its status.                            *)
(***************************************************************************)
EXTENDS Integers, Sequences

Forms == {"shared", "batch"}
NoValues == [form |-> "none", id |-> 0, rows |-> 0]
\* Matrices of the caller of a failed backward_with_data_flat.
Foreign == [form |-> "foreign", id |-> 0, rows |-> 0]

\* A CompiledSolver that does not exist yet, and one just made.
NoCore == [made |-> FALSE, mats |-> NoValues, cache |-> <<>>]
NewCore == [NoCore EXCEPT !.made = TRUE]

\* setup, setup_shared and setup_flat of a CompiledSolver; the cache stays.
CoreSetup(core, v) == [core EXCEPT !.mats = v]
\* Results of run r on k problems, with the matrices of the core.
Results(core, r, k, warm, st) ==
  [i \in 1..k |-> [run |-> r, prob |-> i, mats |-> core.mats, warm |-> warm, status |-> st[i]]]
\* solve and solve_flat: the results are kept for backward.
CoreSolve(core, r, k, warm, st) == [core EXCEPT !.cache = Results(core, r, k, warm, st)]

\* The eager construction of Solver.__init__.
NewAdapter(k, hasPattern) ==
  [values |-> NoValues,
   single |-> IF k = 1 /\ hasPattern THEN NewCore ELSE NoCore,
   compiled |-> IF k > 1 THEN NewCore ELSE NoCore,
   cachedSingle |-> NoValues, cachedShared |-> NoValues]

\* setup: 1-D values wait for a solve, which knows the batch size.
AdapterSetup(a, v) ==
  IF a.compiled.made /\ v.form = "batch"
  THEN [a EXCEPT !.values = v, !.compiled = CoreSetup(@, v), !.cachedShared = v]
  ELSE [a EXCEPT !.values = v, !.cachedShared = NoValues]

\* _solve_single: set up unless the matrices are those of the last time.
KnownToSingle(a) == a.single.made /\ a.cachedSingle = a.values
SolveSingle(a, r, st) ==
  LET made == IF a.single.made THEN a.single ELSE NewCore
      ready == IF KnownToSingle(a) THEN made ELSE CoreSetup(made, a.values)
      core == CoreSolve(ready, r, 1, FALSE, st)
  IN [adapter |-> [a EXCEPT !.single = core, !.cachedSingle = a.values],
      results |-> core.cache]

\* _solve_batch: setup_shared or setup_flat unless cached, then solve_flat.
KnownToCompiled(a) == a.compiled.made /\ a.cachedShared = a.values
SolveBatch(a, r, k, warm, st) ==
  LET made == IF a.compiled.made THEN a.compiled ELSE NewCore
      ready == IF KnownToCompiled(a) THEN made ELSE CoreSetup(made, a.values)
      core == CoreSolve(ready, r, k, warm, st)
  IN [adapter |-> [a EXCEPT !.compiled = core, !.cachedShared = a.values],
      results |-> core.cache]

\* solve: oneD says that q and b have no batch dimension.
AdapterSolve(a, oneD, r, k, warm, st) ==
  IF oneD /\ ~warm /\ a.values.form = "shared"
  THEN SolveSingle(a, r, st)
  ELSE SolveBatch(a, r, k, warm, st)

\* Mutant of BackwardCore: the solver of the last warm start or batch first.
BatchCacheFirst(a) == IF a.compiled.cache # <<>> THEN a.compiled ELSE a.single
\* backward: the single solver whenever it has a cache.
BackwardCore(a) == IF a.single.cache # <<>> THEN a.single ELSE a.compiled

\* The solver that computes from the caller's data takes it into its slots.
WithForeign(a, k) ==
  IF k = 1 /\ a.single.made THEN [a EXCEPT !.single.mats = Foreign]
  ELSE IF a.compiled.made THEN [a EXCEPT !.compiled.mats = Foreign]
  ELSE a
\* Mutant of BackwardWithData: the slots are never put back.
BackwardLeavesData(a, k, failed) == WithForeign(a, k)
\* backward_with_data_flat: the slots are put back after success only.
BackwardWithData(a, k, failed) == IF failed THEN WithForeign(a, k) ELSE a
=============================================================================

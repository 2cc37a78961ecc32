---------------------------- MODULE PythonSolvers ----------------------------
(***************************************************************************)
(* moreau.Solver and moreau.CompiledSolver (moreau/__init__.py): a thin     *)
(* shell over the device's solver that retries a failed warm start cold     *)
(* and, in CompiledSolver, benchmarks the configurations on first use.      *)
(***************************************************************************)
EXTENDS Caller

\* The adapter's first solve, and the cold one of the same data after it.
FirstSolve(a, oneD, k, warm, st) == AdapterSolve(a, oneD, runs + 1, k, warm, st)
ColdSolve(first, oneD, k, st) == AdapterSolve(first.adapter, oneD, runs + 2, k, FALSE, st)

\* Solver.__init__: P, A, q and b are the constructor's, and set up at once.
SingleInit ==
  /\ front = "single"
  /\ \E i \in Ids :
       solver = [impl |-> AdapterSetup(NewAdapter(1, TRUE), Shared(i)),
                 k |-> 1, values |-> Shared(i), tuned |-> TRUE]

\* Solver.solve: a retry replaces everything.
SingleSolve ==
  /\ front = "single"
  /\ runs < MaxRuns[front]
  /\ \E warm \in BOOLEAN, st1 \in Outcomes(1) :
       LET first == FirstSolve(solver.impl, TRUE, 1, warm, st1)
           retry == MustRetry(warm, first.results)
       IN \E st2 \in ColdOutcomes(retry, 1) :
            LET last == IF retry THEN ColdSolve(first, TRUE, 1, st2) ELSE first
            IN /\ solver' = [solver EXCEPT !.impl = last.adapter]
               /\ Answers(solver.values, warm, first.results, Returned(last.results))
               /\ runs' = IF retry THEN runs + 2 ELSE runs + 1
               /\ runs' <= MaxRuns[front]
  /\ UNCHANGED <<front, spoiled>>

\* CompiledSolver.__init__; tuned: auto_tune is off.
CompiledInit ==
  /\ front = "compiled"
  /\ \E k \in Batches, tuned \in BOOLEAN :
       solver = [impl |-> NewAdapter(k, FALSE), k |-> k, values |-> NoValues, tuned |-> tuned]

\* CompiledSolver.setup
CompiledSetup ==
  /\ front = "compiled"
  /\ \E v \in ValuesFor(solver.k) :
       solver' = [solver EXCEPT !.values = v, !.impl = AdapterSetup(@, v)]
  /\ UNCHANGED <<front, asked, answer, grad, runs, spoiled>>

\* benchmark_candidates: the fastest of those that solved, if there is one.
Winners == {"none", "candidate"}

\* _auto_tune: no winner keeps the adapter; a winner brings a new one, set up
\* with the values of the last setup().  (A failure on the way changes nothing.)
AutoTuned(s) ==
  IF s.tuned THEN {s}
  ELSE {IF w = "none" THEN [s EXCEPT !.tuned = TRUE]
        ELSE [s EXCEPT !.tuned = TRUE, !.impl = AdapterSetup(NewAdapter(s.k, FALSE), s.values)] :
          w \in Winners}

\* Mutant of Merged: the status of a failed warm start stays.
MergedPoints(first, last) ==
  [i \in DOMAIN first |->
     [point |-> IF i \in ShouldRetryCold(first) THEN last[i] ELSE first[i],
      info |-> first[i], zx |-> first[i]]]
\* The cold results of the failed problems are patched in; z_x is left alone.
Merged(first, last) ==
  [i \in DOMAIN first |->
     LET r == IF i \in ShouldRetryCold(first) THEN last[i] ELSE first[i]
     IN [point |-> r, info |-> r, zx |-> first[i]]]

\* CompiledSolver.solve
CompiledSolve ==
  /\ front = "compiled"
  /\ solver.values # NoValues
  /\ runs < MaxRuns[front]
  /\ \E t \in AutoTuned(solver), warm \in BOOLEAN, st1 \in Outcomes(solver.k) :
       LET first == FirstSolve(t.impl, FALSE, t.k, warm, st1)
           retry == MustRetry(warm, first.results)
       IN \E st2 \in ColdOutcomes(retry, t.k) :
            LET last == IF retry THEN ColdSolve(first, FALSE, t.k, st2) ELSE first
            IN /\ solver' = [t EXCEPT !.impl = last.adapter]
               /\ Answers(t.values, warm, first.results,
                          IF retry THEN Merged(first.results, last.results)
                          ELSE Returned(first.results))
               /\ runs' = IF retry THEN runs + 2 ELSE runs + 1
               /\ runs' <= MaxRuns[front]
  /\ UNCHANGED <<front, spoiled>>

\* backward of both: the status check is on the answer, the rest is the adapter's.
Backward ==
  /\ front \in {"single", "compiled"}
  /\ Differentiable(answer) # {}
  /\ LET cache == BackwardCore(solver.impl).cache
     IN grad' = [i \in DOMAIN cache |-> cache[i]]
  /\ UNCHANGED <<front, solver, asked, answer, runs, spoiled>>

SolversNext == SingleSolve \/ CompiledSetup \/ CompiledSolve \/ Backward
=============================================================================

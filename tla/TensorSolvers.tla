---------------------------- MODULE TensorSolvers ----------------------------
(***************************************************************************)
(* moreau.torch.Solver and moreau.jax.Solver on the CPU.  solve() is given *)
(* P and A on every call; each front end keeps its own note of the          *)
(* matrices its adapters hold, to skip the set up, and backward() works     *)
(* from the data autograd saved.                                            *)
(***************************************************************************)
EXTENDS Caller

(***************************************************************************)
(* torch: one adapter, made anew when the batch size changes, and the       *)
(* cached_shared_P/A of the shared path, an attribute __init__ does not set.*)
(***************************************************************************)
Unset == [form |-> "unset", id |-> 0, rows |-> 0]

TorchInit ==
  /\ front = "torch"
  /\ \E pattern \in BOOLEAN :
       solver = [impl |-> NewAdapter(1, FALSE), size |-> 0, shared |-> Unset, pattern |-> pattern]

\* _create_batch_solver unless there is one of this size.
TorchFor(s, k) ==
  IF s.size = k THEN s
  ELSE [s EXCEPT !.impl = NewAdapter(k, s.pattern), !.size = k]

\* _solve_single, _solve_batch_shared and _solve_batch up to the solve.
TorchReady(s, v, k) ==
  LET t == TorchFor(s, k)
      fresh == IF s.size = k THEN s.shared ELSE NoValues
  IN IF k = 1 \/ v.form = "batch" THEN [t EXCEPT !.impl = AdapterSetup(@, Tiled(v, k))]
     ELSE IF fresh \in {v, Unset} THEN [t EXCEPT !.shared = fresh]
     ELSE [t EXCEPT !.impl = AdapterSetup(@, Tiled(v, k)), !.shared = v]

\* The shared path reads an attribute never set, or solves with an adapter never
\* set up; the exception leaves everything as it was.
TorchRaises(s, v, k) ==
  k > 1 /\ v.form = "shared" /\ (TorchReady(s, v, k).shared = Unset
                                 \/ TorchReady(s, v, k).impl.values = NoValues)

\* A per-problem solve leaves cached_shared behind.
Overwrites(s, v, k) == k > 1 /\ v.form = "batch" /\ s.shared \notin {Unset, NoValues}

\* solve: a retry runs again and replaces everything.
TorchSolve ==
  /\ front = "torch"
  /\ runs < MaxRuns[front]
  /\ \E k \in Batches : \E v \in ValuesFor(k) :
       /\ ~TorchRaises(solver, v, k)
       /\ spoiled' = (spoiled \/ Overwrites(solver, v, k))
       /\ LET ready == TorchReady(solver, v, k)
          IN \E warm \in BOOLEAN, st1 \in Outcomes(k) :
               LET first == AdapterSolve(ready.impl, FALSE, runs + 1, k, warm, st1)
                   retry == MustRetry(warm, first.results)
                   again == TorchReady([ready EXCEPT !.impl = first.adapter], v, k)
               IN \E st2 \in ColdOutcomes(retry, k) :
                    LET last == IF retry
                                THEN AdapterSolve(again.impl, FALSE, runs + 2, k, FALSE, st2)
                                ELSE first
                    IN /\ solver' = [ready EXCEPT !.impl = last.adapter]
                       /\ Answers(v, warm, first.results, Returned(last.results))
                       /\ runs' = IF retry THEN runs + 2 ELSE runs + 1
                       /\ runs' <= MaxRuns[front]
  /\ UNCHANGED front

\* backward_with_mode on a saved graph, or on n of them (vmap, jacrev).
TorchBackward ==
  /\ front = "torch"
  /\ answer # <<>>
  /\ \E n \in Batches, failed \in BOOLEAN :
       LET t == TorchFor(solver, n)
       IN /\ failed => FailedBackward
          /\ solver' = [t EXCEPT !.impl = BackwardWithData(@, n, failed)]
          /\ spoiled' = (spoiled \/ failed)
  /\ UNCHANGED <<front, asked, answer, grad, runs>>

\* reset
TorchReset ==
  /\ front = "torch"
  /\ solver' = [solver EXCEPT !.impl = NewAdapter(1, FALSE), !.size = 0, !.shared = NoValues]
  /\ UNCHANGED <<front, asked, answer, grad, runs, spoiled>>

(***************************************************************************)
(* JAX: an adapter per batch size, the bytes of P and A last set up in it,  *)
(* and the warm start, left in a field for the callback to find.            *)
(***************************************************************************)
NoAdapter == NewAdapter(1, FALSE)
NoBytes == NoValues

JaxInit ==
  /\ front = "jax"
  /\ \E pattern \in BOOLEAN :
       solver = [made |-> {}, impls |-> [k \in Batches |-> NoAdapter],
                 cached |-> [k \in Batches |-> NoBytes], pending |-> 0, pattern |-> pattern]

\* _get_or_create_solver
JaxFor(s, k) ==
  IF k \in s.made THEN s
  ELSE [s EXCEPT !.made = @ \cup {k}, !.impls[k] = NewAdapter(k, s.pattern)]

\* tobytes: a row and a vector of one problem are the same bytes.
Bytes(v, k) == IF k = 1 THEN Tiled(v, 1) ELSE v

\* _solve_cpu_callback up to the solve; oneD: q has no batch dimension.
JaxReady(s, v, k, oneD) ==
  LET t == JaxFor(s, k)
  IN IF t.cached[k] = Bytes(v, k) THEN t
     ELSE [t EXCEPT !.impls[k] = AdapterSetup(@, IF oneD THEN Tiled(v, 1) ELSE v),
                    !.cached[k] = Bytes(v, k)]

JaxRun(s, v, k, oneD, r, warm, st) ==
  LET t == JaxReady(s, v, k, oneD)
      run == AdapterSolve(t.impls[k], FALSE, r, k, warm, st)
  IN [solver |-> [t EXCEPT !.impls[k] = run.adapter], results |-> run.results]

\* Whether the callback finds a warm start: one of this call only if it runs
\* before solve() clears the field, which the dispatch does not wait for; in
\* a cold call, the one a call that raised left behind.
FindsWarm(warm, k) == IF warm THEN BOOLEAN ELSE {solver.pending = k}

\* solve; a warm start of a batch raises after the run, where the status of
\* the batch is converted to an int.
JaxSolve ==
  /\ front = "jax"
  /\ runs < MaxRuns[front]
  /\ \E k \in Batches, warm \in BOOLEAN, oneD \in BOOLEAN :
       /\ oneD => k = 1
       /\ ~warm => solver.pending \in {0, k}
       /\ \E v \in ValuesFor(k), found \in FindsWarm(warm, k), st1 \in Outcomes(k) :
            LET first == JaxRun(solver, v, k, oneD, runs + 1, found, st1)
                raises == warm /\ k > 1
                retry == ~raises /\ MustRetry(warm, first.results)
            IN /\ oneD => v.form = "shared"
               /\ \E st2 \in ColdOutcomes(retry, k) :
                    LET last == IF retry
                                THEN JaxRun(first.solver, v, k, oneD, runs + 2, FALSE, st2)
                                ELSE first
                    IN /\ solver' = [last.solver EXCEPT !.pending = IF warm THEN 0 ELSE @]
                       /\ runs' = IF retry THEN runs + 2 ELSE runs + 1
                       /\ runs' <= MaxRuns[front]
                       /\ IF raises THEN UNCHANGED <<asked, answer, grad>>
                          ELSE Answers(v, warm, first.results, Returned(last.results))
  /\ UNCHANGED <<front, spoiled>>

\* The callback refuses its arrays: a warm start stays if it raises in time.
JaxRefused ==
  /\ front = "jax"
  /\ \E k \in Batches, left \in BOOLEAN :
       solver' = [solver EXCEPT !.pending = IF left THEN k ELSE 0]
  /\ UNCHANGED <<front, asked, answer, grad, runs, spoiled>>

\* _backward_cpu_callback: the bytes are forgotten, after success only.
JaxBackward ==
  /\ front = "jax"
  /\ answer # <<>>
  /\ \E n \in Batches, failed \in BOOLEAN :
       LET t == JaxFor(solver, n)
           u == [t EXCEPT !.impls[n] = BackwardWithData(@, n, failed)]
       IN /\ failed => FailedBackward
          /\ solver' = IF failed THEN u ELSE [u EXCEPT !.cached[n] = NoBytes]
          /\ spoiled' = (spoiled \/ failed)
  /\ UNCHANGED <<front, asked, answer, grad, runs>>

TensorNext ==
  TorchSolve \/ TorchBackward \/ TorchReset
  \/ JaxSolve \/ JaxRefused \/ JaxBackward
=============================================================================

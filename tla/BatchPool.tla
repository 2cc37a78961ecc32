------------------------------ MODULE BatchPool ------------------------------
(***************************************************************************)
(* How the problems of one batch share workers and locks: the parallel     *)
(* sections of CompiledSolver (compiled_solver.rs) on a rayon pool.        *)
(*                                                                         *)
(* A task locks its solver slot and, in a backward call, one of the        *)
(* gradient states, factorizes a KKT system, and lets go.  With the        *)
(* direct solve method "faer-nt" the factorization itself forks work onto  *)
(* the same pool (faer_ldl.rs).  Rayon is external: a worker whose forked  *)
(* half was stolen does not sleep but takes other work of the pool,        *)
(* holding the locks it has.                                               *)
(***************************************************************************)
EXTENDS Integers, Sequences

CONSTANTS
  Workers,   \* threads of the pool
  MaxTasks,  \* bound on the problems of the batch
  NumSlots,  \* solver_pool.len()
  NumGrads,  \* grad_states.len() = num_threads
  Nobody     \* owner of a free lock

ASSUME BatchAssumption ==
  MaxTasks \in Nat \ {0} /\ NumSlots \in Nat \ {0} /\ NumGrads \in Nat \ {0} /\ Nobody \notin Workers

VARIABLES
  method,     \* "faer-1t" (also "auto", "qdldl", and "faer-nt" with
              \* max_threads = 1) or "faer-nt"
  backward,   \* whether tasks lock a gradient state
  size,       \* problems of the batch; solve() needs size <= NumSlots,
              \* solve_batch_parallel() and the backward calls do not
  pending,    \* tasks no worker has taken
  finished,   \* tasks that are done
  stack,      \* per worker: [task, at], the innermost activity last
  slotOwner, gradOwner,
  open,       \* tasks with a forked half nobody has taken yet
  joined      \* tasks whose stolen half is done

vars == <<method, backward, size, pending, finished, stack, slotOwner, gradOwner, open, joined>>

Tasks == 1..size
SlotOf(t) == (t - 1) % NumSlots
GradOf(t) == SlotOf(t) % NumGrads

\* Mutant of Threaded: every method forks.
AlwaysThreaded == TRUE
\* Batch mode turns "auto" into the single-threaded method.
Threaded == method = "faer-nt"

\* Mutant of FirstLock: some tasks take the gradient state first.
SwappedOrder(t) == IF backward /\ t % 2 = 0 THEN "grad" ELSE "slot"
FirstLock(t) == "slot"

Init ==
  /\ method \in {"faer-1t", "faer-nt"} /\ backward \in BOOLEAN
  /\ size \in 1..MaxTasks /\ pending = 1..size /\ finished = {}
  /\ stack = [w \in Workers |-> <<>>]
  /\ slotOwner = [s \in 0..(NumSlots - 1) |-> Nobody]
  /\ gradOwner = [g \in 0..(NumGrads - 1) |-> Nobody]
  /\ open = {} /\ joined = {}

At(w, place) == stack[w] # <<>> /\ stack[w][Len(stack[w])].at = place
Task(w) == stack[w][Len(stack[w])].task
Push(w, t, place) == stack' = [stack EXCEPT ![w] = Append(@, [task |-> t, at |-> place])]
Move(w, place) == stack' = [stack EXCEPT ![w][Len(stack[w])].at = place]
Pop(w) == stack' = [stack EXCEPT ![w] = SubSeq(@, 1, Len(@) - 1)]

\* A worker looks for work when it has none or waits for a stolen half.
LooksForWork(w) == stack[w] = <<>> \/ At(w, "waiting")

Take(w) ==
  /\ LooksForWork(w)
  /\ \E t \in pending : Push(w, t, FirstLock(t)) /\ pending' = pending \ {t}
  /\ UNCHANGED <<method, backward, size, finished, slotOwner, gradOwner, open, joined>>

Steal(w) ==
  /\ LooksForWork(w)
  /\ \E t \in open : Push(w, t, "half") /\ open' = open \ {t}
  /\ UNCHANGED <<method, backward, size, pending, finished, slotOwner, gradOwner, joined>>

\* Where a task goes with these locks.
AfterLock(hasSlot, hasGrad) ==
  IF ~hasSlot THEN "slot" ELSE IF backward /\ ~hasGrad THEN "grad" ELSE "ready"

LockSlot(w) ==
  /\ At(w, "slot") /\ slotOwner[SlotOf(Task(w))] = Nobody
  /\ slotOwner' = [slotOwner EXCEPT ![SlotOf(Task(w))] = w]
  /\ Move(w, AfterLock(TRUE, FirstLock(Task(w)) = "grad"))
  /\ UNCHANGED <<method, backward, size, pending, finished, gradOwner, open, joined>>

LockGrad(w) ==
  /\ At(w, "grad") /\ gradOwner[GradOf(Task(w))] = Nobody
  /\ gradOwner' = [gradOwner EXCEPT ![GradOf(Task(w))] = w]
  /\ Move(w, AfterLock(FirstLock(Task(w)) = "slot", TRUE))
  /\ UNCHANGED <<method, backward, size, pending, finished, slotOwner, open, joined>>

\* A threaded factorization offers one half to the pool.
Fork(w) ==
  /\ Threaded /\ At(w, "ready")
  /\ Move(w, "forked") /\ open' = open \cup {Task(w)}
  /\ UNCHANGED <<method, backward, size, pending, finished, slotOwner, gradOwner, joined>>

\* Nobody took it: the worker computes it itself.
TakeBack(w) ==
  /\ At(w, "forked") /\ Task(w) \in open
  /\ Move(w, "last") /\ open' = open \ {Task(w)}
  /\ UNCHANGED <<method, backward, size, pending, finished, slotOwner, gradOwner, joined>>

\* It was stolen: the worker looks for other work meanwhile.
Wait(w) ==
  /\ At(w, "forked") /\ Task(w) \notin open
  /\ Move(w, "waiting")
  /\ UNCHANGED <<method, backward, size, pending, finished, slotOwner, gradOwner, open, joined>>

FinishHalf(w) ==
  /\ At(w, "half")
  /\ Pop(w) /\ joined' = joined \cup {Task(w)}
  /\ UNCHANGED <<method, backward, size, pending, finished, slotOwner, gradOwner, open>>

Join(w) ==
  /\ At(w, "waiting") /\ Task(w) \in joined
  /\ Move(w, "last")
  /\ UNCHANGED <<method, backward, size, pending, finished, slotOwner, gradOwner, open, joined>>

\* The task is done and its guards are dropped.
Finish(w) ==
  /\ At(w, "last") \/ (At(w, "ready") /\ ~Threaded)
  /\ Pop(w) /\ finished' = finished \cup {Task(w)}
  /\ slotOwner' = [slotOwner EXCEPT ![SlotOf(Task(w))] = Nobody]
  /\ gradOwner' = IF backward THEN [gradOwner EXCEPT ![GradOf(Task(w))] = Nobody] ELSE gradOwner
  /\ UNCHANGED <<method, backward, size, pending, open, joined>>

Worker(w) ==
  \/ Take(w) \/ Steal(w) \/ LockSlot(w) \/ LockGrad(w) \/ Fork(w) \/ TakeBack(w)
  \/ Wait(w) \/ FinishHalf(w) \/ Join(w) \/ Finish(w)

Next == \E w \in Workers : Worker(w)

\* A worker that can go on does.
Spec == Init /\ [][Next]_vars /\ \A w \in Workers : WF_vars(Worker(w))

-----------------------------------------------------------------------------
\* The worker waits for a lock that it holds itself, further down its stack.
SelfWait(w) ==
  \/ (At(w, "slot") /\ slotOwner[SlotOf(Task(w))] = w)
  \/ (At(w, "grad") /\ gradOwner[GradOf(Task(w))] = w)

\* No two tasks of the batch use the same slot or the same gradient state.
PrivateLocks ==
  /\ size <= NumSlots
  /\ backward => size <= NumGrads

\* A single-threaded factorization keeps a task on its worker until it drops
\* its locks, so no worker ever waits for itself; nor does any when every
\* task has locks of its own.
SequentialNeverSelfWaits ==
  (method = "faer-1t" \/ PrivateLocks) => \A w \in Workers : ~SelfWait(w)

\* Under the same condition every problem of the batch is answered, although
\* tasks block on slots and gradient states they share.
SequentialBatchReturns ==
  (method = "faer-1t" \/ PrivateLocks) ~> (finished = Tasks)

\* compiled_solver.rs: one gradient state per thread is enough for an
\* "efficient backward pass": with any method no worker needs two.
OneGradStatePerThread == \A w \in Workers : ~SelfWait(w)

=============================================================================

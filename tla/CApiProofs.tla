------------------------------ MODULE CApiProofs ------------------------------
(***************************************************************************)
(* The batch solver behind its C handle: what CompiledSolverProofs shows of*)
(* the solver also holds when a handle drives it, and the handle agrees    *)
(* with the solver.                                                        *)
(*                                                                         *)
(* A handle never makes a slot diverge from the last setup: it has neither *)
(* solve_batch_parallel nor backward_with_data, and it offers backward     *)
(* only for solutions of that setup.  HandleInv records this next to the   *)
(* agreement itself.                                                       *)
(***************************************************************************)
EXTENDS CApi, CompiledSolverProofs

HandleType == [batch : Problems, isSetup : BOOLEAN, hasSolution : BOOLEAN,
               solutions : Seq(Contents), poisoned : BOOLEAN]

HandleInv ==
  /\ handle \in HandleType
  /\ via = "rust" => ~handle.hasSolution
  /\ via = "c" => /\ call.op \in {"none", "solve", "backward"}
                  /\ \A s \in Slots : spoiled[s] = {}
                  /\ call.op = "backward" => /\ handle.hasSolution /\ ~handle.poisoned
                                             /\ gradEnabled
  /\ handle.hasSolution => Len(handle.solutions) = Len(base)

CInv == IInv /\ HandleInv /\ HandleAgreesWithSolver

-----------------------------------------------------------------------------
\* What a step leaves alone decides whether the handle still agrees.
LEMMA HandleKept ==
  ASSUME CInv, UNCHANGED <<via, handle, gradEnabled, cache, base>>,
         via = "c" => /\ call'.op \in {"none", "solve", "backward"}
                      /\ \A s \in Slots : spoiled'[s] = {}
                      /\ call'.op = "backward" => /\ handle.hasSolution /\ ~handle.poisoned
                                                  /\ gradEnabled
  PROVE  HandleInv' /\ HandleAgreesWithSolver'
BY DEF CInv, HandleInv, HandleAgreesWithSolver, Consistent

LEMMA CInitInv == CInit => CInv
<1> SUFFICES ASSUME CInit PROVE CInv
  OBVIOUS
<1>1. IInv
  BY InitInv DEF CInit
<1>2. PICK k \in Problems : handle = NewHandle(k)
  BY DEF CInit
<1>3. <<>> \in Seq(Contents)
  BY EmptySeq
<1>4. handle \in HandleType /\ ~handle.hasSolution
  BY <1>2, <1>3 DEF NewHandle, HandleType
<1>5. call.op = "none" /\ \A s \in Slots : spoiled[s] = {}
  BY DEF CInit, Init, Idle
<1> QED BY <1>1, <1>4, <1>5 DEF CInv, HandleInv, HandleAgreesWithSolver

\* Direct callers have no handle's solutions to disturb.
LEMMA RustStep ==
  ASSUME CInv, via = "rust", Next, UNCHANGED hvars
  PROVE  CInv'
<1>1. IInv'
  BY NextStep DEF CInv
<1>2. UNCHANGED <<via, handle>>
  BY DEF hvars
<1> QED BY <1>1, <1>2 DEF CInv, HandleInv, HandleAgreesWithSolver

LEMMA CSetupStep ==
  ASSUME CInv, NEW shared \in BOOLEAN, CSetup(shared)
  PROVE  CInv'
<1>1. /\ Setup(handle.batch, shared) /\ via = "c" /\ call.op = "none"
      /\ handle' = AfterSetup(handle) /\ via' = via
  BY DEF CSetup, Ready
<1>2. IInv /\ HandleInv /\ handle.batch \in Problems
  BY DEF CInv, HandleInv, HandleType
<1>3. IInv'
  BY <1>1, <1>2, SetupStep
<1>4. handle' \in HandleType /\ ~handle'.hasSolution
  BY <1>1, <1>2 DEF HandleInv, HandleType, AfterSetup
<1>5. call' = call /\ spoiled' = [s \in DOMAIN spoiled |-> IF s <= handle.batch THEN {} ELSE spoiled[s]]
  BY <1>1 DEF Setup
<1>6. \A s \in Slots : spoiled'[s] = {}
  BY <1>1, <1>2, <1>5 DEF HandleInv, IInv, TypeInv
<1> QED BY <1>1, <1>3, <1>4, <1>5, <1>6 DEF CInv, HandleInv, HandleAgreesWithSolver

LEMMA CSolveStep ==
  ASSUME CInv, CSolve
  PROVE  CInv'
<1>1. BeginSolve /\ via = "c" /\ UNCHANGED hvars
  BY DEF CSolve, Ready
<1>2. Next
  BY <1>1 DEF Next
<1>3. IInv'
  BY <1>2, NextStep DEF CInv
<1>4. call'.op = "solve" /\ UNCHANGED <<via, handle, gradEnabled, cache, base, spoiled>>
  BY <1>1 DEF BeginSolve, Begin, hvars, ghosts
<1>5. HandleInv' /\ HandleAgreesWithSolver'
  BY <1>1, <1>4, HandleKept DEF CInv, HandleInv
<1> QED BY <1>3, <1>5 DEF CInv

\* The solutions a handle takes over are those the cache receives, each of the
\* present setup because no slot has been replaced.
LEMMA CSolvedStep ==
  ASSUME CInv, CSolved
  PROVE  CInv'
<1>1. /\ via = "c" /\ via' = via /\ call.op = "solve" /\ FinishForward
      /\ handle' = [handle EXCEPT !.solutions = call.out, !.hasSolution = TRUE]
  BY DEF CSolved
<1>2. Next
  BY <1>1 DEF Next
<1>3. IInv /\ IInv' /\ HandleInv
  BY <1>2, NextStep DEF CInv
<1>4. /\ cache' = IF gradEnabled THEN call.out ELSE cache
      /\ call' = Idle /\ UNCHANGED <<gradEnabled, base, spoiled>>
  BY <1>1 DEF FinishForward
<1>5. call.out \in Seq(Contents) /\ Len(call.out) = Len(base)
  BY <1>1, <1>3 DEF IInv, TypeInv, CallType, CallInv
<1>6. handle' \in HandleType /\ handle'.solutions = call.out
  BY <1>1, <1>3, <1>5 DEF HandleInv, HandleType
<1>7. \A i \in DOMAIN call.out : call.out[i] # Empty => Consistent(call.out[i], i)
  <2> SUFFICES ASSUME NEW i \in DOMAIN call.out, call.out[i] # Empty
               PROVE  Consistent(call.out[i], i)
    OBVIOUS
  <2>1. i \in Answered
    BY DEF Answered
  <2>2. i \in Slots
    <3>1. i \in 1..MaxBatch /\ PoolLimit >= MaxBatch /\ PoolLimit \in Nat
      BY <1>3, Bounds DEF IInv, Problems
    <3> QED BY <3>1, PoolAssumption DEF Slots
  <2>3. spoiled[i] = {}
    BY <1>1, <1>3, <2>2 DEF HandleInv
  <2> QED BY <1>1, <1>3, <2>1, <2>3 DEF IInv, OutInv, Good, Consistent
<1>8. HandleInv'
  BY <1>1, <1>3, <1>4, <1>5, <1>6 DEF HandleInv, Idle
<1>9. HandleAgreesWithSolver'
  BY <1>4, <1>6, <1>7 DEF HandleAgreesWithSolver, Consistent
<1> QED BY <1>3, <1>8, <1>9 DEF CInv

LEMMA CBackwardStep ==
  ASSUME CInv, CBackward
  PROVE  CInv'
<1>1. /\ BeginBackward /\ via = "c" /\ UNCHANGED hvars
      /\ ~handle.poisoned /\ BackwardCode(TRUE) = "OK" /\ gradEnabled
  BY DEF CBackward, Ready, BeginBackward
<1>2. handle.hasSolution
  <2> SUFFICES ASSUME ~handle.hasSolution PROVE FALSE
    OBVIOUS
  <2> DEFINE tests == << <<gradEnabled, "INVALID_ARGUMENT">>, <<handle.hasSolution, "NOT_SETUP">>,
                         <<TRUE, "INVALID_ARGUMENT">> >>
             failing == {j \in DOMAIN tests : ~tests[j][1]}
  <2>1. DOMAIN tests = 1..3
    OBVIOUS
  <2>2. \A j \in 1..3 : tests[j][2] # "OK"
    OBVIOUS
  <2>3. tests[1][1] /\ ~tests[2][1]
    BY <1>1
  <2> HIDE DEF tests
  <2>4. 2 \in failing /\ \A l \in failing : 2 <= l
    BY <2>1, <2>3
  <2>5. (CHOOSE j \in failing : \A l \in failing : j <= l) \in 1..3
    BY <2>1, <2>4
  <2>6. FirstOf(tests) = tests[CHOOSE j \in failing : \A l \in failing : j <= l][2]
    BY <2>4 DEF FirstOf
  <2>7. FirstOf(tests) # "OK"
    BY <2>2, <2>5, <2>6
  <2> QED BY <1>1, <2>7 DEF BackwardCode, tests
<1>3. Next
  BY <1>1 DEF Next
<1>4. IInv'
  BY <1>3, NextStep DEF CInv
<1>5. call'.op = "backward" /\ UNCHANGED <<via, handle, gradEnabled, cache, base, spoiled>>
  BY <1>1 DEF BeginBackward, Begin, hvars, ghosts
<1>6. HandleInv' /\ HandleAgreesWithSolver'
  BY <1>1, <1>2, <1>5, HandleKept DEF CInv, HandleInv
<1> QED BY <1>4, <1>6 DEF CInv

\* Backward leaves the slots as the last setup made them: the state it copies
\* into a slot is one the handle offers.
LEMMA TaskStep ==
  ASSUME CInv, via = "c", NEW i \in Problems, Task(i)
  PROVE  CInv'
<1>1. UNCHANGED <<via, handle>> /\ IInv /\ HandleInv
  BY DEF Task, hvars, CInv
<1>2. CASE \E b \in BKinds : Solve(i, b)
  <2>1. PICK b \in BKinds : Solve(i, b)
    BY <1>2
  <2>2. IInv'
    BY <1>1, <2>1, SolveStep
  <2>3. call.op = "solve" /\ i \in call.todo /\ UNCHANGED <<gradEnabled, cache, base, spoiled>>
    BY <2>1 DEF Solve
  <2>4. PICK r : Yield(i, r)
    BY <2>1 DEF Solve
  <2>5. call'.op = "solve"
    BY <1>1, <2>3, <2>4 DEF Yield, IInv, TypeInv, CallType
  <2>6. HandleInv' /\ HandleAgreesWithSolver'
    BY <1>1, <2>3, <2>5, HandleKept DEF HandleInv
  <2> QED BY <2>2, <2>6 DEF CInv
<1>3. CASE \E err \in BOOLEAN : Backward(i, err)
  <2> DEFINE s == SlotOf(i)
  <2>1. PICK err \in BOOLEAN : Backward(i, err)
    BY <1>3
  <2>2. IInv'
    BY <1>1, <2>1, BackwardStep
  <2>3. /\ call.op = "backward" /\ i \in call.todo /\ cache[i] # Empty
        /\ UNCHANGED <<gradEnabled, cache, base>>
        /\ spoiled' = [spoiled EXCEPT ![s] =
                         IF s <= Len(base) /\ cache[i].P = base[s] THEN @ ELSE @ \cup {"stale"}]
    BY <2>1 DEF Backward
  <2>4. /\ handle.hasSolution /\ ~handle.poisoned /\ gradEnabled
        /\ cache = handle.solutions /\ Len(cache) = Len(base)
    BY <1>1, <2>3 DEF HandleInv, CInv, HandleAgreesWithSolver
  <2>5. i \in DOMAIN cache
    BY <1>1, <2>3, Bounds DEF IInv, CallInv, TypeInv
  <2>6. i \in Nat \ {0} /\ i <= Len(base) /\ i <= Len(pool)
    BY <1>1, <2>4, <2>5, Bounds DEF IInv, BaseInv, Problems
  <2>7. s = i
    BY <1>1, <2>6, SlotOfProblem DEF IInv
  <2>8. cache[i].P = base[i]
    BY <2>3, <2>4, <2>5 DEF CInv, HandleAgreesWithSolver, Consistent
  <2> HIDE DEF s
  <2>9. spoiled' = spoiled
    BY <1>1, <2>3, <2>6, <2>7, <2>8 DEF IInv, TypeInv
  <2>10. call'.op = "backward"
    BY <1>1, <2>1, <2>3 DEF Backward, IInv, TypeInv, CallType
  <2>11. HandleInv' /\ HandleAgreesWithSolver'
    BY <1>1, <2>3, <2>4, <2>9, <2>10, HandleKept DEF HandleInv
  <2> QED BY <2>2, <2>11 DEF CInv
<1> QED BY <1>2, <1>3 DEF Task

LEMMA CBackwardDoneStep ==
  ASSUME CInv, CBackwardDone
  PROVE  CInv'
<1>1. FinishBackward /\ via = "c" /\ UNCHANGED <<via, handle>>
  BY DEF CBackwardDone
<1>2. Next
  BY <1>1 DEF Next
<1>3. IInv'
  BY <1>2, NextStep DEF CInv
<1>4. call' = Idle /\ UNCHANGED <<gradEnabled, cache, base, spoiled>>
  BY <1>1 DEF FinishBackward, ghosts
<1>5. HandleInv' /\ HandleAgreesWithSolver'
  BY <1>1, <1>4, HandleKept DEF CInv, HandleInv, Idle
<1> QED BY <1>3, <1>5 DEF CInv

LEMMA CBackwardPanicsStep ==
  ASSUME CInv, CBackwardPanics
  PROVE  CInv'
<1>1. /\ via = "c" /\ via' = via /\ call.op = "backward" /\ call' = Idle
      /\ handle' = [handle EXCEPT !.poisoned = TRUE]
      /\ UNCHANGED <<gradEnabled, pool, precomputed, batchSize, base, cache, calls, ghosts>>
  BY DEF CBackwardPanics
<1>2. IInv'
  BY <1>1, CallDropped DEF CInv
<1>3. handle' \in HandleType /\ handle'.poisoned /\ handle'.hasSolution = handle.hasSolution
      /\ handle'.solutions = handle.solutions
  BY <1>1 DEF CInv, HandleInv, HandleType
<1>4. HandleInv'
  BY <1>1, <1>3 DEF CInv, HandleInv, Idle, ghosts
<1> QED BY <1>2, <1>3, <1>4 DEF CInv, HandleAgreesWithSolver

\* Queries, refusals and repeated panics only set the code.
LEMMA QuietStep ==
  ASSUME CInv, UNCHANGED <<vars, via, handle>>
  PROVE  CInv'
<1>1. IInv'
  BY Unchanged DEF CInv
<1>2. HandleInv' /\ HandleAgreesWithSolver'
  BY DEF CInv, HandleInv, HandleAgreesWithSolver, Consistent, vars, ghosts
<1> QED BY <1>1, <1>2 DEF CInv

\* However calls through the handle or around it are ordered, the solver's
\* invariant and the handle's hold.
THEOREM HandleInductive == CSpec => []CInv
<1>1. CInv /\ [CNext]_cvars => CInv'
  <2> SUFFICES ASSUME CInv, [CNext]_cvars PROVE CInv'
    OBVIOUS
  <2>1. CASE via = "rust" /\ Next /\ UNCHANGED hvars
    BY <2>1, RustStep
  <2>2. CASE via = "c" /\ \E i \in Problems : Task(i)
    BY <2>2, TaskStep
  <2>3. CASE Refused
    BY <2>3, QuietStep DEF Refused
  <2>4. CASE \E idx \in Problems : Get(idx)
    BY <2>4, QuietStep DEF Get
  <2>5. CASE \E shared \in BOOLEAN : CSetup(shared)
    BY <2>5, CSetupStep
  <2>6. CASE Panics
    BY <2>6, QuietStep DEF Panics
  <2>7. CASE CSolve
    BY <2>7, CSolveStep
  <2>8. CASE CSolved
    BY <2>8, CSolvedStep
  <2>9. CASE CBackward
    BY <2>9, CBackwardStep
  <2>10. CASE CBackwardDone
    BY <2>10, CBackwardDoneStep
  <2>11. CASE CBackwardPanics
    BY <2>11, CBackwardPanicsStep
  <2>12. CASE UNCHANGED cvars
    BY <2>12, QuietStep DEF cvars, hvars
  <2> QED BY <2>1, <2>2, <2>3, <2>4, <2>5, <2>6, <2>7, <2>8, <2>9, <2>10, <2>11, <2>12 DEF CNext
<1> QED BY CInitInv, <1>1, PTL DEF CSpec

\* The solutions a C caller can read are the ones backward would use and belong
\* to the last setup.
THEOREM HandleAgrees == CSpec => []HandleAgreesWithSolver
<1>1. CInv => HandleAgreesWithSolver
  BY DEF CInv
<1> QED BY HandleInductive, <1>1, PTL

\* A solve made through the handle works on the data of the last setup: here
\* no slot is ever recorded as replaced.
THEOREM HandleSolvesSetup ==
  CSpec => [](SolveUsesSetup /\ (via = "c" => \A s \in Slots : spoiled[s] = {}))
<1>1. CInv => SolveUsesSetup
  BY DEF CInv, IInv, OutInv, SolveUsesSetup, Consistent, Good
<1>2. CInv => (via = "c" => \A s \in Slots : spoiled[s] = {})
  BY DEF CInv, HandleInv
<1> QED BY HandleInductive, <1>1, <1>2, PTL
=============================================================================

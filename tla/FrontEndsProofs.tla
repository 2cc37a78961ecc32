--------------------------- MODULE FrontEndsProofs ---------------------------
(***************************************************************************)
(* The front ends for any contents, any batch size and any number of runs. *)
(*                                                                         *)
(* Three levels of caching decide whether matrices are handed on: a solver *)
(* of the adapter, the adapter itself, and torch or JAX above it.  The     *)
(* invariant says of each note "these are loaded" that it is true, as long *)
(* as nothing has spoiled it, and of the caches backward() reads whose     *)
(* results they hold.                                                      *)
(***************************************************************************)
EXTENDS FrontEnds, TLAPS

ValueSet == [form : {"none", "foreign", "unset", "shared", "batch"},
             id : Ids \cup {0}, rows : Nat]
ResultSet == [run : Nat, prob : Nat, mats : ValueSet, warm : BOOLEAN, status : Statuses]
CoreSet == [made : BOOLEAN, mats : ValueSet, cache : Seq(ResultSet)]
AdapterSet == [values : ValueSet, single : CoreSet, compiled : CoreSet,
               cachedSingle : ValueSet, cachedShared : ValueSet]

\* A note that matrices are loaded in a solver is true.
Coherent(a) ==
  /\ a.cachedSingle # NoValues => a.single.mats = a.cachedSingle
  /\ a.cachedShared # NoValues => a.compiled.mats = a.cachedShared

-----------------------------------------------------------------------------
LEMMA ValueFacts ==
  /\ NoValues \in ValueSet /\ Foreign \in ValueSet /\ Unset \in ValueSet
  /\ \A i \in Ids : Shared(i) \in ValueSet /\ Shared(i).id = i /\ Shared(i).form = "shared"
  /\ \A i \in Ids, k \in Nat : /\ PerProblem(i, k) \in ValueSet /\ PerProblem(i, k).id = i
                               /\ PerProblem(i, k).form = "batch"
  /\ NoValues.form = "none" /\ Unset.form = "unset"
BY DEF NoValues, Foreign, Unset, Shared, PerProblem, ValueSet

LEMMA PassedFacts ==
  ASSUME CallerAssumption, NEW k \in Batches, NEW v \in ValuesFor(k)
  PROVE  /\ k \in Nat /\ k >= 1
         /\ v \in ValueSet /\ v.form \in Forms /\ v.id \in Ids
         /\ \A n \in Nat : /\ Tiled(v, n) \in ValueSet /\ Tiled(v, n).id = v.id
                           /\ Tiled(v, n).form = "batch"
BY ValueFacts DEF CallerAssumption, Batches, ValuesFor, Tiled, Forms

LEMMA NewCoreFacts == NoCore \in CoreSet /\ NewCore \in CoreSet /\ NoCore.cache = <<>>
<1>1. <<>> \in Seq(ResultSet)
  OBVIOUS
<1> QED BY <1>1, ValueFacts DEF NoCore, NewCore, CoreSet

\* A new adapter has no matrices and claims none.
LEMMA NewAdapterFacts ==
  ASSUME NEW k \in Nat, NEW p \in BOOLEAN
  PROVE  /\ NewAdapter(k, p) \in AdapterSet /\ Coherent(NewAdapter(k, p))
         /\ NewAdapter(k, p).values = NoValues
         /\ ~p => NewAdapter(k, p).single.cache = <<>>
BY NewCoreFacts, ValueFacts DEF NewAdapter, AdapterSet, Coherent

\* setup() takes the values and keeps every note true.
LEMMA SetupFacts ==
  ASSUME NEW a \in AdapterSet, NEW v \in ValueSet
  PROVE  /\ AdapterSetup(a, v) \in AdapterSet
         /\ AdapterSetup(a, v).values = v
         /\ AdapterSetup(a, v).single = a.single
         /\ AdapterSetup(a, v).compiled.cache = a.compiled.cache
         /\ Coherent(a) => Coherent(AdapterSetup(a, v))
<1>1. CASE a.compiled.made /\ v.form = "batch"
  BY <1>1, ValueFacts DEF AdapterSetup, CoreSetup, AdapterSet, CoreSet, Coherent
<1>2. CASE ~(a.compiled.made /\ v.form = "batch")
  BY <1>2, ValueFacts DEF AdapterSetup, AdapterSet, Coherent
<1> QED BY <1>1, <1>2

\* What one solver returns, and keeps.
LEMMA CoreFacts ==
  ASSUME NEW c \in CoreSet, NEW r \in Nat, NEW k \in Nat, NEW w \in BOOLEAN, NEW st \in Outcomes(k)
  PROVE  LET s == CoreSolve(c, r, k, w, st) IN
            /\ s \in CoreSet /\ s.mats = c.mats
            /\ s.cache \in Seq(ResultSet) /\ DOMAIN s.cache = 1..k
            /\ \A i \in 1..k : s.cache[i].mats = c.mats /\ s.cache[i].warm = w
<1> DEFINE res == [i \in 1..k |-> [run |-> r, prob |-> i, mats |-> c.mats,
                                   warm |-> w, status |-> st[i]]]
<1>1. \A i \in 1..k : [run |-> r, prob |-> i, mats |-> c.mats,
                       warm |-> w, status |-> st[i]] \in ResultSet
  BY DEF CoreSet, ResultSet, Outcomes
<1>2. res \in [1..k -> ResultSet]
  BY <1>1
<1>3. res \in Seq(ResultSet)
  BY <1>2
<1>4. CoreSolve(c, r, k, w, st) = [c EXCEPT !.cache = res]
  BY DEF CoreSolve, Results
<1>5. \A i \in 1..k : res[i].mats = c.mats /\ res[i].warm = w
  OBVIOUS
<1> HIDE DEF res
<1>6. LET s == [c EXCEPT !.cache = res]
      IN s \in CoreSet /\ s.mats = c.mats /\ s.cache = res
  BY <1>3 DEF CoreSet
<1>7. DOMAIN res = 1..k
  BY <1>2
<1> QED BY <1>3, <1>4, <1>5, <1>6, <1>7

\* solve() of the adapter: the matrices of the last setup() are those it solves
\* with, whichever solver it takes and whether or not it sets it up again.
LEMMA SingleFacts ==
  ASSUME NEW a \in AdapterSet, NEW r \in Nat, NEW st \in Outcomes(1)
  PROVE  LET s == SolveSingle(a, r, st)
         IN /\ s.adapter \in AdapterSet /\ s.adapter.values = a.values
            /\ Coherent(a) => Coherent(s.adapter)
            /\ s.results \in Seq(ResultSet) /\ DOMAIN s.results = 1..1
            /\ \A i \in 1..1 : s.results[i].warm = FALSE
            /\ Coherent(a) /\ a.values # NoValues =>
                 \A i \in 1..1 : s.results[i].mats = a.values
            /\ s.adapter.single.cache = s.results
<1> DEFINE made == IF a.single.made THEN a.single ELSE NewCore
           ready == IF KnownToSingle(a) THEN made ELSE CoreSetup(made, a.values)
           core == CoreSolve(ready, r, 1, FALSE, st)
           after == [a EXCEPT !.single = core, !.cachedSingle = a.values]
<1>1. /\ made \in CoreSet /\ (a.single.made => made = a.single)
      /\ a.values \in ValueSet
  BY NewCoreFacts DEF AdapterSet
<1> HIDE DEF made
<1>2. ready \in CoreSet
  BY <1>1 DEF CoreSetup, CoreSet
<1>3. Coherent(a) /\ a.values # NoValues => ready.mats = a.values
  <2>1. CASE KnownToSingle(a)
    BY <1>1, <2>1 DEF KnownToSingle, Coherent
  <2>2. CASE ~KnownToSingle(a)
    BY <1>1, <2>2 DEF CoreSetup, CoreSet
  <2> QED BY <2>1, <2>2
<1> HIDE DEF ready
<1>4. /\ core \in CoreSet /\ core.mats = ready.mats
      /\ core.cache \in Seq(ResultSet) /\ DOMAIN core.cache = 1..1
      /\ \A i \in 1..1 : core.cache[i].mats = ready.mats /\ core.cache[i].warm = FALSE
  <2>1. ASSUME NEW w \in BOOLEAN
        PROVE  LET c == CoreSolve(ready, r, 1, w, st) IN
                 /\ c \in CoreSet /\ c.mats = ready.mats
                 /\ c.cache \in Seq(ResultSet) /\ DOMAIN c.cache = 1..1
                 /\ \A i \in 1..1 : c.cache[i].mats = ready.mats /\ c.cache[i].warm = w
    BY <1>2, CoreFacts
  <2>2. FALSE \in BOOLEAN
    OBVIOUS
  <2> QED BY <2>1, <2>2, Zenon
<1>5. SolveSingle(a, r, st) = [adapter |-> after, results |-> core.cache]
  BY DEF SolveSingle, ready, made
<1> HIDE DEF core
<1>6. /\ after \in AdapterSet /\ after.values = a.values
      /\ after.single = core /\ after.cachedSingle = a.values
      /\ after.compiled = a.compiled /\ after.cachedShared = a.cachedShared
  BY <1>1, <1>4 DEF AdapterSet
<1>7. Coherent(a) => Coherent(after)
  BY <1>3, <1>4, <1>6 DEF Coherent
<1> HIDE DEF after
<1> QED BY <1>3, <1>4, <1>5, <1>6, <1>7

LEMMA BatchFacts ==
  ASSUME NEW a \in AdapterSet, NEW r \in Nat, NEW k \in Nat, NEW w \in BOOLEAN,
         NEW st \in Outcomes(k)
  PROVE  LET s == SolveBatch(a, r, k, w, st)
         IN /\ s.adapter \in AdapterSet /\ s.adapter.values = a.values
            /\ Coherent(a) => Coherent(s.adapter)
            /\ s.results \in Seq(ResultSet) /\ DOMAIN s.results = 1..k
            /\ \A i \in 1..k : s.results[i].warm = w
            /\ Coherent(a) /\ a.values # NoValues =>
                 \A i \in 1..k : s.results[i].mats = a.values
            /\ s.adapter.compiled.cache = s.results
            /\ s.adapter.single = a.single
<1> DEFINE made == IF a.compiled.made THEN a.compiled ELSE NewCore
           ready == IF KnownToCompiled(a) THEN made ELSE CoreSetup(made, a.values)
           core == CoreSolve(ready, r, k, w, st)
           after == [a EXCEPT !.compiled = core, !.cachedShared = a.values]
<1>1. /\ made \in CoreSet /\ (a.compiled.made => made = a.compiled)
      /\ a.values \in ValueSet
  BY NewCoreFacts DEF AdapterSet
<1> HIDE DEF made
<1>2. ready \in CoreSet
  BY <1>1 DEF CoreSetup, CoreSet
<1>3. Coherent(a) /\ a.values # NoValues => ready.mats = a.values
  <2>1. CASE KnownToCompiled(a)
    BY <1>1, <2>1 DEF KnownToCompiled, Coherent
  <2>2. CASE ~KnownToCompiled(a)
    BY <1>1, <2>2 DEF CoreSetup, CoreSet
  <2> QED BY <2>1, <2>2
<1> HIDE DEF ready
<1>4. /\ core \in CoreSet /\ core.mats = ready.mats
      /\ core.cache \in Seq(ResultSet) /\ DOMAIN core.cache = 1..k
      /\ \A i \in 1..k : core.cache[i].mats = ready.mats /\ core.cache[i].warm = w
  BY <1>2, CoreFacts
<1>5. SolveBatch(a, r, k, w, st) = [adapter |-> after, results |-> core.cache]
  BY DEF SolveBatch, ready, made
<1> HIDE DEF core
<1>6. /\ after \in AdapterSet /\ after.values = a.values
      /\ after.compiled = core /\ after.cachedShared = a.values
      /\ after.single = a.single /\ after.cachedSingle = a.cachedSingle
  BY <1>1, <1>4 DEF AdapterSet
<1>7. Coherent(a) => Coherent(after)
  BY <1>3, <1>4, <1>6 DEF Coherent
<1> HIDE DEF after
<1> QED BY <1>3, <1>4, <1>5, <1>6, <1>7

\* What is promised of s, a solve by the adapter a.
Solved(a, oneD, k, w, s) ==
  /\ s.adapter \in AdapterSet /\ s.adapter.values = a.values
  /\ Coherent(a) => Coherent(s.adapter)
  /\ s.results \in Seq(ResultSet) /\ DOMAIN s.results = 1..k
  /\ \A i \in 1..k : s.results[i].warm = w
  /\ Coherent(a) /\ a.values # NoValues => \A i \in 1..k : s.results[i].mats = a.values
  /\ ~oneD => /\ s.adapter.compiled.cache = s.results
              /\ s.adapter.single = a.single
  /\ oneD /\ ~w /\ a.values.form = "shared" => s.adapter.single.cache = s.results

LEMMA SolveFacts ==
  ASSUME NEW a \in AdapterSet, NEW oneD \in BOOLEAN, NEW r \in Nat, NEW k \in Nat,
         NEW w \in BOOLEAN, NEW st \in Outcomes(k), oneD => k = 1
  PROVE  Solved(a, oneD, k, w, AdapterSolve(a, oneD, r, k, w, st))
<1>1. CASE oneD /\ ~w /\ a.values.form = "shared"
  <2>1. AdapterSolve(a, oneD, r, k, w, st) = SolveSingle(a, r, st) /\ k = 1 /\ w = FALSE
    BY <1>1 DEF AdapterSolve
  <2>2. st \in Outcomes(1)
    BY <2>1
  <2> DEFINE s == SolveSingle(a, r, st)
  <2>3. /\ s.adapter \in AdapterSet /\ s.adapter.values = a.values
        /\ Coherent(a) => Coherent(s.adapter)
        /\ s.results \in Seq(ResultSet) /\ DOMAIN s.results = 1..1
        /\ \A i \in 1..1 : s.results[i].warm = FALSE
        /\ Coherent(a) /\ a.values # NoValues => \A i \in 1..1 : s.results[i].mats = a.values
        /\ s.adapter.single.cache = s.results
    BY <2>2, SingleFacts
  <2> QED BY <1>1, <2>1, <2>3 DEF Solved
<1>2. CASE ~(oneD /\ ~w /\ a.values.form = "shared")
  <2>1. AdapterSolve(a, oneD, r, k, w, st) = SolveBatch(a, r, k, w, st)
    BY <1>2 DEF AdapterSolve
  <2> QED BY <1>2, <2>1, BatchFacts DEF Solved
<1> QED BY <1>1, <1>2

-----------------------------------------------------------------------------
\* The solutions a caller was given, as backward() finds them in a cache.
Points(ans) == [i \in DOMAIN ans |-> ans[i].point]
IsCacheOf(core, ans) == core.cache # <<>> /\ core.cache = Points(ans)

SingleInv ==
  front = "single" =>
    /\ solver \in [impl : AdapterSet, k : {1}, values : ValueSet, tuned : BOOLEAN]
    /\ solver.values.form = "shared"
    /\ solver.impl.values = solver.values /\ Coherent(solver.impl)
    /\ \/ answer = <<>> \/ answer[1].point.warm
       \/ IsCacheOf(solver.impl.single, answer)

CompiledInv ==
  front = "compiled" =>
    /\ solver \in [impl : AdapterSet, k : Batches, values : ValueSet, tuned : BOOLEAN]
    /\ solver.impl.values = solver.values /\ Coherent(solver.impl)
    /\ solver.impl.single.cache = <<>>
    /\ answer = <<>> \/ Retried \/ IsCacheOf(solver.impl.compiled, answer)

\* The adapter holds what shared says, if it was set up since it was made.
TorchSet == [impl : AdapterSet, size : Nat, shared : ValueSet, pattern : BOOLEAN]
TorchHolds(s) ==
  /\ Coherent(s.impl)
  /\ s.size > 1 /\ s.shared \notin {Unset, NoValues} =>
       s.impl.values = NoValues \/ s.impl.values.id = s.shared.id

TorchInv ==
  front = "torch" => solver \in TorchSet /\ grad = <<>> /\ (~spoiled => TorchHolds(solver))

\* An adapter holds what cached says, and there is nothing cached without one.
JaxSet == [made : SUBSET Batches, impls : [Batches -> AdapterSet],
           cached : [Batches -> ValueSet], pending : Nat, pattern : BOOLEAN]
JaxMade(s) == \A k \in Batches : k \notin s.made => s.cached[k] = NoBytes
JaxHolds(s) ==
  \A k \in Batches :
    /\ Coherent(s.impls[k])
    /\ s.cached[k] # NoBytes => /\ s.impls[k].values # NoValues
                                /\ s.impls[k].values.id = s.cached[k].id
JaxInv ==
  front = "jax" => /\ solver \in JaxSet /\ JaxMade(solver) /\ grad = <<>>
                   /\ ~spoiled => JaxHolds(solver)

AnswerInv == SolvesWhatItWasGiven /\ MergeIsConsistent /\ GradientIsAtTheAnswer

TypeInv == front \in Fronts /\ runs \in Nat /\ spoiled \in BOOLEAN

IInv == TypeInv /\ SingleInv /\ CompiledInv /\ TorchInv /\ JaxInv /\ AnswerInv

-----------------------------------------------------------------------------
LEMMA InitInv == CallerAssumption /\ Init => IInv
<1> SUFFICES ASSUME CallerAssumption, Init PROVE IInv
  OBVIOUS
<1>1. TypeInv
  BY DEF Init, TypeInv
<1>2. SingleInv
  <2>1. ASSUME front = "single", NEW i \in Ids,
               solver = [impl |-> AdapterSetup(NewAdapter(1, TRUE), Shared(i)),
                         k |-> 1, values |-> Shared(i), tuned |-> TRUE]
        PROVE  SingleInv
    <3>1. NewAdapter(1, TRUE) \in AdapterSet /\ Coherent(NewAdapter(1, TRUE))
      BY NewAdapterFacts
    <3>2. Shared(i) \in ValueSet /\ Shared(i).form = "shared"
      BY ValueFacts
    <3>3. LET a == AdapterSetup(NewAdapter(1, TRUE), Shared(i))
          IN a \in AdapterSet /\ a.values = Shared(i) /\ Coherent(a)
      BY <3>1, <3>2, SetupFacts
    <3> QED BY <2>1, <3>2, <3>3 DEF SingleInv, Init
  <2> QED BY <2>1 DEF SingleInv, Init, SingleInit, CompiledInit, TorchInit, JaxInit
<1>3. CompiledInv
  <2>1. ASSUME front = "compiled", NEW k \in Batches, NEW tuned \in BOOLEAN,
               solver = [impl |-> NewAdapter(k, FALSE), k |-> k, values |-> NoValues,
                         tuned |-> tuned]
        PROVE  CompiledInv
    <3>1. k \in Nat /\ FALSE \in BOOLEAN
      BY DEF Batches, CallerAssumption
    <3> QED BY <2>1, <3>1, ValueFacts, NewAdapterFacts DEF CompiledInv, Init
  <2> QED BY <2>1 DEF CompiledInv, Init, SingleInit, CompiledInit, TorchInit, JaxInit
<1>4. TorchInv
  <2>1. ASSUME front = "torch", NEW p \in BOOLEAN,
               solver = [impl |-> NewAdapter(1, FALSE), size |-> 0, shared |-> Unset,
                         pattern |-> p]
        PROVE  TorchInv
    <3>1. NewAdapter(1, FALSE) \in AdapterSet /\ Coherent(NewAdapter(1, FALSE))
      BY NewAdapterFacts
    <3> QED BY <2>1, <3>1, ValueFacts DEF TorchInv, TorchSet, TorchHolds, Init
  <2> QED BY <2>1 DEF TorchInv, Init, SingleInit, CompiledInit, TorchInit, JaxInit
<1>5. JaxInv
  <2>1. ASSUME front = "jax", NEW p \in BOOLEAN,
               solver = [made |-> {}, impls |-> [k \in Batches |-> NoAdapter],
                         cached |-> [k \in Batches |-> NoBytes], pending |-> 0, pattern |-> p]
        PROVE  JaxInv
    <3>1. NoAdapter \in AdapterSet /\ Coherent(NoAdapter)
      BY NewAdapterFacts DEF NoAdapter
    <3> QED BY <2>1, <3>1, ValueFacts DEF JaxInv, JaxSet, JaxMade, JaxHolds, Init, NoBytes
  <2> QED BY <2>1 DEF JaxInv, Init, SingleInit, CompiledInit, TorchInit, JaxInit
<1>6. AnswerInv
  BY DEF Init, NotAsked, AnswerInv, SolvesWhatItWasGiven, MergeIsConsistent,
         GradientIsAtTheAnswer
<1> QED BY <1>1, <1>2, <1>3, <1>4, <1>5, <1>6 DEF IInv

\* Steps that return nothing.
LEMMA AnswerKept ==
  ASSUME AnswerInv, UNCHANGED <<front, asked, answer, grad>>, spoiled => spoiled'
  PROVE  AnswerInv'
BY DEF AnswerInv, SolvesWhatItWasGiven, MergeIsConsistent, GradientIsAtTheAnswer, Retried

\* A solve that returned the results l of its only or its second run.
GoodReturn(k, v, w, f, l) ==
  /\ k \in Nat /\ w \in BOOLEAN
  /\ f \in Seq(ResultSet) /\ DOMAIN f = 1..k
  /\ l \in Seq(ResultSet) /\ DOMAIN l = 1..k
  /\ Answers(v, w, f, Returned(l))
  /\ ~spoiled' => \A i \in 1..k : l[i].mats.id = v.id
  /\ IF MustRetry(w, f) THEN \A i \in 1..k : l[i].warm = FALSE ELSE l = f
  /\ front' \in {"single", "compiled"} => k = 1 \/ l = f

LEMMA ReturnedStep ==
  ASSUME NEW k, NEW v, NEW w, NEW f, NEW l, GoodReturn(k, v, w, f, l)
  PROVE  AnswerInv' /\ grad' = <<>>
<1>1. /\ asked' = [values |-> v, warm |-> w, first |-> f] /\ grad' = <<>>
      /\ answer' = [i \in 1..k |-> [point |-> l[i], info |-> l[i], zx |-> l[i]]]
  BY DEF GoodReturn, Answers, Returned
<1>2. SolvesWhatItWasGiven'
  BY <1>1 DEF GoodReturn, SolvesWhatItWasGiven
<1>3. GradientIsAtTheAnswer'
  BY <1>1 DEF GradientIsAtTheAnswer
<1>4. MergeIsConsistent'
  <2> SUFFICES ASSUME w, NEW i \in 1..k
      PROVE  /\ i \in ShouldRetryCold(f) => ~l[i].warm
             /\ front' \in {"single", "compiled"} /\ i \notin ShouldRetryCold(f) => l[i] = f[i]
    BY <1>1 DEF MergeIsConsistent
  <2>1. ShouldRetryCold(f) \subseteq 1..k
    BY DEF ShouldRetryCold, GoodReturn
  <2>2. i \in ShouldRetryCold(f) => MustRetry(w, f)
    BY DEF MustRetry
  <2>3. k = 1 /\ i \notin ShouldRetryCold(f) => ~MustRetry(w, f)
    BY <2>1 DEF MustRetry
  <2> QED BY <2>2, <2>3 DEF GoodReturn
<1> QED BY <1>1, <1>2, <1>3, <1>4 DEF AnswerInv

-----------------------------------------------------------------------------
\* A cold retry has outcomes; without one there is nothing to choose.
LEMMA RetryOutcomes ==
  ASSUME NEW k, NEW retry \in BOOLEAN, NEW st \in ColdOutcomes(retry, k), retry
  PROVE  st \in Outcomes(k)
BY DEF ColdOutcomes

LEMMA SingleSolveStep ==
  ASSUME CallerAssumption, IInv, SingleSolve
  PROVE  IInv'
<1> DEFINE a == solver.impl
           F(w, st) == AdapterSolve(a, TRUE, runs + 1, 1, w, st)
           L(w, st, st2) ==
             IF MustRetry(w, F(w, st).results)
             THEN AdapterSolve(F(w, st).adapter, TRUE, runs + 2, 1, FALSE, st2)
             ELSE F(w, st)
<1>1. PICK w \in BOOLEAN, st \in Outcomes(1) :
        \E st2 \in ColdOutcomes(MustRetry(w, F(w, st).results), 1) :
          /\ solver' = [solver EXCEPT !.impl = L(w, st, st2).adapter]
          /\ Answers(solver.values, w, F(w, st).results, Returned(L(w, st, st2).results))
          /\ runs' = IF MustRetry(w, F(w, st).results) THEN runs + 2 ELSE runs + 1
  BY Zenon DEF SingleSolve, FirstSolve, ColdSolve
<1>2. PICK st2 \in ColdOutcomes(MustRetry(w, F(w, st).results), 1) :
         /\ solver' = [solver EXCEPT !.impl = L(w, st, st2).adapter]
         /\ Answers(solver.values, w, F(w, st).results, Returned(L(w, st, st2).results))
         /\ runs' = IF MustRetry(w, F(w, st).results) THEN runs + 2 ELSE runs + 1
  BY <1>1, Zenon
<1> DEFINE f == F(w, st)
           l == L(w, st, st2)
<1>3. /\ front = "single" /\ front' = front /\ spoiled' = spoiled
      /\ solver \in [impl : AdapterSet, k : {1}, values : ValueSet, tuned : BOOLEAN]
      /\ solver.values.form = "shared"
      /\ a \in AdapterSet /\ Coherent(a) /\ a.values = solver.values
      /\ runs \in Nat /\ a.values # NoValues
  BY ValueFacts DEF SingleSolve, IInv, SingleInv, TypeInv
<1>4. /\ f.adapter \in AdapterSet /\ f.adapter.values = a.values /\ Coherent(f.adapter)
      /\ f.results \in Seq(ResultSet) /\ DOMAIN f.results = 1..1
      /\ \A i \in 1..1 : f.results[i].warm = w /\ f.results[i].mats = a.values
      /\ ~w => f.adapter.single.cache = f.results
  <2>1. runs + 1 \in Nat /\ 1 \in Nat /\ a \in AdapterSet
    BY <1>3
  <2>2. Solved(a, TRUE, 1, w, f)
    BY <2>1, SolveFacts, Zenon
  <2> QED BY <1>3, <2>2 DEF Solved
<1>5. IF MustRetry(w, f.results)
      THEN /\ l.adapter \in AdapterSet /\ l.adapter.values = a.values /\ Coherent(l.adapter)
           /\ l.results \in Seq(ResultSet) /\ DOMAIN l.results = 1..1
           /\ \A i \in 1..1 : l.results[i].warm = FALSE /\ l.results[i].mats = a.values
           /\ l.adapter.single.cache = l.results
      ELSE l = f
  <2>1. CASE MustRetry(w, f.results)
    <3>1. st2 \in Outcomes(1)
      BY <2>1, RetryOutcomes
    <3>2. l = AdapterSolve(f.adapter, TRUE, runs + 2, 1, FALSE, st2)
      BY <2>1
    <3> HIDE DEF f, l, F, L, a
    <3>3. runs + 2 \in Nat /\ 1 \in Nat
      BY <1>3
    <3>4. Solved(f.adapter, TRUE, 1, FALSE, l)
      BY <1>4, <3>1, <3>2, <3>3, SolveFacts, Zenon
    <3> QED BY <1>3, <1>4, <2>1, <3>4 DEF Solved
  <2>2. CASE ~MustRetry(w, f.results)
    BY <2>2
  <2> QED BY <2>1, <2>2
<1> HIDE DEF f, l, F, L, a
<1>6. /\ l.adapter \in AdapterSet /\ l.adapter.values = a.values /\ Coherent(l.adapter)
      /\ l.results \in Seq(ResultSet) /\ DOMAIN l.results = 1..1
      /\ \A i \in 1..1 : l.results[i].mats = a.values
      /\ l.results[1].warm \/ l.adapter.single.cache = l.results
  BY <1>4, <1>5
<1>7. /\ solver' = [solver EXCEPT !.impl = l.adapter]
      /\ Answers(solver.values, w, f.results, Returned(l.results))
  BY <1>2 DEF f, l
<1>8. AnswerInv'
  <2>1. \A i \in 1..1 : l.results[i].mats.id = solver.values.id
    BY <1>3, <1>6
  <2>2. IF MustRetry(w, f.results) THEN \A i \in 1..1 : l.results[i].warm = FALSE
        ELSE l.results = f.results
    BY <1>5
  <2>3. /\ 1 \in Nat /\ f.results \in Seq(ResultSet) /\ l.results \in Seq(ResultSet)
        /\ DOMAIN f.results = 1..1 /\ DOMAIN l.results = 1..1
        /\ Answers(solver.values, w, f.results, Returned(l.results))
    BY <1>4, <1>6, <1>7
  <2>4. GoodReturn(1, solver.values, w, f.results, l.results)
    BY <2>1, <2>2, <2>3 DEF GoodReturn
  <2> QED BY <2>4, ReturnedStep, Zenon
<1>9. SingleInv'
  <2>1. answer' = [i \in 1..1 |-> [point |-> l.results[i], info |-> l.results[i],
                                   zx |-> l.results[i]]]
    BY <1>6, <1>7 DEF Answers, Returned
  <2>2. Points(answer') = l.results /\ answer'[1].point = l.results[1]
    BY <1>6, <2>1 DEF Points
  <2>3. l.results # <<>>
    BY <1>6
  <2>4. answer'[1].point.warm \/ IsCacheOf(l.adapter.single, answer')
    BY <1>6, <2>2, <2>3 DEF IsCacheOf
  <2>5. /\ solver' \in [impl : AdapterSet, k : {1}, values : ValueSet, tuned : BOOLEAN]
        /\ solver'.impl = l.adapter /\ solver'.values = solver.values
    BY <1>3, <1>6, <1>7
  <2> QED BY <1>3, <1>6, <2>4, <2>5 DEF SingleInv
<1>10. TypeInv'
  BY <1>2, <1>3 DEF TypeInv, IInv
<1> QED BY <1>3, <1>8, <1>9, <1>10 DEF IInv, CompiledInv, TorchInv, JaxInv

LEMMA CompiledSetupStep ==
  ASSUME CallerAssumption, IInv, CompiledSetup
  PROVE  IInv'
<1>1. PICK v \in ValuesFor(solver.k) :
        solver' = [solver EXCEPT !.values = v, !.impl = AdapterSetup(@, v)]
  BY DEF CompiledSetup
<1>2. /\ front = "compiled" /\ UNCHANGED <<front, asked, answer, grad, runs, spoiled>>
      /\ solver \in [impl : AdapterSet, k : Batches, values : ValueSet, tuned : BOOLEAN]
      /\ Coherent(solver.impl) /\ solver.impl.single.cache = <<>>
      /\ answer = <<>> \/ Retried \/ IsCacheOf(solver.impl.compiled, answer)
  BY DEF CompiledSetup, IInv, CompiledInv
<1>3. v \in ValueSet
  BY <1>2, PassedFacts
<1> DEFINE a == AdapterSetup(solver.impl, v)
<1>4. /\ a \in AdapterSet /\ a.values = v /\ Coherent(a)
      /\ a.single.cache = <<>> /\ a.compiled.cache = solver.impl.compiled.cache
  BY <1>2, <1>3, SetupFacts
<1>5. solver' = [solver EXCEPT !.values = v, !.impl = a]
  BY <1>1
<1> HIDE DEF a
<1>6. /\ solver' \in [impl : AdapterSet, k : Batches, values : ValueSet, tuned : BOOLEAN]
      /\ solver'.impl = a /\ solver'.values = v
  BY <1>2, <1>3, <1>4, <1>5
<1>7. CompiledInv'
  BY <1>2, <1>4, <1>6 DEF CompiledInv, Retried, IsCacheOf, Points
<1>8. AnswerInv' /\ TypeInv'
  BY <1>2, AnswerKept DEF IInv, TypeInv
<1> QED BY <1>2, <1>7, <1>8 DEF IInv, SingleInv, TorchInv, JaxInv

\* Auto-tuning may bring a new adapter, set up with the same values.
LEMMA AutoTunedFacts ==
  ASSUME NEW s \in [impl : AdapterSet, k : Batches, values : ValueSet, tuned : BOOLEAN],
         CallerAssumption, s.impl.values = s.values, Coherent(s.impl),
         s.impl.single.cache = <<>>, NEW t \in AutoTuned(s)
  PROVE  /\ t \in [impl : AdapterSet, k : Batches, values : ValueSet, tuned : BOOLEAN]
         /\ t.k = s.k /\ t.values = s.values /\ t.impl.values = s.values
         /\ Coherent(t.impl) /\ t.impl.single.cache = <<>>
<1> DEFINE a == AdapterSetup(NewAdapter(s.k, FALSE), s.values)
<1>1. s.k \in Nat /\ FALSE \in BOOLEAN
  BY DEF Batches, CallerAssumption
<1>2. /\ NewAdapter(s.k, FALSE) \in AdapterSet /\ Coherent(NewAdapter(s.k, FALSE))
      /\ NewAdapter(s.k, FALSE).single.cache = <<>>
  BY <1>1, NewAdapterFacts
<1>3. a \in AdapterSet /\ a.values = s.values /\ Coherent(a) /\ a.single.cache = <<>>
  BY <1>2, SetupFacts
<1>4. t \in {s, [s EXCEPT !.tuned = TRUE], [s EXCEPT !.tuned = TRUE, !.impl = a]}
  BY DEF AutoTuned
<1> HIDE DEF a
<1> QED BY <1>3, <1>4

\* The cold results of some problems, patched into the warm ones of the others.
GoodMerge(k, v, w, f, l) ==
  /\ k \in Nat /\ w \in BOOLEAN
  /\ f \in Seq(ResultSet) /\ DOMAIN f = 1..k
  /\ l \in Seq(ResultSet) /\ DOMAIN l = 1..k
  /\ Answers(v, w, f, Merged(f, l)) /\ MustRetry(w, f)
  /\ ~spoiled' => \A i \in 1..k : l[i].mats.id = v.id /\ f[i].mats.id = v.id
  /\ \A i \in 1..k : l[i].warm = FALSE

LEMMA MergedStep ==
  ASSUME NEW k, NEW v, NEW w, NEW f, NEW l, GoodMerge(k, v, w, f, l)
  PROVE  AnswerInv' /\ grad' = <<>> /\ Retried'
<1>1. /\ asked' = [values |-> v, warm |-> w, first |-> f] /\ grad' = <<>>
      /\ DOMAIN answer' = 1..k
      /\ \A i \in 1..k :
           /\ answer'[i].info = answer'[i].point
           /\ i \in ShouldRetryCold(f) => answer'[i].point = l[i]
           /\ i \notin ShouldRetryCold(f) => answer'[i].point = f[i]
  BY DEF GoodMerge, Answers, Merged
<1>2. SolvesWhatItWasGiven'
  BY <1>1 DEF GoodMerge, SolvesWhatItWasGiven
<1>3. GradientIsAtTheAnswer'
  BY <1>1 DEF GradientIsAtTheAnswer
<1>4. MergeIsConsistent'
  BY <1>1 DEF GoodMerge, MergeIsConsistent
<1>5. Retried'
  BY <1>1 DEF GoodMerge, Retried
<1> QED BY <1>1, <1>2, <1>3, <1>4, <1>5 DEF AnswerInv

LEMMA CompiledSolveStep ==
  ASSUME CallerAssumption, IInv, CompiledSolve
  PROVE  IInv'
<1> DEFINE F(t, w, st) == AdapterSolve(t.impl, FALSE, runs + 1, t.k, w, st)
           R(t, w, st) == MustRetry(w, F(t, w, st).results)
           L(t, w, st, st2) ==
             IF R(t, w, st)
             THEN AdapterSolve(F(t, w, st).adapter, FALSE, runs + 2, t.k, FALSE, st2)
             ELSE F(t, w, st)
           Outcome(t, w, st, st2) ==
             /\ solver' = [t EXCEPT !.impl = L(t, w, st, st2).adapter]
             /\ Answers(t.values, w, F(t, w, st).results,
                        IF R(t, w, st) THEN Merged(F(t, w, st).results, L(t, w, st, st2).results)
                        ELSE Returned(F(t, w, st).results))
             /\ runs' = IF R(t, w, st) THEN runs + 2 ELSE runs + 1
<1>1. PICK t \in AutoTuned(solver), w \in BOOLEAN, st \in Outcomes(solver.k) :
        \E st2 \in ColdOutcomes(R(t, w, st), t.k) : Outcome(t, w, st, st2)
  <2>1. \E t \in AutoTuned(solver), w \in BOOLEAN, st \in Outcomes(solver.k) :
          \E st2 \in ColdOutcomes(R(t, w, st), t.k) :
            /\ solver' = [t EXCEPT !.impl = L(t, w, st, st2).adapter]
            /\ Answers(t.values, w, F(t, w, st).results,
                       IF R(t, w, st) THEN Merged(F(t, w, st).results, L(t, w, st, st2).results)
                       ELSE Returned(F(t, w, st).results))
            /\ runs' = IF R(t, w, st) THEN runs + 2 ELSE runs + 1
            /\ runs' <= MaxRuns[front]
    BY Zenon DEF CompiledSolve, FirstSolve, ColdSolve
  <2> HIDE DEF F, L, R
  <2> QED BY <2>1, Zenon
<1>2. PICK st2 \in ColdOutcomes(R(t, w, st), t.k) : Outcome(t, w, st, st2)
  BY <1>1, Zenon
<1> DEFINE f == F(t, w, st)
           l == L(t, w, st, st2)
           retry == R(t, w, st)
<1>3. /\ front = "compiled" /\ front' = front /\ spoiled' = spoiled
      /\ solver \in [impl : AdapterSet, k : Batches, values : ValueSet, tuned : BOOLEAN]
      /\ solver.impl.values = solver.values /\ Coherent(solver.impl)
      /\ solver.impl.single.cache = <<>>
      /\ runs \in Nat /\ solver.values # NoValues
  BY DEF CompiledSolve, IInv, CompiledInv, TypeInv
<1>4. /\ t \in [impl : AdapterSet, k : Batches, values : ValueSet, tuned : BOOLEAN]
      /\ t.k = solver.k /\ t.values # NoValues /\ t.impl.values = t.values
      /\ Coherent(t.impl) /\ t.impl.single.cache = <<>>
  BY <1>3, AutoTunedFacts
<1>5. /\ f.adapter \in AdapterSet /\ f.adapter.values = t.values /\ Coherent(f.adapter)
      /\ f.results \in Seq(ResultSet) /\ DOMAIN f.results = 1..t.k
      /\ \A i \in 1..t.k : f.results[i].mats = t.values
      /\ f.adapter.single.cache = <<>> /\ f.adapter.compiled.cache = f.results
  <2>1. runs + 1 \in Nat /\ t.k \in Nat /\ t.impl \in AdapterSet /\ st \in Outcomes(t.k)
    BY <1>3, <1>4 DEF Batches, CallerAssumption
  <2>2. Solved(t.impl, FALSE, t.k, w, f)
    BY <2>1, SolveFacts, Zenon
  <2> QED BY <1>4, <2>2 DEF Solved
<1>6. ASSUME retry
      PROVE  /\ l.adapter \in AdapterSet /\ l.adapter.values = t.values /\ Coherent(l.adapter)
             /\ l.results \in Seq(ResultSet) /\ DOMAIN l.results = 1..t.k
             /\ \A i \in 1..t.k : l.results[i].warm = FALSE /\ l.results[i].mats = t.values
             /\ l.adapter.single.cache = <<>>
  <2>1. st2 \in Outcomes(t.k)
    BY <1>6, RetryOutcomes DEF MustRetry
  <2>2. l = AdapterSolve(f.adapter, FALSE, runs + 2, t.k, FALSE, st2)
    BY <1>6
  <2> HIDE DEF f, l, F, L, R, retry
  <2>3. runs + 2 \in Nat /\ t.k \in Nat /\ f.adapter \in AdapterSet
    BY <1>3, <1>4, <1>5 DEF Batches, CallerAssumption
  <2>4. Solved(f.adapter, FALSE, t.k, FALSE, l)
    BY <2>1, <2>2, <2>3, SolveFacts, Zenon
  <2> QED BY <1>4, <1>5, <2>4 DEF Solved
<1>7. /\ solver' = [t EXCEPT !.impl = l.adapter]
      /\ ~retry => l = f
      /\ retry <=> MustRetry(w, f.results)
      /\ Answers(t.values, w, f.results,
                 IF retry THEN Merged(f.results, l.results) ELSE Returned(f.results))
      /\ runs' \in {runs + 1, runs + 2}
  BY <1>2
<1> HIDE DEF f, l, F, L, R, retry, Outcome
<1>8. t.k \in Nat /\ t.k >= 1 /\ t.values \in ValueSet
  BY <1>4 DEF Batches, CallerAssumption
<1>9. /\ AnswerInv'
      /\ ~retry => Points(answer') = f.results /\ f.results # <<>>
      /\ retry => Retried'
  <2>1. CASE retry
    <3>1. /\ \A i \in 1..t.k : /\ l.results[i].mats.id = t.values.id
                               /\ f.results[i].mats.id = t.values.id
          /\ \A i \in 1..t.k : l.results[i].warm = FALSE
      BY <1>5, <1>6, <2>1
    <3>2. /\ l.results \in Seq(ResultSet) /\ DOMAIN l.results = 1..t.k
          /\ MustRetry(w, f.results)
          /\ Answers(t.values, w, f.results, Merged(f.results, l.results))
      BY <1>6, <1>7, <2>1
    <3>3. GoodMerge(t.k, t.values, w, f.results, l.results)
      BY <1>5, <1>8, <3>1, <3>2 DEF GoodMerge
    <3>4. AnswerInv' /\ Retried'
      BY <3>3, MergedStep, Zenon
    <3> QED BY <2>1, <3>4
  <2>2. CASE ~retry
    <3>1. \A i \in 1..t.k : f.results[i].mats.id = t.values.id
      BY <1>5
    <3>2. /\ Answers(t.values, w, f.results, Returned(f.results))
          /\ IF MustRetry(w, f.results) THEN \A i \in 1..t.k : f.results[i].warm = FALSE
             ELSE f.results = f.results
          /\ front' \in {"single", "compiled"} => t.k = 1 \/ f.results = f.results
      BY <1>7, <2>2
    <3>3. AnswerInv'
      <4>1. GoodReturn(t.k, t.values, w, f.results, f.results)
        BY <1>5, <1>8, <3>1, <3>2 DEF GoodReturn
      <4> QED BY <4>1, ReturnedStep, Zenon
    <3>4. answer' = [i \in 1..t.k |-> [point |-> f.results[i], info |-> f.results[i],
                                       zx |-> f.results[i]]]
      BY <1>5, <3>2 DEF Answers, Returned
    <3>5. Points(answer') = [i \in 1..t.k |-> f.results[i]]
      BY <3>4 DEF Points
    <3>6. f.results = [i \in 1..t.k |-> f.results[i]] /\ f.results # <<>>
      BY <1>5, <1>8
    <3> QED BY <2>2, <3>3, <3>5, <3>6
  <2> QED BY <2>1, <2>2
<1>10. CompiledInv'
  <2>1. /\ solver' \in [impl : AdapterSet, k : Batches, values : ValueSet, tuned : BOOLEAN]
        /\ solver'.impl = l.adapter /\ solver'.values = t.values
        /\ l.adapter.values = t.values /\ Coherent(l.adapter) /\ l.adapter.single.cache = <<>>
    BY <1>4, <1>5, <1>6, <1>7
  <2>2. Retried' \/ IsCacheOf(l.adapter.compiled, answer')
    BY <1>5, <1>7, <1>9 DEF IsCacheOf
  <2> QED BY <2>1, <2>2 DEF CompiledInv
<1>11. TypeInv'
  BY <1>3, <1>7 DEF TypeInv, IInv
<1> QED BY <1>3, <1>9, <1>10, <1>11 DEF IInv, SingleInv, TorchInv, JaxInv

LEMMA BackwardStep ==
  ASSUME CallerAssumption, IInv, Backward
  PROVE  IInv'
<1> DEFINE core == BackwardCore(solver.impl)
<1>1. /\ UNCHANGED <<front, solver, asked, answer, runs, spoiled>>
      /\ front \in {"single", "compiled"} /\ Differentiable(answer) # {}
      /\ grad' = [i \in DOMAIN core.cache |-> core.cache[i]]
  BY DEF Backward
<1>2. answer # <<>>
  BY <1>1 DEF Differentiable
<1>3. ASSUME IF front = "single" THEN ~answer[1].point.warm ELSE ~Retried
      PROVE  core.cache = Points(answer)
  <2>1. CASE front = "single"
    BY <1>2, <1>3, <2>1 DEF IInv, SingleInv, IsCacheOf, BackwardCore
  <2>2. CASE front = "compiled"
    BY <1>2, <1>3, <2>2 DEF IInv, CompiledInv, IsCacheOf, BackwardCore
  <2> QED BY <1>1, <2>1, <2>2
<1> HIDE DEF core
<1>4. GradientIsAtTheAnswer'
  <2> SUFFICES ASSUME NEW i \in DOMAIN grad',
                      IF front = "single" THEN ~answer[1].point.warm ELSE ~Retried
               PROVE  grad'[i] = answer[i].point
    BY <1>1 DEF GradientIsAtTheAnswer, Retried
  <2>1. core.cache = Points(answer)
    BY <1>3
  <2> QED BY <1>1, <2>1 DEF Points
<1>5. SolvesWhatItWasGiven' /\ MergeIsConsistent'
  BY <1>1 DEF IInv, AnswerInv, SolvesWhatItWasGiven, MergeIsConsistent
<1>6. SingleInv' /\ CompiledInv'
  BY <1>1 DEF IInv, SingleInv, CompiledInv, Retried, IsCacheOf, Points
<1> QED BY <1>1, <1>4, <1>5, <1>6 DEF IInv, TypeInv, AnswerInv, TorchInv, JaxInv

-----------------------------------------------------------------------------
LEMMA TorchForFacts ==
  ASSUME NEW s \in TorchSet, NEW k \in Nat
  PROVE  /\ TorchFor(s, k) \in TorchSet /\ TorchFor(s, k).size = k
         /\ TorchFor(s, k).shared = s.shared
         /\ TorchHolds(s) => TorchHolds(TorchFor(s, k))
         /\ s.size # k => TorchFor(s, k).impl.values = NoValues
<1>1. CASE s.size = k
  BY <1>1 DEF TorchFor
<1>2. CASE s.size # k
  <2>1. /\ NewAdapter(k, s.pattern) \in AdapterSet /\ Coherent(NewAdapter(k, s.pattern))
        /\ NewAdapter(k, s.pattern).values = NoValues
    BY NewAdapterFacts DEF TorchSet
  <2> QED BY <1>2, <2>1 DEF TorchFor, TorchSet, TorchHolds
<1> QED BY <1>1, <1>2

\* Before a solve that does not raise, the adapter has the matrices passed.
LEMMA TorchReadyFacts ==
  ASSUME CallerAssumption, NEW s \in TorchSet, NEW k \in Batches, NEW v \in ValuesFor(k),
         ~TorchRaises(s, v, k)
  PROVE  LET t == TorchReady(s, v, k) IN
           /\ t \in TorchSet /\ t.size = k /\ t.impl.values # NoValues
           /\ TorchHolds(s) => Coherent(t.impl) /\ t.impl.values.id = v.id
           /\ TorchHolds(s) /\ ~Overwrites(s, v, k) => TorchHolds(t)
           /\ v.form = "shared" /\ k > 1 => t.shared = v
<1> DEFINE t == TorchFor(s, k)
           a == AdapterSetup(t.impl, Tiled(v, k))
           fresh == IF s.size = k THEN s.shared ELSE NoValues
<1>1. /\ k \in Nat /\ k >= 1 /\ v \in ValueSet /\ v.form \in Forms
      /\ Tiled(v, k) \in ValueSet /\ Tiled(v, k).id = v.id /\ Tiled(v, k).form = "batch"
  BY PassedFacts
<1>2. /\ t \in TorchSet /\ t.size = k /\ t.shared = s.shared
      /\ TorchHolds(s) => TorchHolds(t)
      /\ s.size # k => t.impl.values = NoValues
  BY <1>1, TorchForFacts
<1>3. a \in AdapterSet /\ a.values = Tiled(v, k) /\ (Coherent(t.impl) => Coherent(a))
  BY <1>1, <1>2, SetupFacts DEF TorchSet
<1>4. v # NoValues /\ v # Unset /\ Tiled(v, k) # NoValues
  BY <1>1, ValueFacts DEF Forms
<1>5. CASE k = 1 \/ v.form = "batch"
  <2>1. TorchReady(s, v, k) = [t EXCEPT !.impl = a]
    BY <1>5 DEF TorchReady
  <2>2. k > 1 /\ ~Overwrites(s, v, k) => s.shared \in {Unset, NoValues}
    BY <1>1, <1>5 DEF Overwrites
  <2> HIDE DEF t, a
  <2> QED BY <1>1, <1>2, <1>3, <1>4, <1>5, <2>1, <2>2 DEF TorchSet, TorchHolds, Forms
<1>6. CASE k > 1 /\ v.form = "shared" /\ fresh \in {v, Unset}
  <2>1. TorchReady(s, v, k) = [t EXCEPT !.shared = fresh]
    BY <1>6 DEF TorchReady
  <2>2. fresh # Unset /\ t.impl.values # NoValues
    BY <1>2, <1>6, <2>1 DEF TorchRaises, TorchSet
  <2>3. s.size = k /\ s.shared = v /\ fresh = v
    BY <1>2, <1>4, <1>6, <2>2
  <2> HIDE DEF t, a, fresh
  <2> QED BY <1>1, <1>2, <1>4, <1>6, <2>1, <2>2, <2>3 DEF TorchSet, TorchHolds
<1>7. CASE k > 1 /\ v.form = "shared" /\ fresh \notin {v, Unset}
  <2>1. TorchReady(s, v, k) = [t EXCEPT !.impl = a, !.shared = v]
    BY <1>7 DEF TorchReady
  <2> HIDE DEF t, a
  <2> QED BY <1>1, <1>2, <1>3, <1>4, <1>7, <2>1 DEF TorchSet, TorchHolds
<1> QED BY <1>1, <1>5, <1>6, <1>7 DEF Forms

\* What was ready for the first run is ready for the second.
LEMMA TorchRetryFacts ==
  ASSUME CallerAssumption, NEW s \in TorchSet, NEW k \in Batches, NEW v \in ValuesFor(k),
         s.size = k, s.impl.values # NoValues, v.form = "shared" /\ k > 1 => s.shared = v
  PROVE  ~TorchRaises(s, v, k)
<1> SUFFICES ASSUME k > 1, v.form = "shared" PROVE ~TorchRaises(s, v, k)
  BY DEF TorchRaises
<1>1. v # Unset /\ v # NoValues
  BY PassedFacts, ValueFacts DEF Forms
<1>2. TorchReady(s, v, k) = [s EXCEPT !.shared = v]
  BY PassedFacts DEF TorchReady, TorchFor
<1> QED BY <1>1, <1>2 DEF TorchRaises, TorchSet

LEMMA TorchSolveStep ==
  ASSUME CallerAssumption, IInv, TorchSolve
  PROVE  IInv'
<1> DEFINE G(k, v) == TorchReady(solver, v, k)
           F(k, v, w, st) == AdapterSolve(G(k, v).impl, FALSE, runs + 1, k, w, st)
           R(k, v, w, st) == MustRetry(w, F(k, v, w, st).results)
           Again(k, v, w, st) ==
             TorchReady([G(k, v) EXCEPT !.impl = F(k, v, w, st).adapter], v, k)
           L(k, v, w, st, st2) ==
             IF R(k, v, w, st)
             THEN AdapterSolve(Again(k, v, w, st).impl, FALSE, runs + 2, k, FALSE, st2)
             ELSE F(k, v, w, st)
<1> DEFINE Outcome(k, v) ==
             /\ ~TorchRaises(solver, v, k)
             /\ spoiled' = (spoiled \/ Overwrites(solver, v, k))
             /\ \E w \in BOOLEAN, st \in Outcomes(k) : \E st2 \in ColdOutcomes(R(k, v, w, st), k) :
                  /\ solver' = [G(k, v) EXCEPT !.impl = L(k, v, w, st, st2).adapter]
                  /\ Answers(v, w, F(k, v, w, st).results, Returned(L(k, v, w, st, st2).results))
                  /\ runs' = IF R(k, v, w, st) THEN runs + 2 ELSE runs + 1
                  /\ runs' <= MaxRuns[front]
<1>1. PICK k \in Batches : \E v \in ValuesFor(k) : Outcome(k, v)
  BY ZenonT(60) DEF TorchSolve
<1>2. PICK v \in ValuesFor(k) : Outcome(k, v)
  BY <1>1, Zenon
<1>3. /\ ~TorchRaises(solver, v, k)
      /\ ~spoiled' => ~spoiled /\ ~Overwrites(solver, v, k)
      /\ spoiled' \in BOOLEAN
  BY <1>2, Zenon
<1>4. PICK w \in BOOLEAN, st \in Outcomes(k) : \E st2 \in ColdOutcomes(R(k, v, w, st), k) :
        /\ solver' = [G(k, v) EXCEPT !.impl = L(k, v, w, st, st2).adapter]
        /\ Answers(v, w, F(k, v, w, st).results, Returned(L(k, v, w, st, st2).results))
        /\ runs' = IF R(k, v, w, st) THEN runs + 2 ELSE runs + 1
        /\ runs' <= MaxRuns[front]
  BY <1>2, Zenon
<1>5. PICK st2 \in ColdOutcomes(R(k, v, w, st), k) :
        /\ solver' = [G(k, v) EXCEPT !.impl = L(k, v, w, st, st2).adapter]
        /\ Answers(v, w, F(k, v, w, st).results, Returned(L(k, v, w, st, st2).results))
        /\ runs' = IF R(k, v, w, st) THEN runs + 2 ELSE runs + 1
        /\ runs' <= MaxRuns[front]
  BY <1>4, Zenon
<1> DEFINE ready == G(k, v)
           f == F(k, v, w, st)
           l == L(k, v, w, st, st2)
           again == Again(k, v, w, st)
<1>6. /\ front = "torch" /\ front' = front
      /\ solver \in TorchSet /\ runs \in Nat /\ spoiled \in BOOLEAN
      /\ ~spoiled => TorchHolds(solver)
  BY DEF TorchSolve, IInv, TorchInv, TypeInv
<1>7. k \in Nat /\ k >= 1 /\ v \in ValueSet /\ v.form \in Forms
  BY PassedFacts
<1>8. /\ ready \in TorchSet /\ ready.size = k /\ ready.impl.values # NoValues
      /\ ~spoiled => Coherent(ready.impl) /\ ready.impl.values.id = v.id
      /\ ~spoiled /\ ~Overwrites(solver, v, k) => TorchHolds(ready)
      /\ v.form = "shared" /\ k > 1 => ready.shared = v
  BY <1>3, <1>6, TorchReadyFacts
<1>9. /\ f.adapter \in AdapterSet /\ f.adapter.values = ready.impl.values
      /\ Coherent(ready.impl) => Coherent(f.adapter)
      /\ f.results \in Seq(ResultSet) /\ DOMAIN f.results = 1..k
      /\ ~spoiled => \A i \in 1..k : f.results[i].mats.id = v.id
  <2>1. runs + 1 \in Nat /\ ready.impl \in AdapterSet
    BY <1>6, <1>8 DEF TorchSet
  <2>2. Solved(ready.impl, FALSE, k, w, f)
    BY <1>7, <2>1, SolveFacts, Zenon
  <2> HIDE DEF f, ready
  <2> QED BY <1>8, <2>2 DEF Solved
<1>10. ASSUME R(k, v, w, st)
      PROVE  /\ l.adapter \in AdapterSet /\ l.results \in Seq(ResultSet) /\ DOMAIN l.results = 1..k
             /\ \A i \in 1..k : l.results[i].warm = FALSE
             /\ ~spoiled' => /\ Coherent(l.adapter) /\ l.adapter.values.id = v.id
                             /\ \A i \in 1..k : l.results[i].mats.id = v.id
  <2>1. st2 \in Outcomes(k)
    BY <1>10, RetryOutcomes DEF MustRetry
  <2>2. l = AdapterSolve(again.impl, FALSE, runs + 2, k, FALSE, st2)
    BY <1>10
  <2> DEFINE mid == [ready EXCEPT !.impl = f.adapter]
  <2>3. again = TorchReady(mid, v, k)
    OBVIOUS
  <2> HIDE DEF f, l, F, L, R, G, Again, ready, again
  <2>4. /\ mid \in TorchSet /\ mid.size = k /\ mid.impl = f.adapter /\ mid.shared = ready.shared
        /\ mid.impl.values # NoValues
    BY <1>8, <1>9 DEF TorchSet
  <2>5. ~spoiled' => TorchHolds(mid)
    BY <1>3, <1>8, <1>9, <2>4 DEF TorchHolds
  <2>6. ~TorchRaises(mid, v, k)
    BY <1>8, <2>4, TorchRetryFacts
  <2> HIDE DEF mid
  <2>7. /\ again \in TorchSet /\ again.impl.values # NoValues
        /\ ~spoiled' => Coherent(again.impl) /\ again.impl.values.id = v.id
    BY <2>3, <2>4, <2>5, <2>6, TorchReadyFacts
  <2>8. runs + 2 \in Nat /\ again.impl \in AdapterSet
    BY <1>6, <2>7 DEF TorchSet
  <2>9. Solved(again.impl, FALSE, k, FALSE, l)
    BY <1>7, <2>1, <2>2, <2>8, SolveFacts, Zenon
  <2> QED BY <2>7, <2>9 DEF Solved
<1>11. /\ solver' = [ready EXCEPT !.impl = l.adapter]
       /\ Answers(v, w, f.results, Returned(l.results))
       /\ MustRetry(w, f.results) <=> R(k, v, w, st)
       /\ ~R(k, v, w, st) => l = f
       /\ runs' \in {runs + 1, runs + 2}
  BY <1>5
<1> HIDE DEF f, l, F, L, R, G, Again, ready, again, Outcome
<1>12. /\ l.adapter \in AdapterSet /\ l.results \in Seq(ResultSet) /\ DOMAIN l.results = 1..k
       /\ ~spoiled' => /\ Coherent(l.adapter) /\ l.adapter.values.id = v.id
                       /\ \A i \in 1..k : l.results[i].mats.id = v.id
       /\ IF MustRetry(w, f.results) THEN \A i \in 1..k : l.results[i].warm = FALSE
          ELSE l.results = f.results
  BY <1>3, <1>8, <1>9, <1>10, <1>11
<1>13. AnswerInv' /\ grad' = <<>>
  <2>1. front' \in {"single", "compiled"} => k = 1 \/ l.results = f.results
    BY <1>6
  <2>2. ~spoiled' => \A i \in 1..k : l.results[i].mats.id = v.id
    BY <1>12
  <2>3. GoodReturn(k, v, w, f.results, l.results)
    BY <1>7, <1>9, <1>11, <1>12, <2>1, <2>2 DEF GoodReturn
  <2> QED BY <2>3, ReturnedStep, Zenon
<1>14. solver' \in TorchSet /\ (~spoiled' => TorchHolds(solver'))
  BY <1>3, <1>8, <1>11, <1>12 DEF TorchSet, TorchHolds
<1>15. TorchInv'
  BY <1>13, <1>14 DEF TorchInv
<1>16. TypeInv'
  BY <1>3, <1>6, <1>11 DEF TypeInv, IInv
<1> QED BY <1>6, <1>13, <1>15, <1>16 DEF IInv, SingleInv, CompiledInv, JaxInv

LEMMA BackwardFacts ==
  ASSUME NEW a \in AdapterSet, NEW k \in Nat, NEW failed \in BOOLEAN
  PROVE  /\ BackwardWithData(a, k, failed) \in AdapterSet
         /\ ~failed => BackwardWithData(a, k, failed) = a
<1>1. WithForeign(a, k) \in AdapterSet
  <2>1. Foreign \in ValueSet
    BY ValueFacts
  <2>2. /\ [a.single EXCEPT !.mats = Foreign] \in CoreSet
        /\ [a.compiled EXCEPT !.mats = Foreign] \in CoreSet
    BY <2>1 DEF AdapterSet, CoreSet
  <2>3. /\ [a EXCEPT !.single = [a.single EXCEPT !.mats = Foreign]] \in AdapterSet
        /\ [a EXCEPT !.compiled = [a.compiled EXCEPT !.mats = Foreign]] \in AdapterSet
    BY <2>2 DEF AdapterSet
  <2> QED BY <2>3 DEF WithForeign
<1> QED BY <1>1 DEF BackwardWithData

LEMMA TorchBackwardStep ==
  ASSUME CallerAssumption, IInv, TorchBackward
  PROVE  IInv'
<1>1. PICK n \in Batches, failed \in BOOLEAN :
        /\ solver' = [TorchFor(solver, n) EXCEPT !.impl = BackwardWithData(@, n, failed)]
        /\ spoiled' = (spoiled \/ failed)
  BY DEF TorchBackward
<1>2. /\ front = "torch" /\ UNCHANGED <<front, asked, answer, grad, runs>>
      /\ solver \in TorchSet /\ grad = <<>> /\ spoiled \in BOOLEAN
      /\ ~spoiled => TorchHolds(solver)
  BY DEF TorchBackward, IInv, TorchInv, TypeInv
<1> DEFINE t == TorchFor(solver, n)
<1>3. n \in Nat
  BY DEF Batches, CallerAssumption
<1>4. t \in TorchSet /\ (TorchHolds(solver) => TorchHolds(t))
  BY <1>2, <1>3, TorchForFacts
<1>5. /\ BackwardWithData(t.impl, n, failed) \in AdapterSet
      /\ ~failed => BackwardWithData(t.impl, n, failed) = t.impl
  BY <1>3, <1>4, BackwardFacts DEF TorchSet
<1>6. solver' = [t EXCEPT !.impl = BackwardWithData(t.impl, n, failed)]
  BY <1>1, <1>4 DEF TorchSet
<1> HIDE DEF t
<1>7. solver' \in TorchSet /\ (~failed => solver' = t)
  BY <1>4, <1>5, <1>6 DEF TorchSet
<1>8. TorchInv'
  BY <1>1, <1>2, <1>4, <1>7 DEF TorchInv
<1>9. AnswerInv' /\ TypeInv'
  BY <1>1, <1>2, AnswerKept DEF IInv, TypeInv
<1> QED BY <1>2, <1>8, <1>9 DEF IInv, SingleInv, CompiledInv, JaxInv

LEMMA TorchResetStep ==
  ASSUME CallerAssumption, IInv, TorchReset
  PROVE  IInv'
<1>1. /\ front = "torch" /\ UNCHANGED <<front, asked, answer, grad, runs, spoiled>>
      /\ solver' = [solver EXCEPT !.impl = NewAdapter(1, FALSE), !.size = 0, !.shared = NoValues]
      /\ solver \in TorchSet /\ grad = <<>>
  BY DEF TorchReset, IInv, TorchInv
<1>2. NewAdapter(1, FALSE) \in AdapterSet /\ Coherent(NewAdapter(1, FALSE))
  BY NewAdapterFacts
<1>3. TorchInv'
  BY <1>1, <1>2, ValueFacts DEF TorchInv, TorchSet, TorchHolds
<1>4. AnswerInv' /\ TypeInv'
  BY <1>1, AnswerKept DEF IInv, TypeInv
<1> QED BY <1>1, <1>3, <1>4 DEF IInv, SingleInv, CompiledInv, JaxInv

-----------------------------------------------------------------------------
LEMMA JaxForFacts ==
  ASSUME NEW s \in JaxSet, JaxMade(s), NEW k \in Batches, CallerAssumption
  PROVE  /\ JaxFor(s, k) \in JaxSet /\ JaxMade(JaxFor(s, k)) /\ k \in JaxFor(s, k).made
         /\ JaxHolds(s) => JaxHolds(JaxFor(s, k))
<1>1. CASE k \in s.made
  BY <1>1 DEF JaxFor
<1>2. CASE k \notin s.made
  <2> DEFINE a == NewAdapter(k, s.pattern)
  <2>1. a \in AdapterSet /\ Coherent(a)
    BY NewAdapterFacts DEF JaxSet, Batches, CallerAssumption
  <2> DEFINE t == [s EXCEPT !.made = s.made \cup {k}, !.impls = [s.impls EXCEPT ![k] = a]]
  <2>2. JaxFor(s, k) = t
    BY <1>2 DEF JaxFor, JaxSet
  <2> HIDE DEF a
  <2>3. /\ t \in JaxSet /\ t.made = s.made \cup {k} /\ t.cached = s.cached
        /\ \A n \in Batches : t.impls[n] = IF n = k THEN a ELSE s.impls[n]
    BY <2>1 DEF JaxSet
  <2>4. JaxMade(t)
    BY <2>3 DEF JaxMade
  <2>5. JaxHolds(s) => JaxHolds(t)
    BY <1>2, <2>1, <2>3 DEF JaxHolds, JaxMade
  <2> QED BY <2>2, <2>3, <2>4, <2>5
<1> QED BY <1>1, <1>2

\* Before a run, the adapter has the matrices passed.
LEMMA JaxReadyFacts ==
  ASSUME CallerAssumption, NEW s \in JaxSet, JaxMade(s), NEW k \in Batches,
         NEW v \in ValuesFor(k), NEW oneD \in BOOLEAN
  PROVE  LET t == JaxReady(s, v, k, oneD) IN
           /\ t \in JaxSet /\ JaxMade(t)
           /\ JaxHolds(s) => /\ JaxHolds(t) /\ t.impls[k].values # NoValues
                             /\ t.impls[k].values.id = v.id
<1> DEFINE t == JaxFor(s, k)
           u == IF oneD THEN Tiled(v, 1) ELSE v
           a == AdapterSetup(t.impls[k], u)
           r == [t EXCEPT !.impls = [t.impls EXCEPT ![k] = a],
                          !.cached = [t.cached EXCEPT ![k] = Bytes(v, k)]]
<1>1. t \in JaxSet /\ JaxMade(t) /\ k \in t.made /\ (JaxHolds(s) => JaxHolds(t))
  BY JaxForFacts
<1>2. /\ v \in ValueSet /\ v.form \in Forms
      /\ Tiled(v, 1) \in ValueSet /\ Tiled(v, 1).id = v.id /\ Tiled(v, 1).form = "batch"
  BY PassedFacts
<1>3. /\ Bytes(v, k) \in ValueSet /\ Bytes(v, k).id = v.id /\ Bytes(v, k) # NoBytes
      /\ u \in ValueSet /\ u.id = v.id /\ u # NoValues
  BY <1>2, ValueFacts DEF Bytes, Forms, NoBytes
<1>4. CASE t.cached[k] = Bytes(v, k)
  <2>1. JaxReady(s, v, k, oneD) = t
    BY <1>4 DEF JaxReady
  <2> HIDE DEF t
  <2> QED BY <1>1, <1>3, <1>4, <2>1 DEF JaxHolds
<1>5. CASE t.cached[k] # Bytes(v, k)
  <2>1. JaxReady(s, v, k, oneD) = r
    BY <1>1, <1>5 DEF JaxReady, JaxSet
  <2> HIDE DEF t, u
  <2>2. t.impls[k] \in AdapterSet
    BY <1>1 DEF JaxSet
  <2>3. a \in AdapterSet /\ a.values = u /\ (Coherent(t.impls[k]) => Coherent(a))
    BY <1>3, <2>2, SetupFacts
  <2> HIDE DEF a
  <2>4. /\ r \in JaxSet /\ r.made = t.made
        /\ \A n \in Batches : r.impls[n] = IF n = k THEN a ELSE t.impls[n]
        /\ \A n \in Batches : r.cached[n] = IF n = k THEN Bytes(v, k) ELSE t.cached[n]
    BY <1>1, <1>3, <2>3 DEF JaxSet
  <2> HIDE DEF r
  <2>5. JaxMade(r)
    BY <1>1, <2>4 DEF JaxMade
  <2>6. JaxHolds(s) => JaxHolds(r)
    BY <1>1, <1>3, <2>3, <2>4 DEF JaxHolds
  <2> QED BY <1>3, <2>1, <2>3, <2>4, <2>5, <2>6
<1> QED BY <1>4, <1>5

\* What is promised of a run of the callback.
Ran(s, v, k, w, run) ==
  /\ run.solver \in JaxSet /\ JaxMade(run.solver)
  /\ run.results \in Seq(ResultSet) /\ DOMAIN run.results = 1..k
  /\ \A i \in 1..k : run.results[i].warm = w
  /\ JaxHolds(s) => /\ JaxHolds(run.solver)
                    /\ \A i \in 1..k : run.results[i].mats.id = v.id

LEMMA JaxRunFacts ==
  ASSUME CallerAssumption, NEW s \in JaxSet, JaxMade(s), NEW k \in Batches,
         NEW v \in ValuesFor(k), NEW oneD \in BOOLEAN, NEW r \in Nat,
         NEW w \in BOOLEAN, NEW st \in Outcomes(k)
  PROVE  Ran(s, v, k, w, JaxRun(s, v, k, oneD, r, w, st))
<1> DEFINE t == JaxReady(s, v, k, oneD)
           run == AdapterSolve(t.impls[k], FALSE, r, k, w, st)
           u == [t EXCEPT !.impls = [t.impls EXCEPT ![k] = run.adapter]]
<1>1. /\ t \in JaxSet /\ JaxMade(t)
      /\ JaxHolds(s) => /\ JaxHolds(t) /\ t.impls[k].values # NoValues
                        /\ t.impls[k].values.id = v.id
  BY JaxReadyFacts
<1>2. k \in Nat /\ t.impls[k] \in AdapterSet
  BY <1>1 DEF JaxSet, Batches, CallerAssumption
<1>3. Solved(t.impls[k], FALSE, k, w, run)
  BY <1>2, SolveFacts, Zenon
<1>4. JaxRun(s, v, k, oneD, r, w, st) = [solver |-> u, results |-> run.results]
  BY <1>1 DEF JaxRun, JaxSet
<1> HIDE DEF t, run
<1>5. /\ u \in JaxSet /\ u.made = t.made /\ u.cached = t.cached
      /\ \A n \in Batches : u.impls[n] = IF n = k THEN run.adapter ELSE t.impls[n]
  BY <1>1, <1>3 DEF JaxSet, Solved
<1> HIDE DEF u
<1>6. JaxMade(u)
  BY <1>1, <1>5 DEF JaxMade
<1>7. JaxHolds(s) => JaxHolds(u) /\ \A i \in 1..k : run.results[i].mats.id = v.id
  BY <1>1, <1>3, <1>5 DEF JaxHolds, Solved
<1> QED BY <1>3, <1>4, <1>5, <1>6, <1>7 DEF Ran, Solved

\* What a solver holds does not depend on the warm start left in it.
LEMMA PendingFacts ==
  ASSUME NEW s \in JaxSet, NEW n \in Nat
  PROVE  /\ [s EXCEPT !.pending = n] \in JaxSet
         /\ JaxMade(s) => JaxMade([s EXCEPT !.pending = n])
         /\ JaxHolds(s) => JaxHolds([s EXCEPT !.pending = n])
BY DEF JaxSet, JaxMade, JaxHolds

LEMMA JaxRefusedStep ==
  ASSUME CallerAssumption, IInv, JaxRefused
  PROVE  IInv'
<1>1. PICK k \in Batches, left \in BOOLEAN :
        solver' = [solver EXCEPT !.pending = IF left THEN k ELSE 0]
  BY DEF JaxRefused
<1>2. /\ front = "jax" /\ UNCHANGED <<front, asked, answer, grad, runs, spoiled>>
      /\ solver \in JaxSet /\ JaxMade(solver) /\ grad = <<>>
      /\ ~spoiled => JaxHolds(solver)
  BY DEF JaxRefused, IInv, JaxInv
<1>3. (IF left THEN k ELSE 0) \in Nat
  BY DEF Batches, CallerAssumption
<1>4. JaxInv'
  BY <1>1, <1>2, <1>3, PendingFacts DEF JaxInv
<1>5. AnswerInv' /\ TypeInv'
  BY <1>2, AnswerKept DEF IInv, TypeInv
<1> QED BY <1>2, <1>4, <1>5 DEF IInv, SingleInv, CompiledInv, TorchInv

LEMMA JaxBackwardStep ==
  ASSUME CallerAssumption, IInv, JaxBackward
  PROVE  IInv'
<1> DEFINE t(n) == JaxFor(solver, n)
           u(n, failed) == [t(n) EXCEPT !.impls = [t(n).impls EXCEPT
                              ![n] = BackwardWithData(t(n).impls[n], n, failed)]]
<1>1. /\ front = "jax" /\ UNCHANGED <<front, asked, answer, grad, runs>>
      /\ solver \in JaxSet /\ JaxMade(solver) /\ grad = <<>> /\ spoiled \in BOOLEAN
      /\ ~spoiled => JaxHolds(solver)
  BY DEF JaxBackward, IInv, JaxInv, TypeInv
<1>2. \A n \in Batches : t(n) \in JaxSet /\ JaxMade(t(n)) /\ n \in t(n).made
                         /\ (JaxHolds(solver) => JaxHolds(t(n)))
  BY <1>1, JaxForFacts
<1>3. PICK n \in Batches, failed \in BOOLEAN :
        /\ solver' = IF failed THEN u(n, failed) ELSE [u(n, failed) EXCEPT !.cached[n] = NoBytes]
        /\ spoiled' = (spoiled \/ failed)
  BY <1>2 DEF JaxBackward, JaxSet
<1> DEFINE a == BackwardWithData(t(n).impls[n], n, failed)
           b == u(n, failed)
           c == [b EXCEPT !.cached = [b.cached EXCEPT ![n] = NoBytes]]
<1>4. a \in AdapterSet /\ (~failed => a = t(n).impls[n])
  <2>1. n \in Nat /\ t(n).impls[n] \in AdapterSet
    BY <1>2 DEF JaxSet, Batches, CallerAssumption
  <2> QED BY <2>1, BackwardFacts
<1>5. b = [t(n) EXCEPT !.impls = [t(n).impls EXCEPT ![n] = a]] /\ t(n) \in JaxSet
      /\ JaxMade(t(n)) /\ n \in t(n).made /\ (JaxHolds(solver) => JaxHolds(t(n)))
  BY <1>2
<1> HIDE DEF a, t, u, b
<1>6. /\ b \in JaxSet /\ b.made = t(n).made /\ b.cached = t(n).cached
      /\ \A k \in Batches : b.impls[k] = IF k = n THEN a ELSE t(n).impls[k]
  BY <1>4, <1>5 DEF JaxSet
<1>7. /\ c \in JaxSet /\ c.made = b.made /\ c.impls = b.impls
      /\ \A k \in Batches : c.cached[k] = IF k = n THEN NoBytes ELSE b.cached[k]
  BY <1>6, ValueFacts DEF JaxSet, NoBytes
<1>8. solver' = (IF failed THEN b ELSE c) /\ (~spoiled' => ~spoiled /\ ~failed)
      /\ spoiled' \in BOOLEAN
  BY <1>1, <1>3, <1>6 DEF b, JaxSet
<1> HIDE DEF c
<1>9. JaxMade(b) /\ JaxMade(c)
  BY <1>5, <1>6, <1>7 DEF JaxMade
<1>10. ~spoiled' => JaxHolds(c)
  <2> SUFFICES ASSUME ~spoiled' PROVE JaxHolds(c)
    OBVIOUS
  <2>1. JaxHolds(t(n)) /\ a = t(n).impls[n]
    BY <1>1, <1>4, <1>5, <1>8
  <2> QED BY <1>5, <1>6, <1>7, <2>1 DEF JaxHolds
<1>11. JaxInv'
  BY <1>1, <1>6, <1>7, <1>8, <1>9, <1>10 DEF JaxInv
<1>12. AnswerInv' /\ TypeInv'
  BY <1>1, <1>3, <1>8, AnswerKept DEF IInv, TypeInv
<1> QED BY <1>1, <1>11, <1>12 DEF IInv, SingleInv, CompiledInv, TorchInv

LEMMA JaxSolveStep ==
  ASSUME CallerAssumption, IInv, JaxSolve
  PROVE  IInv'
<1> DEFINE F(k, v, one, found, st) == JaxRun(solver, v, k, one, runs + 1, found, st)
           R(k, v, w, one, found, st) ==
             ~(w /\ k > 1) /\ MustRetry(w, F(k, v, one, found, st).results)
           L(k, v, w, one, found, st, st2) ==
             IF R(k, v, w, one, found, st)
             THEN JaxRun(F(k, v, one, found, st).solver, v, k, one, runs + 2, FALSE, st2)
             ELSE F(k, v, one, found, st)
           Outcome(k, v, w, one, found, st, st2) ==
             /\ solver' = [L(k, v, w, one, found, st, st2).solver EXCEPT
                             !.pending = IF w THEN 0 ELSE @]
             /\ runs' = IF R(k, v, w, one, found, st) THEN runs + 2 ELSE runs + 1
             /\ runs' <= MaxRuns[front]
             /\ IF w /\ k > 1 THEN UNCHANGED <<asked, answer, grad>>
                ELSE Answers(v, w, F(k, v, one, found, st).results,
                             Returned(L(k, v, w, one, found, st, st2).results))
<1>1. PICK k \in Batches, w \in BOOLEAN, one \in BOOLEAN :
        /\ one => k = 1
        /\ ~w => solver.pending \in {0, k}
        /\ \E v \in ValuesFor(k), found \in FindsWarm(w, k), st \in Outcomes(k) :
             /\ one => v.form = "shared"
             /\ \E st2 \in ColdOutcomes(R(k, v, w, one, found, st), k) :
                  Outcome(k, v, w, one, found, st, st2)
  BY ZenonT(60) DEF JaxSolve
<1>2. PICK v \in ValuesFor(k), found \in FindsWarm(w, k), st \in Outcomes(k) :
        \E st2 \in ColdOutcomes(R(k, v, w, one, found, st), k) :
          Outcome(k, v, w, one, found, st, st2)
  <2> HIDE DEF F, R, L, Outcome
  <2> QED BY <1>1, Zenon
<1>3. PICK st2 \in ColdOutcomes(R(k, v, w, one, found, st), k) :
        Outcome(k, v, w, one, found, st, st2)
  BY <1>2, Zenon
<1> DEFINE f == F(k, v, one, found, st)
           l == L(k, v, w, one, found, st, st2)
           retry == R(k, v, w, one, found, st)
<1>4. /\ front = "jax" /\ front' = front /\ spoiled' = spoiled
      /\ solver \in JaxSet /\ JaxMade(solver) /\ grad = <<>> /\ runs \in Nat
      /\ ~spoiled => JaxHolds(solver)
  BY DEF JaxSolve, IInv, JaxInv, TypeInv
<1>5. found \in BOOLEAN /\ k \in Nat
  <2>1. CASE w
    BY <2>1 DEF FindsWarm, Batches, CallerAssumption
  <2>2. CASE ~w
    <3>1. found = (solver.pending = k)
      BY <2>2, Zenon DEF FindsWarm
    <3>2. found \in BOOLEAN
      BY <3>1, Zenon
    <3> QED BY <3>2 DEF Batches, CallerAssumption
  <2> QED BY <2>1, <2>2
<1>6. Ran(solver, v, k, found, f)
  <2>1. runs + 1 \in Nat /\ solver \in JaxSet /\ JaxMade(solver)
    BY <1>4
  <2> QED BY <1>5, <2>1, JaxRunFacts, Zenon
<1>7. ASSUME retry
      PROVE  Ran(f.solver, v, k, FALSE, l)
  <2>1. st2 \in Outcomes(k)
    BY <1>7, RetryOutcomes DEF MustRetry
  <2>2. l = JaxRun(f.solver, v, k, one, runs + 2, FALSE, st2)
    BY <1>7
  <2> HIDE DEF f, l, F, L, R, retry, Outcome
  <2>3. runs + 2 \in Nat /\ f.solver \in JaxSet /\ JaxMade(f.solver)
    BY <1>4, <1>6 DEF Ran
  <2> QED BY <2>1, <2>2, <2>3, JaxRunFacts, Zenon
<1>8. /\ retry <=> ~(w /\ k > 1) /\ MustRetry(w, f.results)
      /\ ~retry => l = f
      /\ solver' = [l.solver EXCEPT !.pending = IF w THEN 0 ELSE l.solver.pending]
      /\ runs' \in {runs + 1, runs + 2}
      /\ w /\ k > 1 => UNCHANGED <<asked, answer, grad>>
      /\ ~(w /\ k > 1) => Answers(v, w, f.results, Returned(l.results))
  BY <1>3
<1> HIDE DEF f, l, F, L, R, retry, Outcome
<1>9. /\ l.solver \in JaxSet /\ JaxMade(l.solver) /\ (~spoiled => JaxHolds(l.solver))
      /\ f.results \in Seq(ResultSet) /\ DOMAIN f.results = 1..k
      /\ l.results \in Seq(ResultSet) /\ DOMAIN l.results = 1..k
      /\ ~spoiled => \A i \in 1..k : l.results[i].mats.id = v.id
      /\ retry => \A i \in 1..k : l.results[i].warm = FALSE
  BY <1>4, <1>6, <1>7, <1>8 DEF Ran
<1>10. AnswerInv' /\ grad' = <<>>
  <2>1. CASE w /\ k > 1
    <3>1. UNCHANGED <<front, asked, answer, grad>> /\ (spoiled => spoiled')
      BY <1>4, <1>8, <2>1
    <3> QED BY <1>4, <3>1, AnswerKept DEF IInv
  <2>2. CASE ~(w /\ k > 1)
    <3>1. /\ Answers(v, w, f.results, Returned(l.results))
          /\ IF MustRetry(w, f.results) THEN \A i \in 1..k : l.results[i].warm = FALSE
             ELSE l.results = f.results
          /\ front' \in {"single", "compiled"} => k = 1 \/ l.results = f.results
          /\ ~spoiled' => \A i \in 1..k : l.results[i].mats.id = v.id
      BY <1>4, <1>8, <1>9, <2>2
    <3>2. /\ k \in Nat /\ f.results \in Seq(ResultSet) /\ l.results \in Seq(ResultSet)
          /\ DOMAIN f.results = 1..k /\ DOMAIN l.results = 1..k
      BY <1>5, <1>9
    <3>3. GoodReturn(k, v, w, f.results, l.results)
      BY <3>1, <3>2 DEF GoodReturn
    <3> QED BY <3>3, ReturnedStep, Zenon
  <2> QED BY <2>1, <2>2
<1>11. JaxInv'
  <2>1. (IF w THEN 0 ELSE l.solver.pending) \in Nat
    BY <1>9 DEF JaxSet
  <2> QED BY <1>4, <1>8, <1>9, <1>10, <2>1, PendingFacts DEF JaxInv
<1>12. TypeInv'
  BY <1>4, <1>8 DEF TypeInv, IInv
<1> QED BY <1>4, <1>10, <1>11, <1>12 DEF IInv, SingleInv, CompiledInv, TorchInv

-----------------------------------------------------------------------------
THEOREM FrontEndsInductive == Spec => []IInv
<1>1. Init => IInv
  BY InitInv, CallerAssumption
<1>2. IInv /\ [Next]_callerVars => IInv'
  <2> SUFFICES ASSUME IInv, [Next]_callerVars PROVE IInv'
    OBVIOUS
  <2>1. CASE UNCHANGED callerVars
    BY <2>1 DEF callerVars, IInv, TypeInv, SingleInv, CompiledInv, TorchInv, JaxInv,
                AnswerInv, SolvesWhatItWasGiven, MergeIsConsistent, GradientIsAtTheAnswer,
                Retried, IsCacheOf, Points
  <2>2. CASE SingleSolve
    BY <2>2, SingleSolveStep, CallerAssumption
  <2>3. CASE CompiledSetup
    BY <2>3, CompiledSetupStep, CallerAssumption
  <2>4. CASE CompiledSolve
    BY <2>4, CompiledSolveStep, CallerAssumption
  <2>5. CASE Backward
    BY <2>5, BackwardStep, CallerAssumption
  <2>6. CASE TorchSolve
    BY <2>6, TorchSolveStep, CallerAssumption
  <2>7. CASE TorchBackward
    BY <2>7, TorchBackwardStep, CallerAssumption
  <2>8. CASE TorchReset
    BY <2>8, TorchResetStep, CallerAssumption
  <2>9. CASE JaxSolve
    BY <2>9, JaxSolveStep, CallerAssumption
  <2>10. CASE JaxRefused
    BY <2>10, JaxRefusedStep, CallerAssumption
  <2>11. CASE JaxBackward
    BY <2>11, JaxBackwardStep, CallerAssumption
  <2> QED BY <2>1, <2>2, <2>3, <2>4, <2>5, <2>6, <2>7, <2>8, <2>9, <2>10, <2>11
          DEF Next, SolversNext, TensorNext
<1> QED BY <1>1, <1>2, PTL DEF Spec

\* P and A reach the problems of every call, whatever the sequence of calls,
\* of batch sizes, of retries and of backward passes (those that spoil apart).
THEOREM MatricesArrive == Spec => []SolvesWhatItWasGiven
<1>1. IInv => SolvesWhatItWasGiven
  BY DEF IInv, AnswerInv
<1> QED BY <1>1, FrontEndsInductive, PTL

\* A retried batch is put together from the right runs, problem by problem.
THEOREM MergeConsistent == Spec => []MergeIsConsistent
<1>1. IInv => MergeIsConsistent
  BY DEF IInv, AnswerInv
<1> QED BY <1>1, FrontEndsInductive, PTL

\* backward() of Solver and CompiledSolver is taken at the answer.
THEOREM GradientAtAnswer == Spec => []GradientIsAtTheAnswer
<1>1. IInv => GradientIsAtTheAnswer
  BY DEF IInv, AnswerInv
<1> QED BY <1>1, FrontEndsInductive, PTL
=============================================================================

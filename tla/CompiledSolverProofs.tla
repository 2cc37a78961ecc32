------------------------ MODULE CompiledSolverProofs ------------------------
(***************************************************************************)
(* What a solve and a gradient of the batch solver work on, for every size *)
(* of the pool and of the batches and every number of calls.               *)
(*                                                                         *)
(* The argument follows the data: setup fills the slots and base, a solve  *)
(* carries them into its results, the results become the cache, backward   *)
(* carries the cache into slots again.  IInv says at each of these places  *)
(* what the data are known to agree with.                                  *)
(***************************************************************************)
EXTENDS CompiledSolver, SequenceTheorems, TLAPS

Ops == {"none", "solve", "parallel", "backward", "withData", "panicked"}
CallType == [op : Ops, id : 0..MaxCalls, todo : SUBSET Problems, out : Seq(Contents),
             failed : BOOLEAN]
TypeInv ==
  /\ gradEnabled \in BOOLEAN /\ precomputed \in BOOLEAN
  /\ pool \in Seq(Contents) /\ Len(pool) \in Slots
  /\ base \in Seq(Datum) /\ Len(base) <= MaxBatch
  /\ cache \in Seq(Contents) /\ Len(cache) <= MaxBatch
  /\ call \in CallType
  /\ call.todo \subseteq DOMAIN call.out /\ Len(call.out) <= MaxBatch
  /\ calls \in 0..MaxCalls /\ forward \in 0..MaxCalls
  /\ spoiled \in [Slots -> SUBSET {"parallel", "stale", "failed"}]
  /\ infSeen \subseteq Slots

\* The matrices of the last setup, all of one call, fit the pool.
BaseInv ==
  /\ precomputed => batchSize = Len(base) /\ batchSize > 0
  /\ Len(base) <= Len(pool)
  /\ \A s \in DOMAIN base : base[s].call \in 1..calls
  /\ \A s, t \in DOMAIN base : base[s].call = base[t].call

\* The call that runs is the newest; a problem still to do has no result.
CallInv ==
  /\ call.op # "none" => call.id = calls /\ calls > 0
  /\ call.op = "solve" => Len(call.out) = Len(base)
  /\ call.op = "backward" => Len(call.out) = Len(cache)
  /\ call.op = "parallel" => \A s \in DOMAIN base : base[s].call # call.id
  /\ \A i \in call.todo : call.out[i] = Empty

\* Contents c have the matrix and scaling of slot s as setup left them, except
\* for the rows a solve was told to drop.
Good(c, s) == c.A = base[s] /\ c.scale = base[s] /\ (c.zeroed <=> s \in infSeen)
Own(c, i) == i \in DOMAIN base /\ c.P = base[i]
Foreign(c) == \A s \in DOMAIN base : c.P.call # base[s].call

SlotInv == \A s \in DOMAIN base : spoiled[s] = {} => Good(pool[s], s)

\* A cached state is of the last forward call, and of the present setup, in the
\* slot of its own problem, or of none of it.
CacheInv ==
  /\ ~gradEnabled => cache = <<>>
  /\ \A i \in DOMAIN cache : cache[i] # Empty =>
       /\ cache[i].vec = [call |-> forward, prob |-> i] /\ cache[i].sol = cache[i].vec
       /\ cache[i].P.call <= calls
       /\ Own(cache[i], i) \/ Foreign(cache[i])
       /\ call.op # "solve" /\ Own(cache[i], i) /\ spoiled[i] = {} => Good(cache[i], i)

OutInv ==
  \A i \in Answered :
    LET c == call.out[i] IN
    /\ call.op \in {"solve", "parallel"} => c.vec = Here(i) /\ c.sol = Here(i)
    /\ call.op = "solve" => c.P = base[i] /\ (spoiled[i] = {} => Good(c, i))
    /\ call.op = "parallel" => c.P = Here(i)
    /\ call.op = "backward" => c = cache[i]
    /\ call.op = "withData" => c = Loaded(Here(i))

IInv == TypeInv /\ BaseInv /\ CallInv /\ SlotInv /\ CacheInv /\ OutInv

-----------------------------------------------------------------------------
USE PoolAssumption

LEMMA FunctionIsSeq ==
  ASSUME NEW S, NEW n \in Nat, NEW f \in [1..n -> S]
  PROVE  f \in Seq(S) /\ Len(f) = n /\ DOMAIN f = 1..n
<1>1. f \in Seq(S)
  BY SeqDef
<1>2. Len(f) \in Nat /\ DOMAIN f = 1..Len(f)
  BY <1>1, LenProperties
<1> QED BY <1>1, <1>2

\* A problem within the pool has the slot of its number, any other one some slot.
LEMMA SlotOfProblem ==
  ASSUME TypeInv, NEW i \in Nat \ {0}
  PROVE  SlotOf(i) \in 1..Len(pool) /\ (i <= Len(pool) => SlotOf(i) = i)
<1>1. Len(pool) \in Nat \ {0}
  BY DEF TypeInv, Slots
<1> QED BY <1>1 DEF SlotOf

LEMMA Bounds ==
  ASSUME TypeInv
  PROVE  /\ PoolLimit \in Nat \ {0} /\ PoolLimit >= MaxBatch /\ PoolLimit >= NumThreads
         /\ Len(pool) \in Nat \ {0} /\ DOMAIN pool = 1..Len(pool) /\ DOMAIN pool \subseteq Slots
         /\ \A s \in DOMAIN pool : pool[s] \in Contents
         /\ Len(base) \in Nat /\ DOMAIN base = 1..Len(base) /\ DOMAIN base \subseteq Slots
         /\ \A s \in DOMAIN base : base[s] \in Datum
         /\ Len(cache) \in Nat /\ DOMAIN cache = 1..Len(cache) /\ DOMAIN cache \subseteq Problems
         /\ \A s \in DOMAIN cache : cache[s] \in Contents
         /\ Len(call.out) \in Nat /\ DOMAIN call.out = 1..Len(call.out)
         /\ DOMAIN call.out \subseteq Problems
         /\ \A s \in DOMAIN call.out : call.out[s] \in Contents
<1>1. PoolLimit \in Nat \ {0} /\ PoolLimit >= MaxBatch /\ PoolLimit >= NumThreads
  BY DEF PoolLimit
<1>2. /\ Len(pool) \in Nat /\ DOMAIN pool = 1..Len(pool)
      /\ \A s \in DOMAIN pool : pool[s] \in Contents
  BY LenProperties, ElementOfSeq DEF TypeInv
<1>3. /\ Len(base) \in Nat /\ DOMAIN base = 1..Len(base)
      /\ \A s \in DOMAIN base : base[s] \in Datum
  BY LenProperties, ElementOfSeq DEF TypeInv
<1>4. /\ Len(cache) \in Nat /\ DOMAIN cache = 1..Len(cache)
      /\ \A s \in DOMAIN cache : cache[s] \in Contents
  BY LenProperties, ElementOfSeq DEF TypeInv
<1>5. call.out \in Seq(Contents)
  BY DEF TypeInv, CallType
<1>6. /\ Len(call.out) \in Nat /\ DOMAIN call.out = 1..Len(call.out)
      /\ \A s \in DOMAIN call.out : call.out[s] \in Contents
  BY <1>5, LenProperties, ElementOfSeq
<1> QED BY <1>1, <1>2, <1>3, <1>4, <1>6 DEF TypeInv, Slots, Problems

LEMMA DatumFields == \A c \in Contents : c.P \in Datum /\ c.P.call \in Nat
<1> SUFFICES ASSUME NEW c \in Contents PROVE c.P \in Datum /\ c.P.call \in Nat
  OBVIOUS
<1>1. c.P \in Datum
  BY DEF Contents
<1> QED BY <1>1 DEF Datum

LEMMA EmptyIsContents ==
  /\ Empty \in Contents /\ Empty.P.call = 0 /\ Empty.zeroed = FALSE
  /\ \A d \in Datum : Loaded(d) \in Contents
BY DEF Empty, Loaded, NoDatum, Contents, Datum

LEMMA InitInv == Init => IInv
<1> SUFFICES ASSUME Init PROVE IInv
  OBVIOUS
<1>1. pool \in [1..NumThreads -> Contents]
  BY EmptyIsContents DEF Init
<1>2. pool \in Seq(Contents) /\ Len(pool) = NumThreads
  BY <1>1, FunctionIsSeq
<1>3. NumThreads \in Slots
  BY DEF Slots, PoolLimit
<1>4. base = <<>> /\ cache = <<>> /\ <<>> \in Seq(Datum) /\ <<>> \in Seq(Contents) /\ Len(<<>>) = 0
  BY EmptySeq DEF Init
<1>5. DOMAIN base = {} /\ DOMAIN cache = {}
  BY <1>4
<1>6. call.op = "none" /\ call.todo = {} /\ call.out = <<>>
  BY DEF Init, Idle
<1>7. DOMAIN call.out = {}
  BY <1>6
<1>8. Idle \in CallType
  BY <1>4 DEF Idle, CallType, Ops
<1>9. TypeInv
  <2>1. gradEnabled \in BOOLEAN /\ precomputed \in BOOLEAN
    BY DEF Init
  <2>2. base \in Seq(Datum) /\ Len(base) <= MaxBatch /\ cache \in Seq(Contents) /\ Len(cache) <= MaxBatch
    BY <1>4
  <2>3. call \in CallType /\ call.todo \subseteq DOMAIN call.out /\ Len(call.out) <= MaxBatch
    BY <1>4, <1>6, <1>8 DEF Init
  <2>4. calls \in 0..MaxCalls /\ forward \in 0..MaxCalls
    BY DEF Init
  <2>5. spoiled \in [Slots -> SUBSET {"parallel", "stale", "failed"}] /\ infSeen \subseteq Slots
    BY DEF Init
  <2> QED BY <1>2, <1>3, <2>1, <2>2, <2>3, <2>4, <2>5 DEF TypeInv
<1> QED
  BY <1>2, <1>4, <1>5, <1>6, <1>7, <1>9
     DEF IInv, BaseInv, CallInv, SlotInv, CacheInv, OutInv, Answered, Init

-----------------------------------------------------------------------------
(* The shape of a call while it runs.                                       *)

LEMMA CallBegins ==
  ASSUME TypeInv, NEW op \in Ops, NEW k \in Problems, Begin(op, k)
  PROVE  /\ call.op = "none" /\ calls' = calls + 1 /\ calls' \in 0..MaxCalls /\ calls' > 0
         /\ call' \in CallType /\ call'.op = op /\ call'.id = calls'
         /\ call'.todo = 1..k /\ Len(call'.out) = k /\ DOMAIN call'.out = 1..k
         /\ \A i \in 1..k : call'.out[i] = Empty
         /\ Answered' = {}
<1> DEFINE out == [i \in 1..k |-> Empty]
<1>1. k \in Nat /\ 1..k \subseteq Problems
  BY DEF Problems
<1>2. out \in [1..k -> Contents]
  BY EmptyIsContents
<1>3. out \in Seq(Contents) /\ Len(out) = k /\ DOMAIN out = 1..k
  BY <1>1, <1>2, FunctionIsSeq
<1> HIDE DEF out
<1>4. calls' = calls + 1 /\ calls' \in 0..MaxCalls /\ calls' > 0 /\ call.op = "none"
  BY DEF Begin, TypeInv
<1>5. call' = [op |-> op, id |-> calls', todo |-> 1..k, out |-> out, failed |-> FALSE]
  BY DEF Begin, out
<1>6. call' \in CallType
  BY <1>1, <1>3, <1>4, <1>5 DEF CallType
<1>7. \A i \in 1..k : call'.out[i] = Empty
  BY <1>5 DEF out
<1> QED BY <1>3, <1>4, <1>5, <1>6, <1>7 DEF Answered

LEMMA TaskEnds ==
  ASSUME TypeInv, NEW i \in call.todo, NEW r \in Contents, NEW f \in BOOLEAN,
         call' = [call EXCEPT !.todo = @ \ {i}, !.failed = f, !.out[i] = r]
  PROVE  /\ call' \in CallType /\ call'.op = call.op /\ call'.id = call.id
         /\ call'.todo = call.todo \ {i}
         /\ Len(call'.out) = Len(call.out) /\ DOMAIN call'.out = DOMAIN call.out
         /\ call'.out[i] = r
         /\ \A j \in DOMAIN call.out : j # i => call'.out[j] = call.out[j]
         /\ i \in DOMAIN call.out /\ i \in Problems
<1>1. call \in CallType /\ call.out \in Seq(Contents) /\ i \in DOMAIN call.out /\ i \in Problems
  BY DEF TypeInv, CallType
<1>2. DOMAIN call.out = 1..Len(call.out) /\ Len(call.out) \in Nat
  BY <1>1, LenProperties
<1> DEFINE out == [call.out EXCEPT ![i] = r]
<1>3. /\ out \in Seq(Contents) /\ Len(out) = Len(call.out)
      /\ \A j \in 1..Len(call.out) : out[j] = IF j = i THEN r ELSE call.out[j]
  BY <1>1, <1>2, ExceptSeq
<1>4. DOMAIN out = DOMAIN call.out
  OBVIOUS
<1>5. call' = [op |-> call.op, id |-> call.id, todo |-> call.todo \ {i}, out |-> out, failed |-> f]
  BY <1>1 DEF CallType
<1> HIDE DEF out
<1> QED BY <1>1, <1>2, <1>3, <1>4, <1>5 DEF CallType

LEMMA YieldEnds ==
  ASSUME TypeInv, NEW i \in call.todo, NEW r \in Contents, Yield(i, r)
  PROVE  call' = [call EXCEPT !.todo = @ \ {i}, !.failed = call.failed, !.out[i] = r]
BY DEF Yield, TypeInv, CallType

LEMMA SlotWritten ==
  ASSUME TypeInv, NEW s \in DOMAIN pool, NEW c \in Contents, pool' = [pool EXCEPT ![s] = c]
  PROVE  /\ pool' \in Seq(Contents) /\ Len(pool') = Len(pool) /\ DOMAIN pool' = DOMAIN pool
         /\ pool'[s] = c /\ \A t \in DOMAIN pool : t # s => pool'[t] = pool[t]
BY ExceptSeq, LenProperties DEF TypeInv

-----------------------------------------------------------------------------
(* Each action preserves the invariant.                                     *)

LEMMA SetupStep ==
  ASSUME IInv, NEW k \in Problems, NEW shared \in BOOLEAN, Setup(k, shared)
  PROVE  IInv'
<1> DEFINE data == [i \in 1..k |-> Supplied(calls + 1, shared, i)]
           old(s) == IF s <= Len(pool) THEN pool[s] ELSE Empty
           new == [s \in 1..PoolSize(k) |-> IF s > k THEN old(s) ELSE Equilibrated(old(s), data[s])]
<1>1. TypeInv /\ call.op = "none" /\ calls' = calls + 1 /\ calls' \in 1..MaxCalls /\ k \in 1..MaxBatch
  BY DEF IInv, TypeInv, Setup, Problems
<1>2. data \in [1..k -> Datum] /\ \A i \in 1..k : data[i].call = calls'
  BY <1>1 DEF Supplied, Datum
<1>3. base' = data
  BY DEF Setup, SetupBase
<1>4. base' \in Seq(Datum) /\ Len(base') = k /\ DOMAIN base' = 1..k
  BY <1>1, <1>2, <1>3, FunctionIsSeq
<1>5. PoolSize(k) \in Slots /\ PoolSize(k) >= k /\ PoolSize(k) \in Nat
  BY <1>1, Bounds DEF PoolSize, TypeInv, Slots
<1>6. \A s \in 1..PoolSize(k) : old(s) \in Contents
  BY <1>1, <1>5, Bounds, EmptyIsContents
<1>7. \A s \in 1..k : /\ Equilibrated(old(s), data[s]) \in Contents
                      /\ Equilibrated(old(s), data[s]).A = data[s]
                      /\ Equilibrated(old(s), data[s]).scale = data[s]
                      /\ Equilibrated(old(s), data[s]).zeroed = FALSE
  <2> SUFFICES ASSUME NEW s \in 1..k
               PROVE  /\ Equilibrated(old(s), data[s]) \in Contents
                      /\ Equilibrated(old(s), data[s]).A = data[s]
                      /\ Equilibrated(old(s), data[s]).scale = data[s]
                      /\ Equilibrated(old(s), data[s]).zeroed = FALSE
    OBVIOUS
  <2>1. old(s) \in Contents /\ data[s] \in Datum
    BY <1>1, <1>2, <1>5, <1>6
  <2> HIDE DEF old, data
  <2> QED BY <2>1 DEF Equilibrated, Contents
<1>8. pool' = new
  BY DEF Setup
<1> HIDE DEF old, data
<1>9. new \in [1..PoolSize(k) -> Contents]
  BY <1>1, <1>6, <1>7
<1>10. /\ pool' \in Seq(Contents) /\ Len(pool') = PoolSize(k)
       /\ \A s \in 1..k : pool'[s] = Equilibrated(old(s), data[s])
  BY <1>1, <1>5, <1>8, <1>9, FunctionIsSeq
<1> HIDE DEF new
<1>11. /\ precomputed' = TRUE /\ batchSize' = k
       /\ spoiled' = [s \in DOMAIN spoiled |-> IF s <= k THEN {} ELSE spoiled[s]]
       /\ infSeen' = infSeen \ (1..k)
       /\ UNCHANGED <<gradEnabled, cache, call, forward>>
  BY DEF Setup
<1>12. TypeInv'
  BY <1>1, <1>4, <1>5, <1>10, <1>11 DEF TypeInv
<1>13. BaseInv'
  BY <1>1, <1>2, <1>3, <1>4, <1>5, <1>10, <1>11 DEF BaseInv
<1>14. CallInv'
  BY <1>1, <1>11 DEF IInv, CallInv
<1>15. SlotInv'
  BY <1>1, <1>3, <1>4, <1>7, <1>10, <1>11 DEF SlotInv, Good
<1>16. CacheInv'
  <2>1. \A i \in DOMAIN cache : cache[i] # Empty => Foreign(cache[i])'
    <3>1. \A i \in DOMAIN cache : cache[i] # Empty => cache[i].P.call <= calls
      BY DEF IInv, CacheInv
    <3>2. \A s \in DOMAIN base' : base'[s].call = calls + 1
      BY <1>1, <1>2, <1>3, <1>4
    <3>3. \A i \in DOMAIN cache : cache[i].P.call \in Nat
      BY <1>1, Bounds, DatumFields
    <3>4. cache' = cache /\ calls \in Nat
      BY <1>1, <1>11 DEF TypeInv
    <3> SUFFICES ASSUME NEW i \in DOMAIN cache, cache[i] # Empty, NEW s \in DOMAIN base'
                 PROVE  cache[i].P.call # base'[s].call
      BY <3>4 DEF Foreign
    <3> QED BY <3>1, <3>2, <3>3, <3>4
  <2>2. \A i \in DOMAIN cache : cache[i] # Empty => ~Own(cache[i], i)'
    BY <1>11, <2>1 DEF Foreign, Own
  <2>3. \A i \in DOMAIN cache : cache[i] # Empty => cache[i].P.call <= calls'
    <3>1. \A i \in DOMAIN cache : cache[i].P.call \in Nat
      BY <1>1, Bounds, DatumFields
    <3>2. \A i \in DOMAIN cache : cache[i] # Empty => cache[i].P.call <= calls
      BY DEF IInv, CacheInv
    <3>3. calls \in Nat
      BY <1>1 DEF TypeInv
    <3> QED BY <1>1, <3>1, <3>2, <3>3
  <2> QED BY <1>11, <2>1, <2>2, <2>3 DEF IInv, CacheInv
<1>17. OutInv'
  <2>1. call' = call /\ Answered' = Answered
    BY <1>11 DEF Answered
  <2> QED BY <1>1, <2>1, <1>11 DEF IInv, OutInv
<1> QED BY <1>12, <1>13, <1>14, <1>15, <1>16, <1>17 DEF IInv

\* The beginning of a call touches neither slots nor cache.
LEMMA BeginsStep ==
  ASSUME IInv, NEW op \in Ops \ {"none"}, NEW k \in Problems, Begin(op, k),
         op = "solve" => k = Len(base), op = "backward" => k = Len(cache),
         UNCHANGED <<gradEnabled, pool, precomputed, batchSize, base, cache, ghosts>>
  PROVE  IInv'
<1>1. TypeInv /\ UNCHANGED <<gradEnabled, pool, precomputed, batchSize, base, cache, forward, spoiled, infSeen>>
  BY DEF IInv, ghosts
<1>2. /\ call.op = "none" /\ calls' = calls + 1 /\ calls' \in 0..MaxCalls /\ calls' > 0
      /\ call' \in CallType /\ call'.op = op /\ call'.id = calls'
      /\ call'.todo = 1..k /\ Len(call'.out) = k /\ DOMAIN call'.out = 1..k
      /\ \A i \in 1..k : call'.out[i] = Empty
      /\ Answered' = {}
  BY <1>1, CallBegins
<1>3. TypeInv'
  BY <1>1, <1>2 DEF TypeInv, Problems
<1>4. BaseInv'
  BY <1>1, <1>2, Bounds DEF IInv, BaseInv, TypeInv
<1>5. CallInv'
  <2>1. \A s \in DOMAIN base : base[s].call # calls'
    BY <1>1, <1>2 DEF IInv, BaseInv, TypeInv
  <2> QED BY <1>1, <1>2, <2>1 DEF CallInv
<1>6. SlotInv'
  BY <1>1 DEF IInv, SlotInv, Good
<1>7. CacheInv'
  <2>1. \A i \in DOMAIN cache : cache[i].P.call \in Nat
    BY <1>1, Bounds, DatumFields
  <2>2. \A i \in DOMAIN cache : cache[i] # Empty => cache[i].P.call <= calls'
    <3>1. \A i \in DOMAIN cache : cache[i] # Empty => cache[i].P.call <= calls
      BY DEF IInv, CacheInv
    <3>2. calls \in Nat
      BY <1>1 DEF TypeInv
    <3> QED BY <1>2, <2>1, <3>1, <3>2
  <2> QED BY <1>1, <1>2, <2>2 DEF IInv, CacheInv, Own, Foreign, Good
<1>8. OutInv'
  BY <1>2 DEF OutInv
<1> QED BY <1>3, <1>4, <1>5, <1>6, <1>7, <1>8 DEF IInv

LEMMA SolveStep ==
  ASSUME IInv, NEW i \in Problems, NEW b \in BKinds, Solve(i, b)
  PROVE  IInv'
<1> DEFINE new == [pool[i] EXCEPT !.P = base[i], !.zeroed = @ \/ ZeroesRows(b), !.vec = Here(i)]
           done == [new EXCEPT !.sol = Here(i)]
           r == IF InfeasibleB(b) THEN Empty ELSE done
           c == IF InfeasibleB(b) THEN new ELSE done
<1>1. TypeInv /\ call.op = "solve" /\ i \in call.todo
  BY DEF IInv, Solve
<1>2. UNCHANGED <<gradEnabled, precomputed, batchSize, base, cache, calls, forward, spoiled>>
  BY DEF Solve
<1>3. i \in DOMAIN call.out /\ i \in DOMAIN base /\ i \in DOMAIN pool /\ i \in Slots
  BY <1>1, Bounds DEF IInv, CallInv, BaseInv, TypeInv
<1>4. pool[i] \in Contents /\ base[i] \in Datum /\ Here(i) \in Datum
  <2>1. call.id \in 0..MaxCalls
    BY <1>1 DEF TypeInv, CallType
  <2> QED BY <1>1, <1>3, <2>1, Bounds DEF Here, Datum, Problems
<1>5. ZeroesRows(b) \in BOOLEAN /\ InfeasibleB(b) \in BOOLEAN
  BY DEF ZeroesRows, InfeasibleB
<1>6. /\ new \in Contents /\ new.P = base[i] /\ new.A = pool[i].A /\ new.scale = pool[i].scale
      /\ new.vec = Here(i) /\ new.zeroed = (pool[i].zeroed \/ ZeroesRows(b))
  BY <1>4, <1>5 DEF Contents
<1> HIDE DEF new
<1>7. /\ done \in Contents /\ done.P = base[i] /\ done.A = pool[i].A /\ done.scale = pool[i].scale
      /\ done.vec = Here(i) /\ done.sol = Here(i) /\ done.zeroed = (pool[i].zeroed \/ ZeroesRows(b))
  BY <1>4, <1>6 DEF Contents
<1> HIDE DEF done
<1>8. r \in Contents /\ c \in Contents
  BY <1>6, <1>7, EmptyIsContents
<1>9. pool' = [pool EXCEPT ![i] = c] /\ Yield(i, r)
  <2>1. CASE InfeasibleB(b)
    BY <2>1 DEF Solve, new
  <2>2. CASE ~InfeasibleB(b)
    <3>1. pool' = [pool EXCEPT ![i] = done] /\ Yield(i, pool'[i])
      BY <2>2 DEF Solve, new, done
    <3>2. pool'[i] = done
      BY <1>3, <3>1
    <3> QED BY <2>2, <3>1, <3>2
  <2> QED BY <2>1, <2>2
<1> HIDE DEF c, r
<1>10. /\ pool' \in Seq(Contents) /\ Len(pool') = Len(pool) /\ DOMAIN pool' = DOMAIN pool
       /\ pool'[i] = c /\ \A t \in DOMAIN pool : t # i => pool'[t] = pool[t]
  BY <1>1, <1>3, <1>8, <1>9, SlotWritten
<1>11. /\ call' \in CallType /\ call'.op = call.op /\ call'.id = call.id
       /\ call'.todo = call.todo \ {i}
       /\ Len(call'.out) = Len(call.out) /\ DOMAIN call'.out = DOMAIN call.out
       /\ call'.out[i] = r
       /\ \A j \in DOMAIN call.out : j # i => call'.out[j] = call.out[j]
  <2>1. call.failed \in BOOLEAN
    BY <1>1 DEF TypeInv, CallType
  <2>2. call' = [call EXCEPT !.todo = @ \ {i}, !.failed = call.failed, !.out[i] = r]
    BY <1>1, <1>8, <1>9, YieldEnds
  <2> QED BY <1>1, <1>8, <2>1, <2>2, TaskEnds
<1>12. infSeen' = IF ZeroesRows(b) THEN infSeen \cup {i} ELSE infSeen
  BY DEF Solve
<1>13. TypeInv'
  BY <1>1, <1>2, <1>3, <1>10, <1>11, <1>12 DEF TypeInv
<1>14. BaseInv'
  BY <1>2, <1>10 DEF IInv, BaseInv
<1>15. CallInv'
  BY <1>1, <1>2, <1>11 DEF IInv, CallInv, TypeInv
<1>16. \A s \in DOMAIN base : spoiled[s] = {} => Good(pool[s], s)
  BY DEF IInv, SlotInv
<1>17. c.A = pool[i].A /\ c.scale = pool[i].scale /\ c.zeroed = (pool[i].zeroed \/ ZeroesRows(b))
  BY <1>6, <1>7 DEF c
<1>18. spoiled[i] = {} =>
         c.A = base[i] /\ c.scale = base[i] /\ (c.zeroed <=> i \in infSeen')
  BY <1>2, <1>3, <1>12, <1>16, <1>17 DEF Good
<1>19. SlotInv'
  <2> SUFFICES ASSUME NEW s \in DOMAIN base, spoiled[s] = {} PROVE Good(pool[s], s)'
    BY <1>2 DEF SlotInv
  <2>1. CASE s = i
    BY <1>2, <1>10, <1>18, <2>1 DEF Good
  <2>2. CASE s # i
    <3>1. s \in DOMAIN pool
      BY <1>1, Bounds DEF IInv, BaseInv
    <3> QED BY <1>2, <1>10, <1>12, <1>16, <2>2, <3>1 DEF Good
  <2> QED BY <2>1, <2>2
<1>20. CacheInv'
  BY <1>1, <1>2, <1>11 DEF IInv, CacheInv, Own, Foreign
<1>21. OutInv'
  <2> SUFFICES ASSUME NEW j \in Answered'
               PROVE  /\ call'.out[j].vec = Here(j) /\ call'.out[j].sol = Here(j)
                      /\ call'.out[j].P = base[j]
                      /\ spoiled[j] = {} => /\ call'.out[j].A = base[j]
                                            /\ call'.out[j].scale = base[j]
                                            /\ call'.out[j].zeroed <=> j \in infSeen'
    BY <1>1, <1>2, <1>11 DEF OutInv, Good, Here
  <2>1. j \in DOMAIN call.out /\ call'.out[j] # Empty
    BY <1>11 DEF Answered
  <2>2. CASE j = i
    <3>1. call'.out[i] = done /\ c = done
      BY <1>11, <2>1, <2>2 DEF r, c
    <3> QED BY <1>7, <1>18, <2>1, <2>2, <3>1 DEF Good
  <2>3. CASE j # i
    <3>1. call'.out[j] = call.out[j] /\ j \in Answered
      BY <1>11, <2>1, <2>3 DEF Answered
    <3>2. /\ call.out[j].vec = Here(j) /\ call.out[j].sol = Here(j)
          /\ call.out[j].P = base[j] /\ (spoiled[j] = {} => Good(call.out[j], j))
      BY <1>1, <3>1 DEF IInv, OutInv
    <3> QED BY <1>2, <1>12, <2>1, <2>3, <3>1, <3>2 DEF Good
  <2> QED BY <2>2, <2>3
<1> QED BY <1>13, <1>14, <1>15, <1>19, <1>20, <1>21 DEF IInv

LEMMA ParallelStep ==
  ASSUME IInv, NEW i \in Problems, Parallel(i)
  PROVE  IInv'
<1> DEFINE s == SlotOf(i)
           c == Loaded(Here(i))
<1>1. TypeInv /\ call.op = "parallel" /\ i \in call.todo
  BY DEF IInv, Parallel
<1>2. UNCHANGED <<gradEnabled, precomputed, batchSize, base, cache, calls, forward, infSeen>>
  BY DEF Parallel
<1>3. s \in DOMAIN pool /\ s \in Slots
  BY <1>1, Bounds, SlotOfProblem DEF Problems
<1>4. Here(i) \in Datum
  <2>1. call.id \in 0..MaxCalls
    BY <1>1 DEF TypeInv, CallType
  <2> QED BY <2>1 DEF Here, Datum, Problems
<1>5. c \in Contents /\ c.P = Here(i) /\ c.vec = Here(i) /\ c.sol = Here(i)
  BY <1>4, EmptyIsContents DEF Loaded
<1> HIDE DEF s, c
<1>6. pool' = [pool EXCEPT ![s] = c] /\ Yield(i, pool'[s])
  BY DEF Parallel, s, c
<1>7. /\ pool' \in Seq(Contents) /\ Len(pool') = Len(pool) /\ DOMAIN pool' = DOMAIN pool
      /\ pool'[s] = c /\ \A t \in DOMAIN pool : t # s => pool'[t] = pool[t]
  BY <1>1, <1>3, <1>5, <1>6, SlotWritten
<1>8. /\ call' \in CallType /\ call'.op = call.op /\ call'.id = call.id
      /\ call'.todo = call.todo \ {i}
      /\ Len(call'.out) = Len(call.out) /\ DOMAIN call'.out = DOMAIN call.out
      /\ call'.out[i] = c
      /\ \A j \in DOMAIN call.out : j # i => call'.out[j] = call.out[j]
  <2>1. call.failed \in BOOLEAN
    BY <1>1 DEF TypeInv, CallType
  <2>2. Yield(i, c)
    BY <1>6, <1>7
  <2>3. call' = [call EXCEPT !.todo = @ \ {i}, !.failed = call.failed, !.out[i] = c]
    BY <1>1, <1>5, <2>2, YieldEnds
  <2> QED BY <1>1, <1>5, <2>1, <2>3, TaskEnds
<1>9. spoiled' = [spoiled EXCEPT ![s] = @ \cup {"parallel"}]
  BY DEF Parallel, s
<1>10. /\ spoiled' \in [Slots -> SUBSET {"parallel", "stale", "failed"}]
       /\ spoiled'[s] # {} /\ \A t \in Slots : t # s => spoiled'[t] = spoiled[t]
  BY <1>1, <1>3, <1>9 DEF TypeInv
<1>11. TypeInv'
  BY <1>1, <1>2, <1>7, <1>8, <1>10 DEF TypeInv
<1>12. BaseInv'
  BY <1>2, <1>7 DEF IInv, BaseInv
<1>13. CallInv'
  BY <1>1, <1>2, <1>8 DEF IInv, CallInv, TypeInv
<1>14. SlotInv'
  <2> SUFFICES ASSUME NEW t \in DOMAIN base, spoiled'[t] = {} PROVE Good(pool[t], t)'
    BY <1>2 DEF SlotInv
  <2>1. t \in Slots /\ t \in DOMAIN pool /\ t # s
    BY <1>1, <1>10, Bounds DEF IInv, BaseInv
  <2>2. pool'[t] = pool[t] /\ spoiled[t] = {}
    BY <1>7, <1>10, <2>1
  <2>3. Good(pool[t], t)
    BY <2>2 DEF IInv, SlotInv
  <2> QED BY <1>2, <2>2, <2>3 DEF Good
<1>15. CacheInv'
  <2>1. \A j \in DOMAIN base : spoiled'[j] = {} => spoiled[j] = {}
    BY <1>1, <1>10, Bounds
  <2> QED BY <1>1, <1>2, <1>8, <2>1 DEF IInv, CacheInv, Own, Foreign, Good
<1>16. OutInv'
  <2> SUFFICES ASSUME NEW j \in Answered'
               PROVE  /\ call'.out[j].vec = Here(j) /\ call'.out[j].sol = Here(j)
                      /\ call'.out[j].P = Here(j)
    BY <1>1, <1>8 DEF OutInv, Here
  <2>1. j \in DOMAIN call.out /\ call'.out[j] # Empty
    BY <1>8 DEF Answered
  <2>2. CASE j = i
    BY <1>5, <1>8, <2>2
  <2>3. CASE j # i
    <3>1. call'.out[j] = call.out[j] /\ j \in Answered
      BY <1>8, <2>1, <2>3 DEF Answered
    <3> QED BY <1>1, <3>1 DEF IInv, OutInv
  <2> QED BY <2>2, <2>3
<1> QED BY <1>11, <1>12, <1>13, <1>14, <1>15, <1>16 DEF IInv

\* The results of a forward call become the cache.
LEMMA ForwardEnds ==
  ASSUME IInv, FinishForward
  PROVE  IInv'
<1>1. TypeInv /\ call.op \in {"solve", "parallel"} /\ call.todo = {} /\ call' = Idle
  BY DEF IInv, FinishForward
<1>2. UNCHANGED <<gradEnabled, pool, precomputed, batchSize, base, calls, spoiled, infSeen>>
  BY DEF FinishForward
<1>3. <<>> \in Seq(Contents) /\ Len(<<>>) = 0
  BY EmptySeq
<1>4. /\ call'.op = "none" /\ call'.todo = {} /\ call'.out = <<>> /\ DOMAIN call'.out = {}
      /\ call' \in CallType
  BY <1>1, <1>3 DEF Idle, CallType, Ops
<1>5. cache' = (IF gradEnabled THEN call.out ELSE cache)
      /\ forward' = (IF gradEnabled THEN call.id ELSE forward)
  BY DEF FinishForward
<1>6. call.out \in Seq(Contents) /\ call.id \in 0..MaxCalls
  BY <1>1 DEF TypeInv, CallType
<1>7. TypeInv'
  <2>1. cache' \in Seq(Contents) /\ Len(cache') <= MaxBatch /\ forward' \in 0..MaxCalls
    BY <1>1, <1>5, <1>6 DEF TypeInv
  <2>2. call'.todo \subseteq DOMAIN call'.out /\ Len(call'.out) <= MaxBatch
    BY <1>3, <1>4
  <2> QED BY <1>1, <1>2, <1>4, <2>1, <2>2 DEF TypeInv
<1>8. BaseInv'
  BY <1>2 DEF IInv, BaseInv
<1>9. CallInv'
  BY <1>4 DEF CallInv
<1>10. SlotInv'
  BY <1>2 DEF IInv, SlotInv, Good
<1>11. CacheInv'
  <2>1. CASE ~gradEnabled
    <3>1. cache' = cache /\ cache = <<>>
      BY <1>5, <2>1 DEF IInv, CacheInv
    <3>2. DOMAIN cache' = {}
      BY <3>1
    <3> QED BY <3>1, <3>2 DEF CacheInv
  <2>2. CASE gradEnabled
    <3>1. cache' = call.out /\ forward' = call.id /\ call.id = calls /\ gradEnabled'
      BY <1>1, <1>2, <1>5, <2>2 DEF IInv, CallInv
    <3> SUFFICES ASSUME NEW i \in DOMAIN call.out, call.out[i] # Empty
                 PROVE  /\ call.out[i].vec = Here(i) /\ call.out[i].sol = Here(i)
                        /\ call.out[i].P.call <= calls
                        /\ Own(call.out[i], i) \/ Foreign(call.out[i])
                        /\ Own(call.out[i], i) /\ spoiled[i] = {} => Good(call.out[i], i)
      BY <1>2, <3>1 DEF CacheInv, Own, Foreign, Good, Here
    <3>2. i \in Answered
      BY DEF Answered
    <3>3. call.out[i].vec = Here(i) /\ call.out[i].sol = Here(i)
      BY <1>1, <3>2 DEF IInv, OutInv
    <3>4. CASE call.op = "solve"
      <4>1. i \in DOMAIN base
        BY <1>1, <3>4, Bounds DEF IInv, CallInv
      <4>2. call.out[i].P = base[i] /\ (spoiled[i] = {} => Good(call.out[i], i))
        BY <3>2, <3>4 DEF IInv, OutInv
      <4>3. base[i].call \in 1..calls
        BY <4>1 DEF IInv, BaseInv
      <4> QED BY <1>1, <3>3, <4>1, <4>2, <4>3 DEF Own, TypeInv
    <3>5. CASE call.op = "parallel"
      <4>1. call.out[i].P = Here(i)
        BY <3>2, <3>5 DEF IInv, OutInv
      <4>2. Foreign(call.out[i])
        BY <3>5, <4>1 DEF IInv, CallInv, Foreign, Here
      <4>3. ~Own(call.out[i], i)
        BY <4>2 DEF Own, Foreign
      <4>4. call.out[i].P.call = calls /\ calls \in Nat
        BY <1>1, <3>1, <4>1 DEF Here, TypeInv
      <4> QED BY <3>3, <4>2, <4>3, <4>4
    <3> QED BY <1>1, <3>4, <3>5
  <2> QED BY <1>1, <2>1, <2>2 DEF TypeInv
<1>12. OutInv'
  BY <1>4 DEF OutInv, Answered
<1> QED BY <1>7, <1>8, <1>9, <1>10, <1>11, <1>12 DEF IInv

LEMMA BackwardStep ==
  ASSUME IInv, NEW i \in Problems, NEW err \in BOOLEAN, Backward(i, err)
  PROVE  IInv'
<1> DEFINE s == SlotOf(i)
           r == IF err THEN Empty ELSE cache[i]
           current == s <= Len(base) /\ cache[i].P = base[s]
<1>1. TypeInv /\ call.op = "backward" /\ i \in call.todo /\ cache[i] # Empty
  BY DEF IInv, Backward
<1>2. UNCHANGED <<gradEnabled, precomputed, batchSize, base, cache, calls, forward, infSeen>>
  BY DEF Backward
<1>3. s \in DOMAIN pool /\ s \in Slots /\ s \in Nat
  BY <1>1, Bounds, SlotOfProblem DEF Problems
<1>4. i \in DOMAIN cache /\ cache[i] \in Contents
  BY <1>1, Bounds DEF IInv, CallInv, TypeInv
<1>5. r \in Contents
  BY <1>4, EmptyIsContents
<1> HIDE DEF r
<1>6. pool' = [pool EXCEPT ![s] = cache[i]]
  BY DEF Backward, Restored
<1>7. /\ pool' \in Seq(Contents) /\ Len(pool') = Len(pool) /\ DOMAIN pool' = DOMAIN pool
      /\ pool'[s] = cache[i] /\ \A t \in DOMAIN pool : t # s => pool'[t] = pool[t]
  <2> HIDE DEF s
  <2> QED BY <1>1, <1>3, <1>4, <1>6, SlotWritten
<1>8. /\ call' \in CallType /\ call'.op = call.op /\ call'.id = call.id
      /\ call'.todo = call.todo \ {i}
      /\ Len(call'.out) = Len(call.out) /\ DOMAIN call'.out = DOMAIN call.out
      /\ call'.out[i] = r
      /\ \A j \in DOMAIN call.out : j # i => call'.out[j] = call.out[j]
  <2>1. call.failed \in BOOLEAN
    BY <1>1 DEF TypeInv, CallType
  <2>2. call' = [call EXCEPT !.todo = @ \ {i}, !.failed = @ \/ err,
                             !.out[i] = IF err THEN Empty ELSE pool'[s]]
    BY DEF Backward
  <2>3. call' = [call EXCEPT !.todo = @ \ {i}, !.failed = call.failed \/ err, !.out[i] = r]
    BY <1>7, <2>2 DEF r
  <2>4. (call.failed \/ err) \in BOOLEAN
    BY <2>1
  <2> QED BY <1>1, <1>5, <2>3, <2>4, TaskEnds
<1>9. spoiled' = [spoiled EXCEPT ![s] = IF current THEN @ ELSE @ \cup {"stale"}]
  BY DEF Backward
<1> HIDE DEF s
<1>10. /\ spoiled' \in [Slots -> SUBSET {"parallel", "stale", "failed"}]
       /\ spoiled'[s] = {} => current /\ spoiled[s] = {}
       /\ \A t \in Slots : t # s => spoiled'[t] = spoiled[t]
  BY <1>1, <1>3, <1>9 DEF TypeInv
<1>11. TypeInv'
  BY <1>1, <1>2, <1>7, <1>8, <1>10 DEF TypeInv
<1>12. BaseInv'
  BY <1>2, <1>7 DEF IInv, BaseInv
<1>13. CallInv'
  BY <1>1, <1>2, <1>8 DEF IInv, CallInv, TypeInv
<1>14. current => s = i /\ i \in DOMAIN base
  <2> SUFFICES ASSUME current PROVE s = i /\ i \in DOMAIN base
    OBVIOUS
  <2>1. s \in DOMAIN base
    BY <1>1, <1>3, Bounds DEF Slots
  <2>2. ~Foreign(cache[i])
    BY <2>1 DEF Foreign
  <2>3. i \in DOMAIN base
    BY <1>1, <1>4, <2>2 DEF IInv, CacheInv, Own
  <2>4. i \in Nat \ {0} /\ i <= Len(pool)
    BY <1>1, <2>3, Bounds DEF IInv, BaseInv, Problems
  <2> QED BY <1>1, <2>3, <2>4, SlotOfProblem DEF s
<1>15. SlotInv'
  <2> SUFFICES ASSUME NEW t \in DOMAIN base, spoiled'[t] = {} PROVE Good(pool[t], t)'
    BY <1>2 DEF SlotInv
  <2>1. t \in Slots /\ t \in DOMAIN pool
    BY <1>1, Bounds DEF IInv, BaseInv
  <2>2. CASE t = s
    <3>1. current /\ spoiled[s] = {} /\ s = i /\ i \in DOMAIN base
      BY <1>10, <1>14, <2>2
    <3>2. Own(cache[i], i)
      BY <3>1 DEF Own
    <3>3. Good(cache[i], i)
      BY <1>1, <1>4, <3>1, <3>2 DEF IInv, CacheInv
    <3> QED BY <1>2, <1>7, <2>2, <3>1, <3>3 DEF Good
  <2>3. CASE t # s
    <3>1. pool'[t] = pool[t] /\ spoiled[t] = {}
      BY <1>7, <1>10, <2>1, <2>3
    <3>2. Good(pool[t], t)
      BY <3>1 DEF IInv, SlotInv
    <3> QED BY <1>2, <3>1, <3>2 DEF Good
  <2> QED BY <2>2, <2>3
<1>16. CacheInv'
  <2>1. \A j \in DOMAIN base : spoiled'[j] = {} => spoiled[j] = {}
    BY <1>1, <1>10, Bounds
  <2> QED BY <1>1, <1>2, <1>8, <2>1 DEF IInv, CacheInv, Own, Foreign, Good
<1>17. OutInv'
  <2> SUFFICES ASSUME NEW j \in Answered' PROVE call'.out[j] = cache[j]
    BY <1>1, <1>2, <1>8 DEF OutInv
  <2>1. j \in DOMAIN call.out /\ call'.out[j] # Empty
    BY <1>8 DEF Answered
  <2>2. CASE j = i
    BY <1>8, <2>1, <2>2 DEF r
  <2>3. CASE j # i
    <3>1. call'.out[j] = call.out[j] /\ j \in Answered
      BY <1>8, <2>1, <2>3 DEF Answered
    <3> QED BY <1>1, <3>1 DEF IInv, OutInv
  <2> QED BY <2>2, <2>3
<1> QED BY <1>11, <1>12, <1>13, <1>15, <1>16, <1>17 DEF IInv

LEMMA WithDataStep ==
  ASSUME IInv, NEW i \in Problems, NEW err \in BOOLEAN, WithData(i, err)
  PROVE  IInv'
<1> DEFINE s == SlotOf(i)
           loaded == Loaded(Here(i))
           r == IF err THEN Empty ELSE loaded
           c == IF err THEN loaded ELSE Saved(pool[s], loaded)
<1>1. TypeInv /\ call.op = "withData" /\ i \in call.todo
  BY DEF IInv, WithData
<1>2. UNCHANGED <<gradEnabled, precomputed, batchSize, base, cache, calls, forward, infSeen>>
  BY DEF WithData
<1>3. s \in DOMAIN pool /\ s \in Slots /\ pool[s] \in Contents
  BY <1>1, Bounds, SlotOfProblem DEF Problems
<1>4. loaded \in Contents /\ loaded.sol \in Datum
  <2>1. call.id \in 0..MaxCalls
    BY <1>1 DEF TypeInv, CallType
  <2>2. Here(i) \in Datum
    BY <2>1 DEF Here, Datum, Problems
  <2> QED BY <2>2, EmptyIsContents DEF Loaded
<1>5. pool' = [pool EXCEPT ![s] = c]
  BY DEF WithData
<1>6. call' = [call EXCEPT !.todo = @ \ {i}, !.failed = call.failed \/ err, !.out[i] = r]
  BY DEF WithData
<1>7. spoiled' = [spoiled EXCEPT ![s] = IF err THEN @ \cup {"failed"} ELSE @]
  BY DEF WithData
<1> HIDE DEF s, loaded
<1>8. /\ c \in Contents /\ r \in Contents
      /\ ~err => c.A = pool[s].A /\ c.scale = pool[s].scale /\ c.zeroed = pool[s].zeroed
  BY <1>3, <1>4, EmptyIsContents DEF Saved, Contents
<1> HIDE DEF c
<1>9. /\ pool' \in Seq(Contents) /\ Len(pool') = Len(pool) /\ DOMAIN pool' = DOMAIN pool
      /\ pool'[s] = c /\ \A t \in DOMAIN pool : t # s => pool'[t] = pool[t]
  BY <1>1, <1>3, <1>5, <1>8, SlotWritten
<1>10. /\ call' \in CallType /\ call'.op = call.op /\ call'.id = call.id
       /\ call'.todo = call.todo \ {i}
       /\ Len(call'.out) = Len(call.out) /\ DOMAIN call'.out = DOMAIN call.out
       /\ call'.out[i] = r
       /\ \A j \in DOMAIN call.out : j # i => call'.out[j] = call.out[j]
  <2>1. (call.failed \/ err) \in BOOLEAN
    BY <1>1 DEF TypeInv, CallType
  <2> HIDE DEF r
  <2> QED BY <1>1, <1>6, <1>8, <2>1, TaskEnds
<1>11. /\ spoiled' \in [Slots -> SUBSET {"parallel", "stale", "failed"}]
       /\ spoiled'[s] = {} => ~err /\ spoiled[s] = {}
       /\ \A t \in Slots : t # s => spoiled'[t] = spoiled[t]
  BY <1>1, <1>3, <1>7 DEF TypeInv
<1>12. TypeInv'
  BY <1>1, <1>2, <1>9, <1>10, <1>11 DEF TypeInv
<1>13. BaseInv'
  BY <1>2, <1>9 DEF IInv, BaseInv
<1>14. CallInv'
  BY <1>1, <1>2, <1>10 DEF IInv, CallInv, TypeInv
<1>15. SlotInv'
  <2> SUFFICES ASSUME NEW t \in DOMAIN base, spoiled'[t] = {} PROVE Good(pool[t], t)'
    BY <1>2 DEF SlotInv
  <2>1. t \in Slots /\ t \in DOMAIN pool
    BY <1>1, Bounds DEF IInv, BaseInv
  <2>2. spoiled[t] = {} /\ (t = s => ~err)
    BY <1>11, <2>1
  <2>3. Good(pool[t], t)
    BY <2>2 DEF IInv, SlotInv
  <2> QED BY <1>2, <1>8, <1>9, <2>1, <2>2, <2>3 DEF Good
<1>16. CacheInv'
  <2>1. \A j \in DOMAIN base : spoiled'[j] = {} => spoiled[j] = {}
    BY <1>1, <1>11, Bounds
  <2> QED BY <1>1, <1>2, <1>10, <2>1 DEF IInv, CacheInv, Own, Foreign, Good
<1>17. OutInv'
  <2> SUFFICES ASSUME NEW j \in Answered' PROVE call'.out[j] = Loaded(Here(j))
    BY <1>1, <1>10 DEF OutInv, Here
  <2>1. j \in DOMAIN call.out /\ call'.out[j] # Empty
    BY <1>10 DEF Answered
  <2>2. CASE j = i
    BY <1>10, <2>1, <2>2 DEF loaded
  <2>3. CASE j # i
    <3>1. call'.out[j] = call.out[j] /\ j \in Answered
      BY <1>10, <2>1, <2>3 DEF Answered
    <3> QED BY <1>1, <3>1 DEF IInv, OutInv
  <2> QED BY <2>2, <2>3
<1> QED BY <1>12, <1>13, <1>14, <1>15, <1>16, <1>17 DEF IInv

\* The end of a backward call, and the panic.
LEMMA CallDropped ==
  ASSUME IInv, call.op \notin {"none", "solve"},
         call' = Idle \/ call' = [call EXCEPT !.op = "panicked"],
         UNCHANGED <<gradEnabled, pool, precomputed, batchSize, base, cache, calls, ghosts>>
  PROVE  IInv'
<1>1. TypeInv /\ UNCHANGED <<gradEnabled, pool, precomputed, batchSize, base, cache, calls, forward, spoiled, infSeen>>
  BY DEF IInv, ghosts
<1>2. /\ call' \in CallType /\ call'.op \in {"none", "panicked"}
      /\ call'.todo \subseteq DOMAIN call'.out /\ Len(call'.out) <= MaxBatch
      /\ \A i \in call'.todo : call'.out[i] = Empty
      /\ call'.op = "panicked" => call'.id = call.id
  <2>1. CASE call' = Idle
    <3>1. <<>> \in Seq(Contents) /\ Len(<<>>) = 0
      BY EmptySeq
    <3> QED BY <2>1, <3>1 DEF Idle, CallType, Ops
  <2>2. CASE call' = [call EXCEPT !.op = "panicked"]
    BY <1>1, <2>2 DEF TypeInv, CallType, Ops, IInv, CallInv
  <2> QED BY <2>1, <2>2
<1>3. TypeInv'
  BY <1>1, <1>2 DEF TypeInv
<1>4. BaseInv'
  BY <1>1 DEF IInv, BaseInv
<1>5. CallInv'
  BY <1>1, <1>2 DEF IInv, CallInv
<1>6. SlotInv'
  BY <1>1 DEF IInv, SlotInv, Good
<1>7. CacheInv'
  BY <1>1, <1>2 DEF IInv, CacheInv, Own, Foreign, Good
<1>8. OutInv'
  BY <1>2 DEF OutInv
<1> QED BY <1>3, <1>4, <1>5, <1>6, <1>7, <1>8 DEF IInv

LEMMA NextStep ==
  ASSUME IInv, Next
  PROVE  IInv'
<1>1. CASE \E k \in Problems, shared \in BOOLEAN : Setup(k, shared)
  BY <1>1, SetupStep
<1>2. CASE \E k \in Problems : BeginParallel(k)
  <2> PICK k \in Problems : BeginParallel(k)
    BY <1>2
  <2> QED BY BeginsStep DEF BeginParallel, Ops
<1>3. CASE \E k \in Problems : BeginWithData(k)
  <2> PICK k \in Problems : BeginWithData(k)
    BY <1>3
  <2> QED BY BeginsStep DEF BeginWithData, Ops
<1>4. CASE BeginSolve
  <2>1. batchSize = Len(base) /\ batchSize \in Problems
    BY <1>4, Bounds DEF BeginSolve, IInv, BaseInv, TypeInv, Problems
  <2> QED BY <1>4, <2>1, BeginsStep DEF BeginSolve, Ops
<1>5. CASE BeginBackward
  <2>1. cache \in Seq(Contents) /\ cache # <<>> /\ Len(cache) <= MaxBatch
    BY <1>5 DEF BeginBackward, IInv, TypeInv
  <2>2. Len(cache) \in Problems
    BY <2>1, EmptySeq DEF Problems
  <2> QED BY <1>5, <2>2, BeginsStep DEF BeginBackward, Ops
<1>6. CASE \E i \in Problems, b \in BKinds : Solve(i, b)
  BY <1>6, SolveStep
<1>7. CASE \E i \in Problems : Parallel(i)
  BY <1>7, ParallelStep
<1>8. CASE \E i \in Problems, err \in BOOLEAN : Backward(i, err)
  BY <1>8, BackwardStep
<1>9. CASE \E i \in Problems, err \in BOOLEAN : WithData(i, err)
  BY <1>9, WithDataStep
<1>10. CASE BackwardPanics
  BY <1>10, CallDropped DEF BackwardPanics
<1>11. CASE FinishForward
  BY <1>11, ForwardEnds
<1>12. CASE FinishBackward
  BY <1>12, CallDropped DEF FinishBackward
<1> QED
  BY <1>1, <1>2, <1>3, <1>4, <1>5, <1>6, <1>7, <1>8, <1>9, <1>10, <1>11, <1>12 DEF Next

LEMMA Unchanged ==
  ASSUME IInv, UNCHANGED vars
  PROVE  IInv'
<1>1. /\ UNCHANGED <<gradEnabled, pool, precomputed, batchSize, base, cache, call>>
      /\ UNCHANGED <<calls, forward, spoiled, infSeen>>
  BY DEF vars
<1>2. TypeInv' /\ BaseInv' /\ CallInv'
  BY <1>1 DEF IInv, TypeInv, BaseInv, CallInv
<1>3. SlotInv'
  BY <1>1 DEF IInv, SlotInv, Good
<1>4. CacheInv'
  BY <1>1 DEF IInv, CacheInv, Own, Foreign, Good
<1>5. Answered' = Answered
  BY <1>1 DEF Answered
<1>6. OutInv'
  BY <1>1, <1>5 DEF IInv, OutInv, Here, Good
<1> QED BY <1>2, <1>3, <1>4, <1>6 DEF IInv

-----------------------------------------------------------------------------
(* The theorems.                                                            *)

\* The invariant holds throughout: whatever the order of set up, solves,
\* gradients and failures, the slots, the results and the cache agree as far
\* as nothing recorded has replaced them.
THEOREM Inductive == Spec => []IInv
<1>1. IInv /\ [Next]_vars => IInv'
  BY NextStep, Unchanged
<1> QED BY InitInv, <1>1, PTL DEF Spec

\* No solve indexes beyond the pool or beyond the matrices of setup, whatever
\* the batch sizes of the calls before it.
THEOREM IndexesExist == Spec => []SolveIndexesExist
<1>1. IInv => SolveIndexesExist
  <2> SUFFICES ASSUME IInv, call.op = "solve"
               PROVE  Len(call.out) <= Len(pool) /\ Len(call.out) <= Len(base)
    BY DEF SolveIndexesExist
  <2>1. Len(call.out) = Len(base) /\ Len(base) \in Nat
    BY Bounds DEF IInv, CallInv
  <2> QED BY <2>1 DEF IInv, BaseInv
<1> QED BY Inductive, <1>1, PTL

\* Every problem is solved with the matrices and the scaling of the last setup
\* unless its slot is recorded as replaced.
THEOREM UsesSetup == Spec => []SolveUsesSetup
<1>1. IInv => SolveUsesSetup
  BY DEF IInv, OutInv, SolveUsesSetup, Consistent, Good
<1> QED BY Inductive, <1>1, PTL

\* A gradient is taken at the solution of its own problem, whatever slots the
\* problems of the batch share.
THEOREM OwnGradient == Spec => []GradientIsOfItsProblem
<1>1. IInv => GradientIsOfItsProblem
  <2> SUFFICES ASSUME IInv, NEW i \in Answered
               PROVE  /\ call.op = "backward" =>
                           /\ call.out[i].vec = [call |-> forward, prob |-> i]
                           /\ call.out[i].sol = call.out[i].vec
                           /\ call.out[i].P = cache[i].P
                      /\ call.op = "withData" => call.out[i] = Loaded(Here(i))
    BY DEF GradientIsOfItsProblem
  <2>1. CASE call.op = "backward"
    <3>1. call.out[i] = cache[i] /\ cache[i] # Empty /\ i \in DOMAIN call.out
      BY <2>1 DEF IInv, OutInv, Answered
    <3>2. i \in DOMAIN cache
      BY <2>1, <3>1, Bounds DEF IInv, CallInv
    <3> QED BY <2>1, <3>1, <3>2 DEF IInv, CacheInv
  <2>2. CASE call.op # "backward"
    BY <2>2 DEF IInv, OutInv
  <2> QED BY <2>1, <2>2
<1> QED BY Inductive, <1>1, PTL
=============================================================================

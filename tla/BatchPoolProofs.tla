--------------------------- MODULE BatchPoolProofs ---------------------------
(***************************************************************************)
(* No worker waits for itself, for every number of workers, problems,      *)
(* slots and gradient states, unless factorizations fork and problems      *)
(* share locks.                                                            *)
(*                                                                         *)
(* A lock a worker owns belongs to a task on its stack that is past taking *)
(* it (OwnerInv).  If the worker waits for that lock with the task on top, *)
(* the owner below is another activity: there is none on a stack of one    *)
(* (SequentialInv), and with private locks it would have to be the same    *)
(* task twice (OnceInv).                                                   *)
(***************************************************************************)
EXTENDS BatchPool, SequenceTheorems, TLAPS

Places == {"slot", "grad", "ready", "forked", "waiting", "last", "half"}
\* Where a task has its slot, and its gradient state.
WithSlot == Places \ {"slot", "half"}
WithGrad == WithSlot \ {"grad"}
Frame == [task : Tasks, at : Places]

TypeInv ==
  /\ method \in {"faer-1t", "faer-nt"} /\ backward \in BOOLEAN
  /\ size \in 1..MaxTasks /\ pending \subseteq Tasks /\ open \subseteq Tasks
  /\ stack \in [Workers -> Seq(Frame)]
  /\ slotOwner \in [0..(NumSlots - 1) -> Workers \cup {Nobody}]
  /\ gradOwner \in [0..(NumGrads - 1) -> Workers \cup {Nobody}]
  /\ \A w \in Workers : \A k \in DOMAIN stack[w] : stack[w][k].at = "grad" => backward
  /\ ~backward => \A g \in DOMAIN gradOwner : gradOwner[g] = Nobody

\* A task has one activity besides the half of it that was stolen, and none
\* before it is taken.
OnceInv ==
  \A v \in Workers : \A k \in DOMAIN stack[v] : stack[v][k].at # "half" =>
    /\ stack[v][k].task \notin pending
    /\ \A w \in Workers : \A l \in DOMAIN stack[w] :
         stack[w][l].at # "half" /\ stack[w][l].task = stack[v][k].task => v = w /\ k = l

Holds(w, places, t) ==
  \E k \in DOMAIN stack[w] : stack[w][k].at \in places /\ stack[w][k].task = t

OwnerInv ==
  \A w \in Workers :
    /\ \A s \in DOMAIN slotOwner : slotOwner[s] = w =>
         \E t \in Tasks : SlotOf(t) = s /\ Holds(w, WithSlot, t)
    /\ \A g \in DOMAIN gradOwner : gradOwner[g] = w =>
         \E t \in Tasks : GradOf(t) = g /\ Holds(w, WithGrad, t)

SequentialInv ==
  method = "faer-1t" =>
    /\ open = {}
    /\ \A w \in Workers : /\ Len(stack[w]) <= 1
                          /\ \A k \in DOMAIN stack[w] : stack[w][k].at \in {"slot", "grad", "ready"}

BInv == TypeInv /\ OnceInv /\ OwnerInv /\ SequentialInv

-----------------------------------------------------------------------------
USE BatchAssumption

LEMMA Stacks ==
  ASSUME TypeInv, NEW w \in Workers
  PROVE  /\ stack[w] \in Seq(Frame) /\ Len(stack[w]) \in Nat /\ DOMAIN stack[w] = 1..Len(stack[w])
         /\ \A k \in DOMAIN stack[w] : stack[w][k] \in Frame
         /\ stack[w] # <<>> => Len(stack[w]) \in DOMAIN stack[w]
<1>1. stack[w] \in Seq(Frame)
  BY DEF TypeInv
<1>2. /\ Len(stack[w]) \in Nat /\ DOMAIN stack[w] = 1..Len(stack[w])
      /\ \A k \in DOMAIN stack[w] : stack[w][k] \in Frame
  BY <1>1, LenProperties, ElementOfSeq
<1>3. stack[w] # <<>> => Len(stack[w]) # 0
  BY <1>1, EmptySeq
<1> QED BY <1>1, <1>2, <1>3

LEMMA Pushed ==
  ASSUME TypeInv, NEW w \in Workers, NEW t \in Tasks, NEW p \in Places, Push(w, t, p)
  PROVE  /\ stack' \in [Workers -> Seq(Frame)] /\ \A v \in Workers : v # w => stack'[v] = stack[v]
         /\ Len(stack'[w]) = Len(stack[w]) + 1 /\ DOMAIN stack'[w] = 1..(Len(stack[w]) + 1)
         /\ stack'[w][Len(stack[w]) + 1] = [task |-> t, at |-> p]
         /\ \A k \in DOMAIN stack[w] : k \in DOMAIN stack'[w] /\ stack'[w][k] = stack[w][k]
         /\ \A v \in Workers : \A k \in DOMAIN stack'[v] :
              \/ v = w /\ k = Len(stack[w]) + 1
              \/ k \in DOMAIN stack[v] /\ stack'[v][k] = stack[v][k]
<1> DEFINE f == [task |-> t, at |-> p]
           new == Append(stack[w], f)
<1>1. f \in Frame
  BY DEF Frame
<1>2. stack[w] \in Seq(Frame) /\ Len(stack[w]) \in Nat /\ DOMAIN stack[w] = 1..Len(stack[w])
  BY Stacks
<1>3. stack' = [stack EXCEPT ![w] = new]
  BY DEF Push
<1> HIDE DEF f
<1>4. /\ new \in Seq(Frame) /\ Len(new) = Len(stack[w]) + 1
      /\ \A k \in 1..Len(stack[w]) : new[k] = stack[w][k]
      /\ new[Len(stack[w]) + 1] = f
  BY <1>1, <1>2, AppendProperties
<1>5. DOMAIN new = 1..(Len(stack[w]) + 1)
  BY <1>4, LenProperties
<1> HIDE DEF new
<1>6. /\ stack' \in [Workers -> Seq(Frame)] /\ stack'[w] = new
      /\ \A v \in Workers : v # w => stack'[v] = stack[v]
  BY <1>3, <1>4 DEF TypeInv
<1>7. \A k \in DOMAIN new : k \in DOMAIN stack[w] \/ k = Len(stack[w]) + 1
  BY <1>2, <1>5
<1> QED BY <1>2, <1>4, <1>5, <1>6, <1>7 DEF f

LEMMA Moved ==
  ASSUME TypeInv, NEW w \in Workers, stack[w] # <<>>, NEW p \in Places, Move(w, p)
  PROVE  /\ stack' \in [Workers -> Seq(Frame)] /\ \A v \in Workers : v # w => stack'[v] = stack[v]
         /\ Len(stack'[w]) = Len(stack[w]) /\ DOMAIN stack'[w] = DOMAIN stack[w]
         /\ stack'[w][Len(stack[w])] = [task |-> Task(w), at |-> p]
         /\ \A k \in DOMAIN stack[w] : k # Len(stack[w]) => stack'[w][k] = stack[w][k]
<1> DEFINE n == Len(stack[w])
           f == [stack[w][n] EXCEPT !.at = p]
           new == [stack[w] EXCEPT ![n] = f]
<1>1. /\ stack[w] \in Seq(Frame) /\ n \in DOMAIN stack[w] /\ n \in Nat
      /\ DOMAIN stack[w] = 1..n /\ stack[w][n] \in Frame
  BY Stacks
<1>2. f = [task |-> Task(w), at |-> p] /\ f \in Frame
  BY <1>1 DEF Frame, Task
<1>3. stack' = [stack EXCEPT ![w] = new]
  BY DEF Move
<1> HIDE DEF f
<1>4. new \in Seq(Frame) /\ Len(new) = n
      /\ \A k \in 1..n : new[k] = IF k = n THEN f ELSE stack[w][k]
  BY <1>1, <1>2, ExceptSeq
<1>5. DOMAIN new = DOMAIN stack[w]
  OBVIOUS
<1> HIDE DEF new
<1>6. /\ stack' \in [Workers -> Seq(Frame)] /\ stack'[w] = new
      /\ \A v \in Workers : v # w => stack'[v] = stack[v]
  BY <1>3, <1>4 DEF TypeInv
<1> QED BY <1>1, <1>2, <1>4, <1>5, <1>6

LEMMA Popped ==
  ASSUME TypeInv, NEW w \in Workers, stack[w] # <<>>, Pop(w)
  PROVE  /\ stack' \in [Workers -> Seq(Frame)] /\ \A v \in Workers : v # w => stack'[v] = stack[v]
         /\ Len(stack'[w]) = Len(stack[w]) - 1 /\ DOMAIN stack'[w] = 1..(Len(stack[w]) - 1)
         /\ DOMAIN stack'[w] = DOMAIN stack[w] \ {Len(stack[w])}
         /\ \A k \in DOMAIN stack'[w] : stack'[w][k] = stack[w][k]
<1> DEFINE n == Len(stack[w])
           new == SubSeq(stack[w], 1, n - 1)
<1>1. stack[w] \in Seq(Frame) /\ n \in DOMAIN stack[w] /\ n \in Nat /\ DOMAIN stack[w] = 1..n
  BY Stacks
<1>2. n \in Nat \ {0} /\ n - 1 \in Nat
  BY <1>1
<1>3. stack' = [stack EXCEPT ![w] = new]
  BY DEF Pop
<1>4. new \in Seq(Frame) /\ Len(new) = n - 1 /\ \A k \in 1..(n - 1) : new[k] = stack[w][k]
  BY <1>1, <1>2, SubSeqProperties
<1>5. DOMAIN new = 1..(n - 1)
  BY <1>4, LenProperties
<1> HIDE DEF new
<1>6. /\ stack' \in [Workers -> Seq(Frame)] /\ stack'[w] = new
      /\ \A v \in Workers : v # w => stack'[v] = stack[v]
  BY <1>3, <1>4 DEF TypeInv
<1> QED BY <1>1, <1>2, <1>4, <1>5, <1>6

\* The worker's innermost activity.
LEMMA Top ==
  ASSUME TypeInv, NEW w \in Workers, stack[w] # <<>>
  PROVE  /\ Task(w) \in Tasks /\ stack[w][Len(stack[w])].task = Task(w)
         /\ Len(stack[w]) \in DOMAIN stack[w]
         /\ \A p : At(w, p) <=> stack[w][Len(stack[w])].at = p
BY Stacks DEF Task, At, Frame

-----------------------------------------------------------------------------
(* What a task holds stays held: by a new activity above it, by its own     *)
(* progress, and by the end of another activity.                            *)

LEMMA PushKeeps ==
  ASSUME TypeInv, NEW w \in Workers, NEW t \in Tasks, NEW p \in Places, Push(w, t, p),
         NEW v \in Workers, NEW H, NEW u, Holds(v, H, u)
  PROVE  Holds(v, H, u)'
BY Pushed DEF Holds

LEMMA MoveKeeps ==
  ASSUME TypeInv, NEW w \in Workers, stack[w] # <<>>, NEW p \in Places, Move(w, p),
         NEW v \in Workers, NEW H, stack[w][Len(stack[w])].at \in H => p \in H,
         NEW u, Holds(v, H, u)
  PROVE  Holds(v, H, u)'
<1>1. PICK k \in DOMAIN stack[v] : stack[v][k].at \in H /\ stack[v][k].task = u
  BY DEF Holds
<1>2. CASE v = w /\ k = Len(stack[w])
  <2>1. k \in DOMAIN stack'[w] /\ stack'[w][k] = [task |-> Task(w), at |-> p]
    BY <1>1, <1>2, Moved
  <2>2. u = Task(w) /\ p \in H
    BY <1>1, <1>2, Top
  <2>3. stack'[w][k].at \in H /\ stack'[w][k].task = u
    BY <2>1, <2>2
  <2> QED BY <1>2, <2>1, <2>3 DEF Holds
<1>3. CASE ~(v = w /\ k = Len(stack[w]))
  <2>1. k \in DOMAIN stack'[v] /\ stack'[v][k] = stack[v][k]
    BY <1>1, <1>3, Moved
  <2> QED BY <1>1, <2>1 DEF Holds
<1> QED BY <1>2, <1>3

LEMMA PopKeeps ==
  ASSUME TypeInv, NEW w \in Workers, stack[w] # <<>>, Pop(w),
         NEW v \in Workers, NEW H, NEW u, Holds(v, H, u),
         v # w \/ stack[w][Len(stack[w])].at \notin H \/ u # Task(w)
  PROVE  Holds(v, H, u)'
BY Popped, Top DEF Holds

-----------------------------------------------------------------------------
(* The actions.                                                             *)

LEMMA TakeStep ==
  ASSUME BInv, NEW w \in Workers, Take(w)
  PROVE  BInv'
<1>1. PICK t \in pending : Push(w, t, "slot") /\ pending' = pending \ {t}
  BY DEF Take, FirstLock
<1>2. /\ TypeInv /\ t \in Tasks /\ LooksForWork(w)
      /\ UNCHANGED <<method, backward, size, slotOwner, gradOwner, open>>
  BY DEF BInv, TypeInv, Take
<1>3. /\ stack' \in [Workers -> Seq(Frame)] /\ \A v \in Workers : v # w => stack'[v] = stack[v]
      /\ Len(stack'[w]) = Len(stack[w]) + 1 /\ DOMAIN stack'[w] = 1..(Len(stack[w]) + 1)
      /\ stack'[w][Len(stack[w]) + 1] = [task |-> t, at |-> "slot"]
      /\ \A v \in Workers : \A k \in DOMAIN stack'[v] :
           \/ v = w /\ k = Len(stack[w]) + 1
           \/ k \in DOMAIN stack[v] /\ stack'[v][k] = stack[v][k]
  BY <1>1, <1>2, Pushed DEF Places
<1>4. Frame' = Frame /\ Tasks' = Tasks
  BY <1>2 DEF Frame, Tasks
<1>5. DOMAIN stack[w] = 1..Len(stack[w]) /\ Len(stack[w]) \in Nat
  BY <1>2, Stacks
<1>6. \A v \in Workers : \A k \in DOMAIN stack'[v] : stack'[v][k].at = "grad" => backward
  <2> SUFFICES ASSUME NEW v \in Workers, NEW k \in DOMAIN stack'[v], stack'[v][k].at = "grad"
               PROVE  backward
    OBVIOUS
  <2>1. k \in DOMAIN stack[v] /\ stack'[v][k] = stack[v][k]
    BY <1>3
  <2> QED BY <1>2, <2>1 DEF TypeInv
<1>7. TypeInv'
  BY <1>1, <1>2, <1>3, <1>4, <1>6 DEF TypeInv
<1>8. OnceInv'
  <2> SUFFICES ASSUME NEW v \in Workers, NEW k \in DOMAIN stack'[v], stack'[v][k].at # "half"
               PROVE  /\ stack'[v][k].task \notin pending'
                      /\ \A x \in Workers : \A l \in DOMAIN stack'[x] :
                           stack'[x][l].at # "half" /\ stack'[x][l].task = stack'[v][k].task
                             => v = x /\ k = l
    BY DEF OnceInv
  <2>1. OnceInv
    BY DEF BInv
  <2>2. CASE v = w /\ k = Len(stack[w]) + 1
    <3>1. stack'[v][k].task = t /\ t \notin pending'
      BY <1>1, <1>3, <2>2
    <3>2. \A x \in Workers : \A l \in DOMAIN stack[x] : stack[x][l].at # "half" => stack[x][l].task # t
      BY <1>1, <2>1 DEF OnceInv
    <3> QED BY <1>3, <2>2, <3>1, <3>2
  <2>3. CASE k \in DOMAIN stack[v] /\ stack'[v][k] = stack[v][k]
    <3>1. stack[v][k].task \notin pending /\ stack[v][k].task # t
      BY <1>1, <2>1, <2>3 DEF OnceInv
    <3> SUFFICES ASSUME NEW x \in Workers, NEW l \in DOMAIN stack'[x], stack'[x][l].at # "half",
                        stack'[x][l].task = stack[v][k].task
                 PROVE  v = x /\ k = l
      BY <1>1, <2>3, <3>1
    <3>2. l \in DOMAIN stack[x] /\ stack'[x][l] = stack[x][l]
      BY <1>3, <3>1
    <3> QED BY <2>1, <2>3, <3>2 DEF OnceInv
  <2> QED BY <1>3, <2>2, <2>3
<1>9. \A v \in Workers, u \in Tasks : /\ Holds(v, WithSlot, u) => Holds(v, WithSlot, u)'
                                      /\ Holds(v, WithGrad, u) => Holds(v, WithGrad, u)'
  BY <1>1, <1>2, PushKeeps DEF Places
<1>10. OwnerInv'
  BY <1>2, <1>4, <1>9 DEF BInv, OwnerInv
<1>11. SequentialInv'
  <2> SUFFICES ASSUME method = "faer-1t"
               PROVE  /\ open' = {}
                      /\ \A v \in Workers :
                           /\ Len(stack'[v]) <= 1
                           /\ \A k \in DOMAIN stack'[v] : stack'[v][k].at \in {"slot", "grad", "ready"}
    BY <1>2 DEF SequentialInv
  <2>1. SequentialInv
    BY DEF BInv
  <2>2. stack[w] = <<>>
    <3>1. stack[w] # <<>> => ~At(w, "waiting")
      BY <1>2, <2>1, Top DEF SequentialInv
    <3> QED BY <1>2, <3>1 DEF LooksForWork
  <2>3. Len(stack[w]) = 0
    BY <2>2, EmptySeq
  <2>4. \A v \in Workers : Len(stack'[v]) <= 1
    BY <1>2, <1>3, <2>1, <2>3 DEF SequentialInv
  <2> QED BY <1>2, <1>3, <2>1, <2>4 DEF SequentialInv
<1> QED BY <1>7, <1>8, <1>10, <1>11 DEF BInv

LEMMA StealStep ==
  ASSUME BInv, NEW w \in Workers, Steal(w)
  PROVE  BInv'
<1>1. PICK t \in open : Push(w, t, "half") /\ open' = open \ {t}
  BY DEF Steal
<1>2. /\ TypeInv /\ t \in Tasks
      /\ UNCHANGED <<method, backward, size, pending, slotOwner, gradOwner>>
  BY DEF BInv, TypeInv, Steal
<1>3. /\ stack' \in [Workers -> Seq(Frame)] /\ \A v \in Workers : v # w => stack'[v] = stack[v]
      /\ Len(stack'[w]) = Len(stack[w]) + 1 /\ DOMAIN stack'[w] = 1..(Len(stack[w]) + 1)
      /\ stack'[w][Len(stack[w]) + 1] = [task |-> t, at |-> "half"]
      /\ \A v \in Workers : \A k \in DOMAIN stack'[v] :
           \/ v = w /\ k = Len(stack[w]) + 1
           \/ k \in DOMAIN stack[v] /\ stack'[v][k] = stack[v][k]
  BY <1>1, <1>2, Pushed DEF Places
<1>4. Frame' = Frame /\ Tasks' = Tasks
  BY <1>2 DEF Frame, Tasks
<1>5. DOMAIN stack[w] = 1..Len(stack[w]) /\ Len(stack[w]) \in Nat
  BY <1>2, Stacks
<1>6. \A v \in Workers : \A k \in DOMAIN stack'[v] : stack'[v][k].at = "grad" => backward
  <2> SUFFICES ASSUME NEW v \in Workers, NEW k \in DOMAIN stack'[v], stack'[v][k].at = "grad"
               PROVE  backward
    OBVIOUS
  <2>1. k \in DOMAIN stack[v] /\ stack'[v][k] = stack[v][k]
    BY <1>3
  <2> QED BY <1>2, <2>1 DEF TypeInv
<1>7. TypeInv'
  BY <1>1, <1>2, <1>3, <1>4, <1>6 DEF TypeInv
<1>8. OnceInv'
  <2>1. \A v \in Workers : \A k \in DOMAIN stack'[v] : stack'[v][k].at # "half" =>
          k \in DOMAIN stack[v] /\ stack'[v][k] = stack[v][k]
    BY <1>3
  <2> QED BY <1>2, <2>1 DEF BInv, OnceInv
<1>9. \A v \in Workers, u \in Tasks : /\ Holds(v, WithSlot, u) => Holds(v, WithSlot, u)'
                                      /\ Holds(v, WithGrad, u) => Holds(v, WithGrad, u)'
  BY <1>1, <1>2, PushKeeps DEF Places
<1>10. OwnerInv'
  BY <1>2, <1>4, <1>9 DEF BInv, OwnerInv
<1>11. SequentialInv'
  BY <1>1, <1>2 DEF BInv, SequentialInv
<1> QED BY <1>7, <1>8, <1>10, <1>11 DEF BInv

\* A step in place: locks change hands only towards the task that moves.
LEMMA MoveStep ==
  ASSUME BInv, NEW w \in Workers, stack[w] # <<>>, NEW p \in Places \ {"half", "slot"}, Move(w, p),
         ~At(w, "half"),
         p = "grad" => backward,
         At(w, "grad") \/ At(w, "slot") \/ p \in WithGrad,
         method = "faer-1t" => p \in {"grad", "ready"} /\ open' = {},
         At(w, "ready") \/ At(w, "forked") \/ At(w, "waiting") \/ At(w, "last") => p \in WithGrad,
         open' \subseteq Tasks,
         UNCHANGED <<method, backward, size, pending>>,
         slotOwner' = slotOwner \/ slotOwner' = [slotOwner EXCEPT ![SlotOf(Task(w))] = w],
         gradOwner' = gradOwner \/
           (gradOwner' = [gradOwner EXCEPT ![GradOf(Task(w))] = w] /\ p \in WithGrad /\ backward)
  PROVE  BInv'
<1>1. TypeInv /\ p \in Places
  BY DEF BInv
<1>2. /\ stack' \in [Workers -> Seq(Frame)] /\ \A v \in Workers : v # w => stack'[v] = stack[v]
      /\ Len(stack'[w]) = Len(stack[w]) /\ DOMAIN stack'[w] = DOMAIN stack[w]
      /\ stack'[w][Len(stack[w])] = [task |-> Task(w), at |-> p]
      /\ \A k \in DOMAIN stack[w] : k # Len(stack[w]) => stack'[w][k] = stack[w][k]
  BY <1>1, Moved
<1>3. Frame' = Frame /\ Tasks' = Tasks
  BY DEF Frame, Tasks
<1>4. /\ Task(w) \in Tasks /\ stack[w][Len(stack[w])].task = Task(w)
      /\ Len(stack[w]) \in DOMAIN stack[w] /\ stack[w][Len(stack[w])].at # "half"
      /\ stack[w][Len(stack[w])] \in Frame
  BY <1>1, Top, Stacks
<1>5. TypeInv'
  <2>1. slotOwner' \in [0..(NumSlots - 1) -> Workers \cup {Nobody}]
    BY <1>1 DEF TypeInv
  <2>2. gradOwner' \in [0..(NumGrads - 1) -> Workers \cup {Nobody}]
    BY <1>1 DEF TypeInv
  <2>3. \A v \in Workers : \A k \in DOMAIN stack'[v] : stack'[v][k].at = "grad" => backward
    <3> SUFFICES ASSUME NEW v \in Workers, NEW k \in DOMAIN stack'[v], stack'[v][k].at = "grad"
                 PROVE  backward
      OBVIOUS
    <3>1. CASE v = w /\ k = Len(stack[w])
      BY <1>2, <3>1
    <3>2. CASE ~(v = w /\ k = Len(stack[w]))
      BY <1>1, <1>2, <3>2 DEF TypeInv
    <3> QED BY <3>1, <3>2
  <2>4. ~backward => \A g \in DOMAIN gradOwner' : gradOwner'[g] = Nobody
    BY <1>1 DEF TypeInv
  <2> QED BY <1>1, <1>2, <1>3, <2>1, <2>2, <2>3, <2>4 DEF TypeInv
<1>6. OnceInv'
  <2>1. \A v \in Workers : /\ DOMAIN stack'[v] = DOMAIN stack[v]
                           /\ \A k \in DOMAIN stack[v] :
                                /\ stack'[v][k].task = stack[v][k].task
                                /\ stack'[v][k].at # "half" => stack[v][k].at # "half"
    BY <1>2, <1>4
  <2>2. OnceInv
    BY DEF BInv
  <2> QED BY <2>1, <2>2 DEF OnceInv
<1>7. /\ stack[w][Len(stack[w])].at \in WithSlot => p \in WithSlot
      /\ stack[w][Len(stack[w])].at \in WithGrad => p \in WithGrad
  <2>1. p \in WithSlot
    BY DEF WithSlot
  <2>2. stack[w][Len(stack[w])].at \in WithGrad =>
           At(w, "ready") \/ At(w, "forked") \/ At(w, "waiting") \/ At(w, "last")
    BY <1>1, <1>4, Top DEF WithGrad, WithSlot, Places
  <2> QED BY <2>1, <2>2
<1>8. \A v \in Workers, u \in Tasks : /\ Holds(v, WithSlot, u) => Holds(v, WithSlot, u)'
                                      /\ Holds(v, WithGrad, u) => Holds(v, WithGrad, u)'
  BY <1>1, <1>7, MoveKeeps
<1>9. \A u : u = Task(w) => Holds(w, WithSlot, u)' /\ (p \in WithGrad => Holds(w, WithGrad, u)')
  <2> DEFINE n == Len(stack[w])
  <2>1. n \in DOMAIN stack'[w] /\ stack'[w][n].at = p /\ stack'[w][n].task = Task(w)
    BY <1>2, <1>4
  <2>2. p \in WithSlot
    BY DEF WithSlot
  <2> HIDE DEF n
  <2> QED BY <2>1, <2>2 DEF Holds
<1>10. OwnerInv'
  <2> SUFFICES ASSUME NEW v \in Workers
               PROVE  /\ \A s \in DOMAIN slotOwner' : slotOwner'[s] = v =>
                           \E t \in Tasks : SlotOf(t) = s /\ Holds(v, WithSlot, t)'
                      /\ \A g \in DOMAIN gradOwner' : gradOwner'[g] = v =>
                           \E t \in Tasks : GradOf(t) = g /\ Holds(v, WithGrad, t)'
    BY <1>3 DEF OwnerInv
  <2>1. ASSUME NEW s \in DOMAIN slotOwner', slotOwner'[s] = v
        PROVE  \E t \in Tasks : SlotOf(t) = s /\ Holds(v, WithSlot, t)'
    <3>1. CASE s \in DOMAIN slotOwner /\ slotOwner[s] = v
      BY <1>8, <3>1 DEF BInv, OwnerInv
    <3>2. CASE ~(s \in DOMAIN slotOwner /\ slotOwner[s] = v)
      <4>1. s = SlotOf(Task(w)) /\ v = w
        BY <1>1, <2>1, <3>2 DEF TypeInv
      <4> QED BY <1>4, <1>9, <4>1
    <3> QED BY <3>1, <3>2
  <2>2. ASSUME NEW g \in DOMAIN gradOwner', gradOwner'[g] = v
        PROVE  \E t \in Tasks : GradOf(t) = g /\ Holds(v, WithGrad, t)'
    <3>1. CASE g \in DOMAIN gradOwner /\ gradOwner[g] = v
      BY <1>8, <3>1 DEF BInv, OwnerInv
    <3>2. CASE ~(g \in DOMAIN gradOwner /\ gradOwner[g] = v)
      <4>1. g = GradOf(Task(w)) /\ v = w /\ p \in WithGrad
        BY <1>1, <2>2, <3>2 DEF TypeInv
      <4> QED BY <1>4, <1>9, <4>1
    <3> QED BY <3>1, <3>2
  <2> QED BY <2>1, <2>2
<1>11. SequentialInv'
  <2> SUFFICES ASSUME method = "faer-1t", NEW v \in Workers
               PROVE  /\ open' = {} /\ Len(stack'[v]) <= 1
                      /\ \A k \in DOMAIN stack'[v] : stack'[v][k].at \in {"slot", "grad", "ready"}
    BY DEF SequentialInv
  <2>1. /\ Len(stack[v]) <= 1
        /\ \A k \in DOMAIN stack[v] : stack[v][k].at \in {"slot", "grad", "ready"}
    BY DEF BInv, SequentialInv
  <2>2. Len(stack'[v]) <= 1
    BY <1>2, <2>1
  <2>3. ASSUME NEW k \in DOMAIN stack'[v]
        PROVE  stack'[v][k].at \in {"slot", "grad", "ready"}
    <3>1. CASE v = w /\ k = Len(stack[w])
      BY <1>2, <3>1
    <3>2. CASE ~(v = w /\ k = Len(stack[w]))
      BY <1>2, <2>1, <3>2
    <3> QED BY <3>1, <3>2
  <2> QED BY <2>2, <2>3
<1> QED BY <1>5, <1>6, <1>10, <1>11 DEF BInv

\* The moves of a task towards its end.
LEMMA MoveSteps ==
  ASSUME BInv, NEW w \in Workers,
         LockSlot(w) \/ LockGrad(w) \/ Fork(w) \/ TakeBack(w) \/ Wait(w) \/ Join(w)
  PROVE  BInv'
<1>1. TypeInv /\ stack[w] # <<>>
  BY DEF BInv, At, LockSlot, LockGrad, Fork, TakeBack, Wait, Join
<1>2. \A p, q : At(w, p) /\ At(w, q) => p = q
  BY DEF At
<1>3. method = "faer-1t" =>
        ~Threaded /\ open = {} /\ ~At(w, "forked") /\ ~At(w, "waiting")
  BY <1>1, Top DEF BInv, SequentialInv, Threaded
<1>4. CASE LockSlot(w)
  <2> DEFINE p == AfterLock(TRUE, FirstLock(Task(w)) = "grad")
  <2>1. p = IF backward THEN "grad" ELSE "ready"
    BY DEF AfterLock, FirstLock
  <2>2. /\ At(w, "slot") /\ Move(w, p) /\ slotOwner' = [slotOwner EXCEPT ![SlotOf(Task(w))] = w]
        /\ UNCHANGED <<method, backward, size, pending, gradOwner, open>>
    BY <1>4 DEF LockSlot
  <2> HIDE DEF p
  <2>3. p \in {"grad", "ready"} /\ (p = "grad" => backward)
    BY <2>1
  <2>4. ~At(w, "half") /\ ~At(w, "ready") /\ ~At(w, "forked") /\ ~At(w, "waiting") /\ ~At(w, "last")
    BY <1>2, <2>2
  <2>5. open' \subseteq Tasks /\ (method = "faer-1t" => open' = {})
    BY <1>1, <1>3, <2>2 DEF TypeInv
  <2> QED BY <1>1, <2>2, <2>3, <2>4, <2>5, MoveStep DEF Places
<1>5. CASE LockGrad(w)
  <2> DEFINE p == AfterLock(FirstLock(Task(w)) = "slot", TRUE)
  <2>1. p = "ready"
    BY DEF AfterLock, FirstLock
  <2>2. /\ At(w, "grad") /\ Move(w, "ready") /\ gradOwner' = [gradOwner EXCEPT ![GradOf(Task(w))] = w]
        /\ UNCHANGED <<method, backward, size, pending, slotOwner, open>>
    BY <1>5, <2>1 DEF LockGrad
  <2>3. ~At(w, "half") /\ "ready" \in WithGrad /\ backward
    BY <1>1, <1>2, <2>2, Top DEF WithGrad, WithSlot, Places, TypeInv
  <2>4. open' \subseteq Tasks /\ (method = "faer-1t" => open' = {})
    BY <1>1, <1>3, <2>2 DEF TypeInv
  <2> QED BY <1>1, <2>2, <2>3, <2>4, MoveStep DEF Places
<1>6. CASE Fork(w) \/ TakeBack(w) \/ Wait(w) \/ Join(w)
  <2>1. PICK p \in {"forked", "last", "waiting"} : Move(w, p)
    BY <1>6 DEF Fork, TakeBack, Wait, Join
  <2>2. At(w, "ready") \/ At(w, "forked") \/ At(w, "waiting")
    BY <1>6 DEF Fork, TakeBack, Wait, Join
  <2>3. UNCHANGED <<method, backward, size, pending, slotOwner, gradOwner>> /\ method # "faer-1t"
    BY <1>3, <1>6 DEF Fork, TakeBack, Wait, Join
  <2>4. open' \subseteq Tasks
    BY <1>1, <1>6, Top DEF Fork, TakeBack, Wait, Join, TypeInv
  <2>5. ~At(w, "half") /\ p \in WithGrad /\ p \in Places \ {"half", "slot"} /\ p # "grad"
    BY <1>2, <2>2 DEF WithGrad, WithSlot, Places
  <2> QED BY <1>1, <2>1, <2>3, <2>4, <2>5, MoveStep
<1> QED BY <1>4, <1>5, <1>6

\* The end of an activity: a stolen half held nothing, a task drops what it held.
LEMMA PopStep ==
  ASSUME BInv, NEW w \in Workers, stack[w] # <<>>, Pop(w),
         UNCHANGED <<method, backward, size, pending, open>>,
         \/ At(w, "half") /\ UNCHANGED <<slotOwner, gradOwner>>
         \/ /\ slotOwner' = [slotOwner EXCEPT ![SlotOf(Task(w))] = Nobody]
            /\ gradOwner' = [gradOwner EXCEPT ![GradOf(Task(w))] = Nobody]
         \/ /\ ~backward /\ gradOwner' = gradOwner
            /\ slotOwner' = [slotOwner EXCEPT ![SlotOf(Task(w))] = Nobody]
  PROVE  BInv'
<1>1. TypeInv
  BY DEF BInv
<1>2. /\ stack' \in [Workers -> Seq(Frame)] /\ \A v \in Workers : v # w => stack'[v] = stack[v]
      /\ Len(stack'[w]) = Len(stack[w]) - 1
      /\ DOMAIN stack'[w] = DOMAIN stack[w] \ {Len(stack[w])}
      /\ \A k \in DOMAIN stack'[w] : stack'[w][k] = stack[w][k]
  BY <1>1, Popped
<1>3. \A v \in Workers : /\ DOMAIN stack'[v] \subseteq DOMAIN stack[v]
                         /\ \A k \in DOMAIN stack'[v] : stack'[v][k] = stack[v][k]
  BY <1>2
<1>4. Frame' = Frame /\ Tasks' = Tasks
  BY DEF Frame, Tasks
<1>5. TypeInv'
  <2>1. slotOwner' \in [0..(NumSlots - 1) -> Workers \cup {Nobody}]
    BY <1>1 DEF TypeInv
  <2>2. gradOwner' \in [0..(NumGrads - 1) -> Workers \cup {Nobody}]
    BY <1>1 DEF TypeInv
  <2>3. \A v \in Workers : \A k \in DOMAIN stack'[v] : stack'[v][k].at = "grad" => backward
    BY <1>1, <1>3 DEF TypeInv
  <2>4. ~backward => \A g \in DOMAIN gradOwner' : gradOwner'[g] = Nobody
    BY <1>1 DEF TypeInv
  <2> QED BY <1>1, <1>2, <1>4, <2>1, <2>2, <2>3, <2>4 DEF TypeInv
<1>6. OnceInv'
  BY <1>3 DEF BInv, OnceInv
<1>7. OwnerInv'
  <2> SUFFICES ASSUME NEW v \in Workers
               PROVE  /\ \A s \in DOMAIN slotOwner' : slotOwner'[s] = v =>
                           \E t \in Tasks : SlotOf(t) = s /\ Holds(v, WithSlot, t)'
                      /\ \A g \in DOMAIN gradOwner' : gradOwner'[g] = v =>
                           \E t \in Tasks : GradOf(t) = g /\ Holds(v, WithGrad, t)'
    BY <1>4 DEF OwnerInv
  <2>1. v # Nobody /\ stack[w][Len(stack[w])].task = Task(w)
    BY <1>1, Top
  <2>2. At(w, "half") => /\ stack[w][Len(stack[w])].at \notin WithSlot
                         /\ stack[w][Len(stack[w])].at \notin WithGrad
    BY <1>1, Top DEF WithSlot, WithGrad
  <2>3. ASSUME NEW s \in DOMAIN slotOwner', slotOwner'[s] = v
        PROVE  \E t \in Tasks : SlotOf(t) = s /\ Holds(v, WithSlot, t)'
    <3>1. /\ s \in DOMAIN slotOwner /\ slotOwner[s] = v
          /\ At(w, "half") \/ s # SlotOf(Task(w))
      BY <1>1, <2>1, <2>3 DEF TypeInv
    <3>2. PICK t \in Tasks : SlotOf(t) = s /\ Holds(v, WithSlot, t)
      BY <3>1 DEF BInv, OwnerInv
    <3>3. Holds(v, WithSlot, t)'
      BY <1>1, <2>2, <3>1, <3>2, PopKeeps
    <3> QED BY <3>2, <3>3
  <2>4. ASSUME NEW g \in DOMAIN gradOwner', gradOwner'[g] = v
        PROVE  \E t \in Tasks : GradOf(t) = g /\ Holds(v, WithGrad, t)'
    <3>1. /\ g \in DOMAIN gradOwner /\ gradOwner[g] = v
          /\ At(w, "half") \/ g # GradOf(Task(w))
      BY <1>1, <2>1, <2>4 DEF TypeInv
    <3>2. PICK t \in Tasks : GradOf(t) = g /\ Holds(v, WithGrad, t)
      BY <3>1 DEF BInv, OwnerInv
    <3>3. Holds(v, WithGrad, t)'
      BY <1>1, <2>2, <3>1, <3>2, PopKeeps
    <3> QED BY <3>2, <3>3
  <2> QED BY <2>3, <2>4
<1>8. SequentialInv'
  <2>1. Len(stack[w]) \in Nat
    BY <1>1, Stacks
  <2>2. SequentialInv
    BY DEF BInv
  <2>3. \A v \in Workers : Len(stack[v]) <= 1 => Len(stack'[v]) <= 1
    BY <1>2, <2>1
  <2> QED BY <1>3, <2>2, <2>3 DEF SequentialInv
<1> QED BY <1>5, <1>6, <1>7, <1>8 DEF BInv

LEMMA EndStep ==
  ASSUME BInv, NEW w \in Workers, FinishHalf(w) \/ Finish(w)
  PROVE  BInv'
<1>1. stack[w] # <<>> /\ Pop(w) /\ UNCHANGED <<method, backward, size, pending, open>>
  BY DEF At, FinishHalf, Finish
<1>2. CASE FinishHalf(w)
  BY <1>1, <1>2, PopStep DEF FinishHalf
<1>3. CASE Finish(w)
  <2>1. CASE backward
    BY <1>1, <1>3, <2>1, PopStep DEF Finish
  <2>2. CASE ~backward
    BY <1>1, <1>3, <2>2, PopStep DEF Finish
  <2> QED BY <2>1, <2>2
<1> QED BY <1>2, <1>3

-----------------------------------------------------------------------------
LEMMA BInitInv == Init => BInv
<1> SUFFICES ASSUME Init PROVE BInv
  OBVIOUS
<1>1. \A w \in Workers : stack[w] = <<>> /\ DOMAIN stack[w] = {} /\ Len(stack[w]) = 0
  <2>1. DOMAIN <<>> = {} /\ Len(<<>>) = 0
    BY EmptySeq
  <2>2. \A w \in Workers : stack[w] = <<>>
    BY DEF Init
  <2> QED BY <2>1, <2>2
<1>2. <<>> \in Seq(Frame)
  BY EmptySeq
<1>3. TypeInv
  BY <1>1, <1>2 DEF Init, TypeInv, Tasks
<1>4. OnceInv /\ SequentialInv
  BY <1>1 DEF OnceInv, SequentialInv, Init
<1>5. OwnerInv
  BY DEF OwnerInv, Init
<1> QED BY <1>3, <1>4, <1>5 DEF BInv

LEMMA BNextInv == BInv /\ [Next]_vars => BInv'
<1> SUFFICES ASSUME BInv, [Next]_vars PROVE BInv'
  OBVIOUS
<1>1. ASSUME NEW w \in Workers, Worker(w) PROVE BInv'
  BY <1>1, TakeStep, StealStep, MoveSteps, EndStep DEF Worker
<1>2. CASE UNCHANGED vars
  <2>1. UNCHANGED <<method, backward, size, pending, stack, slotOwner, gradOwner, open>>
    BY <1>2 DEF vars
  <2>2. TypeInv'
    BY <2>1 DEF BInv, TypeInv, Tasks, Frame
  <2>3. OnceInv'
    BY <2>1 DEF BInv, OnceInv
  <2>4. SequentialInv'
    BY <2>1 DEF BInv, SequentialInv
  <2>5. Tasks' = Tasks /\ \A w, H, t : Holds(w, H, t) => Holds(w, H, t)'
    BY <2>1 DEF Tasks, Holds
  <2>6. OwnerInv'
    BY <2>1, <2>5 DEF BInv, OwnerInv
  <2> QED BY <2>2, <2>3, <2>4, <2>6 DEF BInv
<1> QED BY <1>1, <1>2 DEF Next

\* On one worker the owner of a lock is another activity than the one on top.
LEMMA NoSelfWait == BInv => SequentialNeverSelfWaits
<1> SUFFICES ASSUME BInv, method = "faer-1t" \/ PrivateLocks, NEW w \in Workers, SelfWait(w)
             PROVE  FALSE
  BY DEF SequentialNeverSelfWaits
<1> DEFINE n == Len(stack[w])
           u == Task(w)
<1>1. TypeInv /\ stack[w] # <<>>
  BY DEF BInv, SelfWait, At
<1>2. /\ u \in Tasks /\ n \in DOMAIN stack[w] /\ stack[w][n].task = u
      /\ n \in Nat /\ DOMAIN stack[w] = 1..n
      /\ \A p : At(w, p) <=> stack[w][n].at = p
  BY <1>1, Top, Stacks
<1> HIDE DEF n, u
<1>3. PICK t \in Tasks : \E k \in DOMAIN stack[w] :
        /\ k # n /\ stack[w][k].at # "half" /\ stack[w][k].task = t
        /\ PrivateLocks => t = u
  <2>1. CASE At(w, "slot") /\ slotOwner[SlotOf(u)] = w
    <3>1. SlotOf(u) \in DOMAIN slotOwner
      BY <1>1, <1>2 DEF TypeInv, SlotOf, Tasks
    <3>2. PICK t \in Tasks : SlotOf(t) = SlotOf(u) /\ Holds(w, WithSlot, t)
      BY <2>1, <3>1 DEF BInv, OwnerInv
    <3>3. PrivateLocks => t = u
      <4> SUFFICES ASSUME PrivateLocks PROVE t = u
        OBVIOUS
      <4>1. \A x \in Tasks : x \in Nat /\ x - 1 >= 0 /\ x - 1 < NumSlots
        BY <1>1 DEF PrivateLocks, Tasks, TypeInv
      <4>2. \A x \in Tasks : SlotOf(x) = x - 1
        BY <4>1 DEF SlotOf
      <4> QED BY <1>2, <3>2, <4>1, <4>2
    <3>4. PICK k \in DOMAIN stack[w] : stack[w][k].at \in WithSlot /\ stack[w][k].task = t
      BY <3>2 DEF Holds
    <3>5. k # n /\ stack[w][k].at # "half"
      BY <1>2, <2>1, <3>4 DEF WithSlot
    <3> QED BY <3>3, <3>4, <3>5
  <2>2. CASE At(w, "grad") /\ gradOwner[GradOf(u)] = w
    <3>1. GradOf(u) \in DOMAIN gradOwner
      BY <1>1, <1>2 DEF TypeInv, SlotOf, GradOf, Tasks
    <3>2. PICK t \in Tasks : GradOf(t) = GradOf(u) /\ Holds(w, WithGrad, t)
      BY <2>2, <3>1 DEF BInv, OwnerInv
    <3>3. backward
      BY <1>1, <1>2, <2>2 DEF TypeInv
    <3>4. PrivateLocks => t = u
      <4> SUFFICES ASSUME PrivateLocks PROVE t = u
        OBVIOUS
      <4>1. \A x \in Tasks : x \in Nat /\ x - 1 >= 0 /\ x - 1 < NumSlots /\ x - 1 < NumGrads
        BY <1>1, <3>3 DEF PrivateLocks, Tasks, TypeInv
      <4>2. \A x \in Tasks : SlotOf(x) = x - 1
        BY <4>1 DEF SlotOf
      <4>3. \A x \in Tasks : GradOf(x) = x - 1
        BY <4>1, <4>2 DEF GradOf
      <4> QED BY <1>2, <3>2, <4>1, <4>3
    <3>5. PICK k \in DOMAIN stack[w] : stack[w][k].at \in WithGrad /\ stack[w][k].task = t
      BY <3>2 DEF Holds
    <3>6. k # n /\ stack[w][k].at # "half"
      BY <1>2, <2>2, <3>5 DEF WithGrad, WithSlot
    <3> QED BY <3>4, <3>5, <3>6
  <2> QED BY <2>1, <2>2 DEF SelfWait, u
<1>4. PICK k \in DOMAIN stack[w] : k # n /\ stack[w][k].at # "half" /\ (PrivateLocks => stack[w][k].task = u)
  BY <1>3
<1>5. CASE method = "faer-1t"
  <2>1. n <= 1
    BY <1>5 DEF BInv, SequentialInv, n
  <2> QED BY <1>2, <1>4, <2>1
<1>6. CASE PrivateLocks
  <2>1. stack[w][n].at # "half"
    BY <1>2 DEF SelfWait
  <2> QED BY <1>2, <1>4, <1>6, <2>1 DEF BInv, OnceInv
<1> QED BY <1>5, <1>6

\* With single-threaded factorizations, or locks private to each problem, no
\* worker ever waits for a lock it owns: for any number of workers, problems,
\* slots and gradient states.
THEOREM NeverSelfWaits == Spec => []SequentialNeverSelfWaits
<1>1. Spec => []BInv
  BY BInitInv, BNextInv, PTL DEF Spec
<1> QED BY <1>1, NoSelfWait, PTL
=============================================================================

------------------------------- MODULE KKTSolver -------------------------------
(***************************************************************************)
(* The direct KKT solver of the interior-point method over its life:       *)
(* directldlkktsolver.rs with the engines of ldlsolvers/, and the part of  *)
(* kktsystem.rs that calls it.  It is built once for a sparsity pattern;   *)
(* then new data are loaded for every problem of a batch (update_P,        *)
(* update_A), the cones are rescaled in every iteration and the matrix is  *)
(* updated in place, shifted, factored and used for solves.                *)
(*                                                                         *)
(* An entry of the matrix is the set of the terms whose sum it is, so that *)
(* the properties can tell where each number came from: a term is the      *)
(* source and the version of the data or of the scaling it was read from.  *)
(* Each update writes two matrices: KKT, used by the refinement, and the   *)
(* permuted copy of the engine ("qdldl", "faer"), used by the              *)
(* factorization.  "pardiso" keeps no copy and stores the lower triangle.  *)
(***************************************************************************)
EXTENDS KKTAssembly, LDLFactor

CONSTANTS
  Problems,    \* patterns, cones and engine ("qdldl", "faer", "pardiso") to be built
  Orders,      \* what an ordering routine may return: functions from a dimension to an order
  PDSignsSet,  \* signs the primal-dual scaling may have
  Norms,       \* residual norms, and what stands for a norm that is not finite
  Tolerance,   \* abstol + reltol * normb
  StopRatio,   \* iterative_refinement_stop_ratio
  MaxRefine,   \* iterative_refinement_max_iter
  Regularizations, \* values that static_regularization_enable takes
  MaxData,     \* loads of new data
  MaxScalings  \* updates of the cones

NotFinite == -1
\* The stop ratio is 5 by default; the settings are not validated, and one below 1
\* would let the refinement keep solutions that got worse.
ASSUME RefinementAssumption ==
  /\ Norms \subseteq Nat /\ Tolerance \in Nat
  /\ StopRatio \in Nat \ {0} /\ MaxRefine \in Nat /\ Regularizations \subseteq BOOLEAN
ASSUME BoundsAssumption == MaxData \in Nat /\ MaxScalings \in Nat

\* The problem that is built: pardiso stores the lower triangle.
ProblemOf(p) == [P |-> p.P, A |-> p.A, cones |-> p.cones, xcones |-> p.xcones,
                 shape |-> IF p.engine = "pardiso" THEN "tril" ELSE "triu"]
\* What an ordering routine returns is a permutation of the rows.
IsPermutation(f, dim) ==
  /\ f \in [0..(dim - 1) -> 0..(dim - 1)]
  /\ \A i, j \in 0..(dim - 1) : f[i] = f[j] => i = j
ASSUME OrdersAssumption ==
  \A p \in Problems, o \in Orders :
    \A dim \in {Dim(ProblemOf(p))} : dim \in DOMAIN o /\ IsPermutation(o[dim], dim)
ASSUME EnginesAssumption == \A p \in Problems : p.engine \in {"qdldl", "faer", "pardiso"}

VARIABLES
  pc,        \* "new", "loaded", "scaled", "ready", "refining", "failed"
  problem,   \* pattern, cones and triangle
  engine,
  map,       \* LDLDataMap, and the dimension of the matrix
  KKT,       \* slot -> terms
  copy,      \* permuted copy of the engine: [perm, to, at, val]
  pxBaseline,\* Hx entry -> terms of P cached for it
  dsigns,    \* row -> expected sign, of the solver ...
  ldlSigns,  \* ... and, permuted, of the engine
  factored,  \* positions and terms of the matrix that was last factored
  dataVer,   \* version of the user's data ...
  scaleVer,  \* ... and of the scaling
  pdSigns,   \* signs of the axes of the scaling
  regularize,\* static_regularization_enable
  x2,        \* version of the solution for the constant right-hand side
  step,      \* last solve for a step, with the norms its refinement saw
  rounds     \* rounds of the refinement

vars == <<pc, problem, engine, map, KKT, copy, pxBaseline, dsigns, ldlSigns, factored,
          dataVer, scaleVer, pdSigns, regularize, x2, step, rounds>>
matrices == <<problem, engine, map>>

Version == [data |-> dataVer, scale |-> scaleVer]
NoVersion == [data |-> -1, scale |-> -1]
NoStep == [x1 |-> NoVersion, x2 |-> NoVersion, seen |-> {}, kept |-> NotFinite]

-----------------------------------------------------------------------------
\* Writing entries.  _update_values writes both matrices; KKT only is put back
\* after a factorization.  "slots" and "values" are functions over the same keys.
WriteKKT(K, slots, values) ==
  [s \in DOMAIN K |-> IF \E k \in DOMAIN slots : slots[k] = s
                      THEN values[CHOOSE k \in DOMAIN slots : slots[k] = s] ELSE K[s]]
WriteCopy(c, slots, values) ==
  IF engine = "pardiso" THEN c
  ELSE [c EXCEPT !.val = WriteKKT(@, [k \in DOMAIN slots |-> c.to[slots[k]]], values)]

\* The terms that the cones write to a place of the map, and to an entry of P
\* under a direct-x cone: the cached terms of P plus the block.
Stamp(source) == <<source, IF source[1] \in {"P", "A"} THEN dataVer ELSE scaleVer>>
ScalingTerm(of) == {Stamp(SourceOf(problem, pdSigns, of))}
HxTerm(k) == {Stamp(<<"Hx", k>>)} \cup pxBaseline[k]

\* The static regularization adds eps with the expected sign of the row to the
\* diagonal; both matrices get the sum.  Without it nothing is written.
Diagonal == [r \in 0..(map.dim - 1) |-> map.diagFull[r]]
Shift(sign) == {Stamp(<<"eps", sign>>)}
Regularized(K, signs) ==
  IF regularize
  THEN WriteKKT(K, Diagonal, [r \in DOMAIN signs |-> K[map.diagFull[r]] \cup Shift(signs[r])])
  ELSE K
RegularizedCopy(c, K, signs) ==
  IF regularize THEN WriteCopy(c, Diagonal, [r \in DOMAIN signs |-> K[map.diagFull[r]]]) ELSE c

\* The matrix that an engine factors: its copy in the original order, or KKT.
Nonzero(at, val, perm) ==
  {<<Position(perm[at[d].row], perm[at[d].col]), val[d]>> : d \in {e \in DOMAIN at : val[e] # {}}}
Natural == [r \in 0..(map.dim - 1) |-> r]
MatrixOf(K, c) ==
  IF engine = "pardiso" THEN Nonzero(map.at, K, Natural) ELSE Nonzero(c.at, c.val, c.perm)

-----------------------------------------------------------------------------
\* new_with_perm_and_xcones: the matrix is assembled with the values of P and A
\* and zeros for the cones; the engine is built on it.  Rows of the expansions
\* of power cones are eliminated first, unless an order was handed in.
P0(k) == {<<<<"P", k>>, 0>>}
WantFirst(p) ==
  UNION ({PColStart(p, i)..(PColStart(p, i) + PDim(p.cones[i]) - 1) :
            i \in {j \in DOMAIN p.cones : p.cones[j].kind = "genpow"}}
         \cup {XPColStart(p, x)..(XPColStart(p, x) + PDim(p.xcones[x]) - 1) :
            x \in {y \in DOMAIN p.xcones : p.xcones[y].kind = "genpow"}})
NewCopy(at, dim, order) ==
  LET plain == PermuteSymmetric(at, InversePerm(order), dim)
      c == IF engine = "faer" THEN SortColumns(plain) ELSE plain
  IN  [perm |-> order, to |-> c.to, at |-> c.at]
NoCopy == [perm |-> <<>>]

AllPlus == [k \in 1..PDAxes |-> 1]
Construct ==
  /\ pc = "new"
  /\ \E asm \in {Assembled(problem)} : \E mp \in {NewMap(problem, asm)} :
     \E given \in BOOLEAN, order \in {o[asm.dim] : o \in Orders} :
       LET wanted == WantFirst(problem)
           perm == IF given \/ wanted = {} THEN order ELSE PullToFront(order, asm.dim, wanted)
           values == [s \in DOMAIN mp.at |->
                        IF \E k \in DOMAIN mp.P : mp.P[k] = s
                        THEN P0(CHOOSE k \in DOMAIN mp.P : mp.P[k] = s)
                        ELSE IF \E k \in DOMAIN mp.A : mp.A[k] = s
                             THEN {<<<<"A", CHOOSE k \in DOMAIN mp.A : mp.A[k] = s>>, 0>>} ELSE {}]
           signs == Signs(problem, AllPlus)
       IN  /\ map' = mp /\ KKT' = values /\ dsigns' = signs
           /\ pxBaseline' = [k \in DOMAIN mp.HxToP |->
                               IF mp.HxToP[k] # 0 THEN P0(mp.HxToP[k]) ELSE {}]
           /\ IF engine = "pardiso" THEN copy' = NoCopy /\ ldlSigns' = <<>>
              ELSE \E c \in {NewCopy(mp.at, asm.dim, perm)} :
                   /\ copy' = [perm |-> c.perm, to |-> c.to, at |-> c.at,
                               val |-> [d \in DOMAIN c.at |-> values[InversePerm(c.to)[d]]]]
                   /\ ldlSigns' = PermuteArray(signs, perm)
  /\ pc' = "loaded"
  /\ UNCHANGED <<problem, engine, factored, dataVer, scaleVer, pdSigns, regularize, x2, step,
                 rounds>>

\* load_and_equilibrate: update_P and update_A with the data of the next problem.
\* update_P also refreshes the cached P under the blocks of direct-x cones.
\* Mutant: it does not.
StaleBaseline(terms) == pxBaseline
FreshBaseline(terms) ==
  [k \in DOMAIN map.HxToP |-> IF map.HxToP[k] # 0 THEN terms[map.HxToP[k]] ELSE {}]
LoadData ==
  /\ pc \in {"loaded", "ready", "failed"} /\ dataVer < MaxData
  /\ dataVer' = dataVer + 1
  /\ LET Terms(name, slots) == [k \in DOMAIN slots |-> {<<<<name, k>>, dataVer'>>}]
         p == Terms("P", map.P)
         a == Terms("A", map.A)
     IN  /\ KKT' = WriteKKT(WriteKKT(KKT, map.P, p), map.A, a)
         /\ copy' = WriteCopy(WriteCopy(copy, map.P, p), map.A, a)
         /\ pxBaseline' = FreshBaseline(p)
  /\ pc' = "loaded"
  /\ UNCHANGED <<matrices, dsigns, ldlSigns, factored, scaleVer, pdSigns, regularize, x2, step,
                 rounds>>

\* Solver::update_settings between two solves; the next one starts afresh.
UpdateSettings ==
  /\ pc \in {"loaded", "ready", "failed"}
  /\ regularize' \in Regularizations \ {regularize}
  /\ pc' = "loaded"
  /\ UNCHANGED <<matrices, KKT, copy, pxBaseline, dsigns, ldlSigns, factored, dataVer, scaleVer,
                 pdSigns, x2, step, rounds>>

\* The cones compute a new scaling (compositecone.rs, for identity or from the
\* iterate); the signs of primal-dual axes come with it.
Rescale ==
  /\ pc \in {"loaded", "ready", "failed"} /\ scaleVer < MaxScalings
  /\ scaleVer' = scaleVer + 1
  /\ pdSigns' \in PDSignsSet
  /\ pc' = "scaled"
  /\ UNCHANGED <<matrices, KKT, copy, pxBaseline, dsigns, ldlSigns, factored, dataVer,
                 regularize, x2, step, rounds>>

\* The signs are taken from the cones again in every update.
\* Mutant: they stay those of the construction.
SignsOfConstruction == Signs(problem, AllPlus)
LiveSigns == Signs(problem, pdSigns)

\* What KKT holds after the factorization: the diagonal without the shift.
\* Mutant: the shifted diagonal stays.
LeaveShifted(plain, shifted) == shifted
PutBack(plain, shifted) == plain

\* update of the KKT solver: blocks, expansions, signs, direct-x blocks, static
\* regularization and factorization; then DefaultKKTSystem::update solves for the
\* constant right-hand side.  The factorization or that solve may not be finite.
\* Mutant: a failed constant solve is reported as a success.
UpdateIgnoresConstant(factors, constant) == factors
UpdateSucceeds(factors, constant) == factors /\ constant
Update ==
  /\ pc = "scaled"
  /\ LET coneTerms == [of \in DOMAIN map.cones |-> ScalingTerm(of)]
         hxTerms == [k \in DOMAIN map.Hx |-> HxTerm(k)]
         signs == LiveSigns
     IN  /\ dsigns' = signs
         /\ ldlSigns' = IF engine = "pardiso" THEN <<>> ELSE PermuteArray(signs, copy.perm)
         /\ \E plain \in {WriteKKT(WriteKKT(KKT, map.cones, coneTerms), map.Hx, hxTerms)} :
            \E shifted \in {Regularized(plain, signs)} :
              /\ KKT' = PutBack(plain, shifted)
              /\ copy' = RegularizedCopy(
                           WriteCopy(WriteCopy(copy, map.cones, coneTerms), map.Hx, hxTerms),
                           shifted, signs)
              /\ factored' = MatrixOf(shifted, copy')
  /\ \E factors, constant \in BOOLEAN :
       /\ x2' = IF factors /\ constant THEN Version ELSE x2
       /\ pc' = IF UpdateSucceeds(factors, constant) THEN "ready" ELSE "failed"
  /\ UNCHANGED <<matrices, pxBaseline, dataVer, scaleVer, pdSigns, regularize, step, rounds>>

\* DefaultKKTSystem::solve: a step from the factor (x1) and the solution for the
\* constant right-hand side (x2).  The norm of its residual is the choice of the
\* environment; a failure leaves the caller's step alone.
unrefined == <<matrices, KKT, copy, pxBaseline, dsigns, ldlSigns, factored, dataVer, scaleVer,
               pdSigns, regularize, x2>>
Rejects(norm) == norm = NotFinite
Fail == step' = NoStep /\ rounds' = 0 /\ pc' = "failed"
Solve ==
  /\ pc = "ready"
  /\ \E norm \in Norms \cup {NotFinite} :
       \/ Rejects(norm) /\ Fail
       \/ /\ ~Rejects(norm)
          /\ step' = [x1 |-> Version, x2 |-> x2, seen |-> {norm}, kept |-> norm]
          /\ rounds' = 0 /\ pc' = "refining"
  /\ UNCHANGED unrefined

\* One round of iterative_refinement: a refined solution is taken if the norm falls
\* by StopRatio, and by anything on the way out.
Takes(last, next) == last > next \/ last >= StopRatio * next
Refine ==
  /\ pc = "refining" /\ step.kept > Tolerance /\ rounds < MaxRefine
  /\ \E norm \in Norms \cup {NotFinite} :
       \/ Rejects(norm) /\ Fail
       \/ /\ ~Rejects(norm)
          /\ step' = [step EXCEPT !.seen = @ \cup {norm},
                                  !.kept = IF Takes(@, norm) THEN norm ELSE @]
          /\ rounds' = rounds + 1
          /\ pc' = IF step.kept < StopRatio * norm THEN "ready" ELSE "refining"
  /\ UNCHANGED unrefined
Refined ==
  /\ pc = "refining" /\ (step.kept <= Tolerance \/ rounds = MaxRefine)
  /\ pc' = "ready"
  /\ UNCHANGED <<unrefined, step, rounds>>

\* Nothing more is asked for: the bounds are reached.
Finished ==
  /\ scaleVer = MaxScalings /\ pc \notin {"new", "scaled", "refining"}
  /\ UNCHANGED vars

Init ==
  /\ pc = "new"
  /\ \E p \in Problems :
       engine = p.engine /\ problem = ProblemOf(p)
  /\ map = <<>> /\ KKT = <<>> /\ copy = NoCopy /\ pxBaseline = <<>>
  /\ dsigns = <<>> /\ ldlSigns = <<>> /\ factored = {}
  /\ dataVer = 0 /\ scaleVer = 0 /\ pdSigns = AllPlus /\ regularize \in Regularizations
  /\ x2 = NoVersion /\ step = NoStep
  /\ rounds = 0

Next ==
  \/ Construct \/ LoadData \/ UpdateSettings \/ Rescale \/ Update
  \/ Solve \/ Refine \/ Refined \/ Finished
Spec == Init /\ [][Next]_vars

-----------------------------------------------------------------------------
TrueEntry(i, j) == {Stamp(source) : source \in TrueSources(problem, pdSigns, i, j)}
TrueMatrix == {e \in {<<q, TrueEntry(q[1], q[2])>> : q \in UpperTriangle(map.dim)} : e[2] # {}}
\* Whether an entry has a sign term of that sign, or has none.
HasSign(terms, sign) == \A t \in terms : t[1][1] = "sign" => t[1][2] = sign
Unshifted(matrix) ==
  {f \in {<<e[1], {t \in e[2] : t[1][1] # "eps"}>> : e \in matrix} : f[2] # {}}

Factored == pc \in {"ready", "refining"}
JustBuilt == pc = "loaded" /\ dataVer = 0 /\ scaleVer = 0

\* The counting pass announces for every column exactly what the filling pass
\* places there, the room that is allocated is filled exactly, the rows of a
\* column ascend, and the slot that diag_full takes for a diagonal entry without
\* a search is that entry (kkt_assembly.rs, both triangles).  The map leads each
\* source to the slot of the position it has in the KKT matrix, no two of them to
\* one slot but where a direct-x block lies on P, and the signs fit the diagonal.
MapFits ==
  /\ SlotsLaid(map) /\ PlacesApart(map)
  /\ \A pd \in PDSignsSet \cup {AllPlus} :
       SourcesPlaced(problem, pd, map) /\ SignsFit(problem, pd, map)
AssemblyFits ==
  JustBuilt =>
    LET asm == Fill(problem)
        InColumn(c) == {d \in DOMAIN map.at : map.at[d].col = c}
    IN  /\ MapFits
        /\ Len(asm) = NnzKKT(problem) /\ Cardinality(DOMAIN map.at) = Len(asm)
        /\ \A c \in 0..(map.dim - 1) :
             /\ Cardinality({i \in DOMAIN asm : asm[i].col = c}) = ColumnCount(problem, c)
             /\ \A d, e \in InColumn(c) : d < e => map.at[d].row < map.at[e].row
             /\ map.at[map.diagFull[c]] = [row |-> c, col |-> c]

\* The matrix that is factored is the KKT matrix of the problem that was loaded
\* last under the scaling that was computed last, entry by entry: nothing of
\* another problem of the batch or of an earlier iteration is left in the
\* permuted copy, overlaps of P and direct-x blocks included, and every diagonal
\* entry is shifted once, by the regularization of this factorization.  Only when
\* the regularization has been switched off since, the copy keeps shifts of before
\* on the diagonal: the factorization leaves its copy shifted, and nothing writes
\* to a diagonal entry that is not of P or of a cone.
FactoredIsCurrent ==
  Factored =>
    /\ Unshifted(factored) = TrueMatrix
    /\ regularize =>
         \A r \in 0..(map.dim - 1) :
           \E e \in factored : e[1] = <<r, r>> /\ Cardinality({t \in e[2] : t[1][1] = "eps"}) = 1
    /\ \A e \in factored : \A t \in e[2] : t[1][1] = "eps" =>
         e[1][1] = e[1][2] /\ (regularize => t[2] = scaleVer)

\* The matrix that the residuals of iterative refinement are computed with is the
\* one without the shift: the refinement corrects the regularization's error.
\* What it returns is the best solution it has seen.
RefinementUsesTrueMatrix ==
  /\ Factored => Nonzero(map.at, KKT, Natural) = TrueMatrix
  /\ step # NoStep => step.kept = Least(step.seen)

\* The sign that the static and the dynamic regularization expect of a pivot is
\* that of the diagonal entry an expansion put there, in the solver's order and
\* in the engine's, also when the signs of a power cone's axes flip.
SignsMatchSentinels ==
  Factored =>
    /\ \A r \in 0..(map.dim - 1) : HasSign(KKT[map.diagFull[r]], dsigns[r])
    /\ regularize =>
         \A e \in factored : \A t \in e[2] : t[1][1] = "eps" => HasSign(e[2], t[1][2])
    /\ engine # "pardiso" => \A r \in DOMAIN copy.perm : ldlSigns[r] = dsigns[copy.perm[r]]

\* The filled graph: L has an entry at row i, column j if a path from j to i
\* runs through vertices eliminated before j (a theorem of Rose, Tarjan, Lueker).
FillOf(at, dim) ==
  LET linked == {<<at[d].row, at[d].col>> : d \in DOMAIN at}
      Near(v) == {w \in 0..(dim - 1) : <<v, w>> \in linked \/ <<w, v>> \in linked}
      near == [v \in 0..(dim - 1) |-> Near(v)]
      Column(j) == LET through == Reached(LAMBDA v : IF v <= j THEN near[v] ELSE {}, {j}, j + 1)
                   IN  {i \in through : i > j}
  IN  [j \in 0..(dim - 1) |-> Column(j)]

\* The symbolic analysis of the engine is that of the matrix it was given: lnz
\* counts the fill of every column, the parent is the first row of it, and the
\* numeric pass writes exactly these rows, in order, into the room of the
\* column; it takes the columns of a row of L in an order in which a column that
\* changes another one comes before it.
SymbolicFactorIsFill ==
  JustBuilt /\ engine = "qdldl" =>
    \A fill \in {FillOf(copy.at, map.dim)}, tree \in {ETree(copy.at, map.dim)} :
      /\ \A j \in DOMAIN fill :
           /\ tree.lnz[j] = Cardinality(fill[j])
           /\ tree.parent[j] = IF fill[j] = {} THEN Unknown ELSE Least(fill[j])
      /\ FactorColumns(copy.at, tree, map.dim) = [j \in DOMAIN fill |-> Ascending(fill[j])]
      /\ \A k \in DOMAIN fill :
           \A order \in {EliminationOrder(RowIndices(copy.at, tree, k))} :
             \A a, b \in DOMAIN order : order[b] \in fill[order[a]] => a < b

\* The two solutions that make up a step, the variable one and the constant one,
\* come from one and the same factorization, that of the current data.
StepUsesOneFactor == step # NoStep => step.x1 = step.x2
=============================================================================

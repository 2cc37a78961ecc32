-------------------------- MODULE ChordalDecomposition --------------------------
(***************************************************************************)
(* The chordal decomposition of one PSD cone: SparsityPattern::new (clique *)
(* tree, merge strategy, renumbering), the compact augmentation of A and b *)
(* (decomp/augment_compact.rs), its reversal and adjoint                   *)
(* (reverse_compact.rs) and the PSD completion (psd_completion.rs).        *)
(*                                                                         *)
(* The cone has Order rows and columns and lies in a problem between       *)
(* RowsBefore and RowsAfter rows of undecomposed cones.  A number of the   *)
(* problem is represented by the place it comes from, so that a number in  *)
(* the wrong place is a wrong value.                                       *)
(***************************************************************************)
EXTENDS CliqueMerge

CONSTANTS
  Order,                  \* order of the PSD cone
  RowsBefore, RowsAfter,  \* rows of the cones before and after it
  Graphs,                 \* sets of off-diagonal pairs <<i, j>>, i < j
  Orderings,              \* elimination orders, arrays over 0..Order-1
  Methods                 \* "none", "parent_child", "clique_graph"

Vertices == 0..(Order - 1)
Pairs == {e \in Vertices \X Vertices : e[1] < e[2]}

ASSUME OrderAssumption ==
  /\ Order \in Nat \ {0} /\ RowsBefore \in Nat /\ RowsAfter \in Nat
  /\ Graphs \subseteq SUBSET Pairs
  /\ Orderings \subseteq {f \in [Vertices -> Vertices] : \A v \in Vertices : \E i \in Vertices : f[i] = v}
  /\ Methods \subseteq {"none", "parent_child", "clique_graph"}

VARIABLES
  pc,         \* "new", "merging", "merged", "whole", "pattern", "augmented"
  mask,       \* rows of the cone, as svec indices, in which [A b] is nonzero
  ordering,   \* elimination order, later the map to original vertices
  method,
  tree,       \* SuperNodeTree
  edges, adj, \* clique graph strategy
  next,       \* clique_index of the parent-child strategy
  problem,    \* once augmented: nonzeros of A, nonzero rows of b
  augmented   \* CompactAugmentedProblem with the cone maps

vars == <<pc, mask, ordering, method, tree, edges, adj, next, problem, augmented>>

-----------------------------------------------------------------------------
(* Packed upper triangles.                                                 *)

TriangularNumber(k) == (k * (k + 1)) \div 2
TriangularIndex(k) == (k * (k + 3)) \div 2
CoordToIndex(i, j) ==
  IF i = 0 /\ j = 0 THEN 0
  ELSE IF i <= j THEN TriangularIndex(j - 1) + i + 1 ELSE TriangularIndex(i - 1) + j + 1
Isqrt(v) == CHOOSE r \in 0..v : r * r <= v /\ v < (r + 1) * (r + 1)
IndexToCoord(k) ==
  IF k = 0 THEN <<0, 0>>
  ELSE LET col == (Isqrt(8 * k + 1) + 1) \div 2 - 1
       IN  <<k - TriangularIndex(col - 1) - 1, col>>

Svec == 0..(TriangularNumber(Order) - 1)
Diagonal == {TriangularIndex(i) : i \in Vertices}

\* find_graph: the graph of the mask, its vertices in elimination order, and
\* the symbolic factor.
PermutedEdges(m, ord) ==
  LET inv == InversePerm(ord)
      coords == {IndexToCoord(k) : k \in m}
      e == {<<inv[x[1]], inv[x[2]]>> : x \in coords}
  IN  {x \in e \cup {<<y[2], y[1]>> : y \in e} : x[1] < x[2]}
FindGraph(m, ord) ==
  ConnectGraph(HigherNeighbors(PermutedEdges(m, ord), Order), Order)

-----------------------------------------------------------------------------
NoTree == [nCliques |-> 0]
NoProblem == [A |-> {}, b |-> {}]
Init ==
  /\ pc = "new"
  /\ \E g \in Graphs : mask = Diagonal \cup {CoordToIndex(e[1], e[2]) : e \in g}
  /\ ordering \in Orderings /\ method \in Methods
  /\ tree = NoTree /\ edges = <<>> /\ adj = <<>> /\ next = 0
  /\ problem = NoProblem /\ augmented = NoProblem

\* analyse_psdtriangle_sparsity_pattern: a dense cone is left alone.  Otherwise
\* the clique tree is built and, with several cliques, the strategy initialised.
BuildTree ==
  /\ pc = "new"
  /\ \/ /\ mask = Svec
        /\ pc' = "whole" /\ UNCHANGED <<tree, edges, adj, next>>
     \/ /\ mask # Svec
        /\ \E L \in {FindGraph(mask, ordering)} :
           \E parent \in {ParentFromL(L, Order)} :
           \E post \in {PostOrder(parent, ChildrenFromParent(parent))} :
           \E ps \in {PothenSun(parent, post, HigherDegree(L, Order))} :
           \E t \in {NewTree(L, post, ps)} :
           \/ /\ t.nCliques > 1 /\ method = "clique_graph"
              /\ tree' = GraphTree(t) /\ edges' = GraphEdges(t)
              /\ adj' = AdjacencyTable(GraphEdges(t), DOMAIN t.snode)
              /\ next' = 0 /\ pc' = "merging"
           \/ /\ t.nCliques > 1 /\ method = "parent_child"
              /\ tree' = t /\ next' = Len(t.snodePost) - 1
              /\ pc' = "merging" /\ UNCHANGED <<edges, adj>>
           \/ /\ t.nCliques > 1 /\ method = "none"
              /\ tree' = t /\ pc' = "merged" /\ UNCHANGED <<edges, adj, next>>
           \/ /\ t.nCliques = 1
              /\ tree' = t /\ pc' = "whole" /\ UNCHANGED <<edges, adj, next>>
  /\ UNCHANGED <<mask, ordering, method, problem, augmented>>

\* One round of merge_cliques: the cliques from last but one down to the first
\* of the post order, each with its parent.
MergeParentChild ==
  /\ pc = "merging" /\ method = "parent_child"
  /\ LET c == tree.snodePost[next]  p == tree.parent[c] IN
     tree' = IF ParentChildWants(tree, p, c) THEN MergeIntoParent(tree, p, c) ELSE tree
  /\ next' = next - 1
  /\ pc' = IF next = 1 \/ tree'.nCliques = 1 THEN "merged" ELSE "merging"
  /\ UNCHANGED <<mask, ordering, method, edges, adj, problem, augmented>>

\* One round of merge_cliques on the clique graph: no permissible edge, or one
\* of negative weight, ends the merging.
Candidate == Traverse(edges, adj, tree.snode)
MergeOnGraph ==
  /\ pc = "merging" /\ method = "clique_graph"
  /\ Candidate # NoEdge /\ edges[Candidate] >= 0
  /\ tree' = MergeInGraph(tree, Candidate)
  /\ edges' = UpdateEdges(edges, adj, tree'.snode, Candidate)
  /\ adj' = UpdateAdjacency(adj, Candidate)
  /\ pc' = IF tree'.nCliques = 1 THEN "merged" ELSE "merging"
  /\ UNCHANGED <<mask, ordering, method, next, problem, augmented>>

StopMerging ==
  /\ pc = "merging" /\ method = "clique_graph"
  /\ Candidate # NoEdge => edges[Candidate] < 0
  /\ pc' = "merged"
  /\ UNCHANGED <<mask, ordering, method, tree, edges, adj, next, problem, augmented>>

\* post_process_merge, reorder_snode_consecutively, block dimensions.  With one
\* clique left the cone is not decomposed.
FinishPattern ==
  /\ pc = "merged"
  /\ \E hung \in {IF method = "clique_graph" THEN HangCliques(tree, edges) ELSE tree} :
     \E t \in {IF method = "clique_graph" THEN PostProcessGraph(hung)
               ELSE IF method = "parent_child" THEN PostProcessTree(tree) ELSE tree} :
     \E r \in {ReorderConsecutively(t, ordering)} :
         /\ tree' = BlockDimensions(r.tree)
         /\ ordering' = r.ordering
         /\ pc' = IF t.nCliques = 1 THEN "whole" ELSE "pattern"
  /\ UNCHANGED <<mask, method, edges, adj, next, problem, augmented>>

-----------------------------------------------------------------------------
(* Augmentation.  Cliques are placed in descending post order, the entries *)
(* of a clique by column and row of the original matrix.                   *)

Original(s) == Ascending({ordering[s[k]] : k \in DOMAIN s})

\* get_block_indices: entries within the separator overlap with the parent.
\* Mutant: entries between supernode and separator count as overlaps too.
OverlapsIfTouching(i, j, sep) == Has(sep, i) \/ Has(sep, j)
Overlaps(i, j, sep) == Has(sep, i) /\ Has(sep, j)
BlockIndices(snode, sep) ==
  LET vs == Ascending(Elems(snode) \cup Elems(sep))
      n == Len(vs)
      Entry(k) == LET c == IndexToCoord(k) IN
                  [i |-> vs[c[1] + 1], j |-> vs[c[2] + 1],
                   overlap |-> Overlaps(vs[c[1] + 1], vs[c[2] + 1], sep)]
  IN  [k \in 1..TriangularNumber(n) |-> Entry(k - 1)]

\* Row of the augmented problem at which the block of post position k starts.
BlockStart(k) ==
  RowsBefore + SumOver([i \in DOMAIN tree.nblk |-> TriangularNumber(tree.nblk[i])],
                       (k + 1)..tree.nCliques)
Blocks ==
  [k \in 1..tree.nCliques |->
     LET c == tree.snodePost[k] IN
     [first |-> BlockStart(k),
      entries |-> BlockIndices(Original(tree.snode[c]), Original(tree.separators[c]))]]

\* parent_block_indices: place of (i, j) in the block of the parent.
ParentRow(k, i, j) ==
  LET p == tree.parent[tree.snodePost[k]]
      clique == Original(CliqueOf(tree, p))
      pos == CHOOSE m \in DOMAIN tree.snodePost : tree.snodePost[m] = p
      Below(x) == Cardinality({v \in Elems(clique) : v < x})
  IN  BlockStart(pos) + CoordToIndex(Below(i), Below(j))

\* The rows of the augmented problem: an array that holds the original row of
\* an undecomposed cone and rowsOf[k] of the clique at post position k.
AfterCone == RowsBefore + TriangularNumber(Order)
OriginalRows == 0..(AfterCone + RowsAfter - 1)
Layout(rowsOf) ==
  LET Of(f) == ToArray([r \in 1..RowsBefore |-> r - 1]
                         \o Fold(LAMBDA rows, k : rows \o f[k], <<>>, Descending(1..tree.nCliques))
                         \o [r \in 1..RowsAfter |-> AfterCone + r - 1])
  IN  CHOOSE a \in {Of(f) : f \in {rowsOf}} : TRUE

\* build_b_row_map: original row of an augmented row, none for an overlap.
\* Mutant: overlaps are mapped like other entries.
Unmapped == -1
BRowMapOfAll(blocks) ==
  LET Rows(k) == [x \in DOMAIN blocks[k].entries |->
                    LET e == blocks[k].entries[x] IN RowsBefore + CoordToIndex(e.i, e.j)]
  IN  Layout([k \in DOMAIN blocks |-> Rows(k)])
BRowMap(blocks) ==
  LET Rows(k) == [x \in DOMAIN blocks[k].entries |->
                    LET e == blocks[k].entries[x] IN
                        IF e.overlap THEN Unmapped ELSE RowsBefore + CoordToIndex(e.i, e.j)]
  IN  Layout([k \in DOMAIN blocks |-> Rows(k)])

\* add_clique_entries: the pairs +1, -1 of the overlap columns, and the new row
\* of an original one.  The last clique that has the entry wins; a row that no
\* clique has keeps the initial usize::MAX.
OverlapColumns(blocks) ==
  LET OfBlock(k) ==
        {[plus |-> blocks[k].first + x - 1,
          minus |-> ParentRow(k, blocks[k].entries[x].i, blocks[k].entries[x].j)] :
           x \in {y \in DOMAIN blocks[k].entries : blocks[k].entries[y].overlap}}
  IN  UNION {OfBlock(k) : k \in 1..(tree.nCliques - 1)}
NewRow(r, blocks) ==
  IF r < RowsBefore THEN r
  ELSE IF r >= AfterCone THEN r - AfterCone + BlockStart(0)
  ELSE LET at == IndexToCoord(r - RowsBefore)
           In(k) == {x \in DOMAIN blocks[k].entries :
                       /\ ~blocks[k].entries[x].overlap
                       /\ <<blocks[k].entries[x].i, blocks[k].entries[x].j>> = at}
           ks == {k \in DOMAIN blocks : In(k) # {}}
       IN  IF ks = {} THEN Unmapped
           ELSE LET k == Least(ks) IN blocks[k].first + (CHOOSE x \in In(k) : TRUE) - 1

\* add_blocks_with_sparsity_pattern, add_blocks_with_cone: the original row to
\* which a row of the sorted clique at post position k, and any row, belongs.
Walk(k) ==
  LET vs == Ascending(Elems(Original(CliqueOf(tree, tree.snodePost[k]))))
  IN  [x \in 1..TriangularNumber(Len(vs)) |->
         LET c == IndexToCoord(x - 1) IN RowsBefore + CoordToIndex(vs[c[1] + 1], vs[c[2] + 1])]
ReverseMap == Layout([k \in 1..tree.nCliques |-> Walk(k)])

\* decomp_augment_compact of a problem with the nonzeros A and nonzero rows b;
\* maps of the rows for the batch path and for the reversal.
Augmentation(A, b, blocks) ==
  LET new == [r \in {e.row : e \in A} \cup b |-> NewRow(r, blocks)]
  IN  [A |-> {[row |-> new[e.row], of |-> e] : e \in A},
       b |-> [r \in {new[x] : x \in b} |-> CHOOSE x \in b : new[x] = r],
       overlaps |-> OverlapColumns(blocks), bRowMap |-> BRowMap(blocks), reverse |-> ReverseMap]

\* The nonzeros of the mask come from A, from b, or from both; those on the
\* diagonal may be in neither.
Sources == {[A |-> mask, b |-> {}], [A |-> mask \cap Diagonal, b |-> mask \ Diagonal],
            [A |-> mask \ Diagonal, b |-> mask]}
ProblemOf(src) ==
  [A |-> {[row |-> RowsBefore + k, col |-> c] : k \in src.A, c \in {0, 1}}
           \cup {[row |-> o, col |-> 0] : o \in {AfterCone} \cap OriginalRows},
   b |-> {RowsBefore + k : k \in src.b} \cup {o \in {0} : o < RowsBefore}]
Augment ==
  /\ pc = "pattern"
  /\ \E src \in Sources : problem' = ProblemOf(src)
  /\ \E blocks \in {Blocks} : augmented' = Augmentation(problem'.A, problem'.b, blocks)
  /\ pc' = "augmented"
  /\ UNCHANGED <<mask, ordering, method, tree, edges, adj, next>>

Finished == pc \in {"whole", "augmented"} /\ UNCHANGED vars

Next ==
  \/ BuildTree \/ MergeParentChild \/ MergeOnGraph \/ StopMerging \/ FinishPattern
  \/ Augment \/ Finished

Spec == Init /\ [][Next]_vars

-----------------------------------------------------------------------------
(* Reversal.  The clique at post position k of the augmented rows.         *)

Copies(o) == {r \in DOMAIN augmented.reverse : augmented.reverse[r] = o}

\* decomp_reverse_compact: s adds the copies up, z keeps the one written last.
ReversedS(s) == [o \in OriginalRows |->
                   SumOver(s, Copies(o))]
ReversedZ(z) == [o \in OriginalRows |->
                   IF Copies(o) = {} THEN 0 ELSE z[Greatest(Copies(o))]]

\* adjoint_decomp_reverse_compact.  Mutant: dz goes to every copy.
AdjointOfSum(dz) == [r \in DOMAIN augmented.reverse |-> dz[augmented.reverse[r]]]
AdjointS(ds) == [r \in DOMAIN augmented.reverse |-> ds[augmented.reverse[r]]]
AdjointZ(dz) ==
  [r \in DOMAIN augmented.reverse |->
     IF r = Greatest(Copies(augmented.reverse[r])) THEN dz[augmented.reverse[r]] ELSE 0]

\* The batch path: b_row_map scatters b, and its inverse locates the entries of
\* A in the augmentation made once from the pattern of A alone.
ScatteredB(b) == {[row |-> r, of |-> augmented.bRowMap[r]] :
                   r \in {x \in DOMAIN augmented.reverse : augmented.bRowMap[x] \in b}}
AugRowOf(o) ==
  LET rows == {r \in DOMAIN augmented.reverse : augmented.bRowMap[r] = o}
  IN  IF rows = {} THEN Unmapped ELSE Greatest(rows)

\* find_standard_H_and_cones: one column per entry of every clique, cliques in
\* ascending post order; number_of_overlaps_in_rows.
StandardColumns ==
  UNION {{[clique |-> k, place |-> x, row |-> Walk(k)[x]] : x \in DOMAIN Walk(k)} :
         k \in 1..tree.nCliques}
OverlapCount(o) == Cardinality({c \in StandardColumns : c.row = o})
\* get_decomposed_dim_and_overlaps.
DecomposedDimension == SumOver([k \in 1..tree.nCliques |-> TriangularNumber(tree.nblk[k])],
                               1..tree.nCliques)
DecomposedOverlaps ==
  SumOver([k \in 1..tree.nCliques |->
             TriangularNumber(Len(tree.separators[tree.snodePost[k]]))], 1..tree.nCliques)

\* psd_complete: which entries of W, in elimination order, are known.  Each
\* clique fills in its column from entries known before.
CliquePairs(k) == LET c == Elems(CliqueOf(tree, tree.snodePost[k])) IN c \X c
CompletionBlocks(k) ==
  LET c == tree.snodePost[k]
      nu == Elems(tree.snode[c])
      alpha == Elems(tree.separators[c])
      eta == (Least(nu) + 1)..(Order - 1) \ (alpha \cup nu)
  IN  [reads |-> (alpha \X alpha) \cup (alpha \X nu) \cup (eta \X alpha),
       writes |-> (eta \X nu) \cup (nu \X eta)]
\* Mutant: the cliques are visited from the leaves.
CompletionOrderUp == [i \in 1..(tree.nCliques - 1) |-> i]
CompletionOrder == [i \in 1..(tree.nCliques - 1) |-> tree.nCliques - i]
PsdComplete ==
  LET Step(st, k) == LET b == CompletionBlocks(k) IN
        [known |-> st.known \cup b.writes,
         sound |-> st.sound /\ b.reads \subseteq st.known /\ b.writes \cap st.known = {}]
  IN  Fold(Step, [known |-> UNION {CliquePairs(k) : k \in 1..tree.nCliques}, sound |-> TRUE],
           CompletionOrder)

-----------------------------------------------------------------------------
(* Properties.                                                             *)

\* Vertices of clique c, separators included, as the state stores them: the
\* clique graph strategy keeps whole cliques while it merges.
Active == {c \in DOMAIN tree.snode : tree.snode[c] # <<>>}
VerticesOf(c) == Elems(CliqueOf(tree, c))

\* No merge, renumbering or split loses an entry: from the first tree to the
\* last, every nonzero of the cone lies within one clique.  What lies in none
\* is dropped from the problem without a word.
Covered ==
  LET inv == InversePerm(ordering) IN
  \A k \in mask :
    \E c \in Active : {inv[IndexToCoord(k)[1]], inv[IndexToCoord(k)[2]]} \subseteq VerticesOf(c)

\* The cliques cover the pattern at all times, and what the strategies leave is
\* a clique tree again: the supernodes partition the vertices, a separator is
\* what the clique shares with its parent, the parent comes later in the post
\* order, and the cliques of a vertex hang together (one of them, its
\* supernode, is above all others).
TreeIsCliqueTree ==
  /\ pc \in {"merging", "merged", "pattern", "augmented"} => Covered
  /\ pc \in {"pattern", "augmented"} =>
       /\ Len(tree.snodePost) = tree.nCliques /\ Elems(tree.snodePost) = Active
       /\ \A v \in Vertices : Cardinality({c \in Active : Has(tree.snode[c], v)}) = 1
       /\ \A k \in 1..(tree.nCliques - 1) :
            LET c == tree.snodePost[k]  p == tree.parent[c] IN
            /\ p \in {tree.snodePost[m] : m \in (k + 1)..tree.nCliques}
            /\ Elems(tree.separators[c]) = VerticesOf(c) \cap VerticesOf(p)
            /\ Elems(tree.separators[c]) \cap Elems(tree.snode[c]) = {}
       /\ \A a, b \in Active : VerticesOf(a) \subseteq VerticesOf(b) => a = b

\* Which pairs the heaviest edge is looked for among.
SameVertices(e) ==
  \A n \in adj[e[1]] \cap adj[e[2]] :
    Elems(tree.snode[e[1]]) \cap Elems(tree.snode[n])
      = Elems(tree.snode[e[2]]) \cap Elems(tree.snode[n])

\* The reduced clique graph and its adjacency table are updated separately and
\* must stay one graph, which connects all cliques left: otherwise findmax and
\* the spanning tree have no edge to take.  The pair that is merged is the
\* heaviest permissible one, whatever the order in which equal weights and
\* equal vertex sets are stored.
CliqueGraphConsistent ==
  pc = "merging" /\ method = "clique_graph" =>
    /\ DOMAIN adj = Active /\ Cardinality(Active) = tree.nCliques
    /\ \A c, d \in Active : c > d => (d \in adj[c] <=> <<c, d>> \in DOMAIN edges)
    /\ \A c, d \in Active : d \in adj[c] <=> c \in adj[d]
    /\ \A c \in Active : tree.nCliques > 1 =>
         Reached(LAMBDA d : adj[d], {c}, Order) = Active
    /\ \A e \in DOMAIN edges :
         SameVertices(e) => Candidate # NoEdge /\ edges[Candidate] >= edges[e]

\* The augmented problem is the original one: every nonzero of A and b gets the
\* row of exactly one copy of its entry, and the overlap columns tie every
\* other copy, step by step through the parents, to that row.  The sizes counted
\* beforehand from separators and cliques are those of the entries and ties,
\* and the standard form averages z over exactly the copies.
Entry(o) == {r \in Copies(o) : \A c \in augmented.overlaps : c.plus # r}
CopiesAgree ==
  pc = "augmented" =>
    /\ \A e \in augmented.A : e.row # Unmapped /\ augmented.reverse[e.row] = e.of.row
                               /\ {e.row} = Entry(e.of.row)
    /\ \A r \in DOMAIN augmented.b : r # Unmapped /\ {r} = Entry(augmented.b[r])
    /\ \A c \in augmented.overlaps :
         augmented.reverse[c.plus] = augmented.reverse[c.minus] /\ c.minus < c.plus
    /\ \A o \in problem.b \cup {e.row : e \in problem.A} :
         \A r \in Copies(o) \ Entry(o) :
           Cardinality({c \in augmented.overlaps : c.plus = r}) = 1
    /\ DecomposedDimension = Cardinality(StandardColumns)
    /\ DecomposedOverlaps = Cardinality(augmented.overlaps)
    /\ \A k \in mask :
         OverlapCount(RowsBefore + k)
           = LET inv == InversePerm(ordering)  c == IndexToCoord(k) IN
             Cardinality({d \in Active : {inv[c[1]], inv[c[2]]} \subseteq VerticesOf(d)})

\* Filling values into the augmentation of the pattern gives the matrix and
\* the right-hand side that augmenting the whole problem gives.
BatchMatchesDirect ==
  pc = "augmented" =>
    /\ ScatteredB(problem.b) = {[row |-> r, of |-> augmented.b[r]] : r \in DOMAIN augmented.b}
    /\ \A e \in augmented.A : AugRowOf(e.of.row) = e.row

\* The adjoint used by the gradient is the transpose of the reversal: paired
\* with every unit vector, both give the same number.
Unit(i, D) == [r \in D |-> IF r = i THEN 1 ELSE 0]
AdjointIsTranspose ==
  pc = "augmented" =>
    LET rows == DOMAIN augmented.reverse
        orig == OriginalRows
    IN  \A o \in orig :
          LET ds == AdjointS(Unit(o, orig))  dz == AdjointZ(Unit(o, orig)) IN
          \A r \in rows : /\ ds[r] = (IF r \in Copies(o) THEN 1 ELSE 0)
                          /\ dz[r] = ReversedZ(Unit(r, rows))[o]

\* The completion of the dual reads only entries that are known, never writes
\* one that a clique fixes, and leaves none open.
CompletionReadsKnown ==
  pc \in {"pattern", "augmented"} =>
    PsdComplete.sound /\ PsdComplete.known = Vertices \X Vertices
=============================================================================

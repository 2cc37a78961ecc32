------------------------------ MODULE CliqueMerge ------------------------------
(***************************************************************************)
(* The merge strategies of solver/chordal/merge/, one operator per step of *)
(* the loop in MergeStrategy::merge_cliques.  The edges of the reduced     *)
(* clique graph are a function from <<row, col>>, row > col, to weights;   *)
(* its nonzeros are visited column by column, as in CSC storage.           *)
(***************************************************************************)
EXTENDS CliqueTree

CONSTANTS TFill, TSize   \* t_fill, t_size of the parent-child strategy

ASSUME ThresholdAssumption == TFill \in Nat /\ TSize \in Nat

-----------------------------------------------------------------------------
(* Parent-child strategy.                                                  *)

\* clique_dim and fill_in.
CliqueDim(t, c) == Len(t.snode[c]) + Len(t.separators[c])
FillIn(t, p, c) ==
  (CliqueDim(t, p) - Len(t.separators[c])) * (CliqueDim(t, c) - Len(t.separators[c]))

ParentChildWants(t, p, c) ==
  FillIn(t, p, c) <= TFill
    \/ (Len(t.snode[c]) <= TSize /\ Len(t.snode[p]) <= TSize)

\* merge_two_cliques.
MergeIntoParent(t, p, c) ==
  [t EXCEPT !.snode = [t.snode EXCEPT ![p] = OrderedUnion(@, t.snode[c]), ![c] = <<>>],
            !.separators[c] = <<>>,
            !.parent = [g \in DOMAIN t.parent |->
                          IF g = c THEN Inactive
                          ELSE IF Has(t.children[c], g) THEN p ELSE @[g]],
            !.children = [t.children EXCEPT ![p] = OrderedUnion(ShiftRemove(@, c), t.children[c]),
                                   ![c] = <<>>],
            !.nCliques = @ - 1]

\* The post order of the cliques that are left.  Mutant: it is not refreshed.
NoPostProcess(t) == t
PostProcessTree(t) == [t EXCEPT !.snodePost = PostOrder(t.parent, t.children)]

-----------------------------------------------------------------------------
(* Clique-graph strategy.                                                  *)

Cube(n) == n * n * n
\* edge_metric: what merging saves, by the cubes of the block sizes.
EdgeMetric(s, t) ==
  Cube(Len(s)) + Cube(Len(t)) - Cube(Len(OrderedUnion(s, t)))

RowCol(c, d) == IF c > d THEN <<c, d>> ELSE <<d, c>>

\* separator_graph and find_components: cliques whose intersection is more
\* than the separator are connected.
Component(sep, cliques, c, snode) ==
  LET Joined(d) == {e \in cliques : Elems(snode[d]) \cap Elems(snode[e]) # Elems(sep)}
  IN  Reached(Joined, {c}, Cardinality(cliques))

\* compute_reduced_clique_graph: the pairs each separator contributes.
SeparatorEdges(sep, snode) ==
  LET cliques == {c \in DOMAIN snode : Elems(sep) \subseteq Elems(snode[c])}
  IN  {e \in cliques \X cliques :
         e[1] > e[2] /\ e[1] \notin Component(sep, cliques, e[2], snode)}

\* initialise: supernodes become whole cliques; the tree is given up.  A pair
\* contributed by several equal separators is a repeated triplet, and repeated
\* triplets add up (CscMatrix::new_from_triplets).
GraphTree(t) ==
  [t EXCEPT !.snode = [c \in DOMAIN t.snode |-> CliqueOf(t, c)],
            !.parent = [c \in DOMAIN t.parent |-> Inactive],
            !.children = [c \in DOMAIN t.children |-> <<>>]]
GraphEdges(t) ==
  LET g == GraphTree(t)
      edgesOf == [c \in DOMAIN t.separators |-> SeparatorEdges(t.separators[c], g.snode)]
  IN  [e \in UNION {edgesOf[c] : c \in DOMAIN edgesOf} |->
         Cardinality({c \in DOMAIN edgesOf : e \in edgesOf[c]})
           * EdgeMetric(g.snode[e[1]], g.snode[e[2]])]
AdjacencyTable(edges, ids) ==
  [c \in ids |-> {d \in ids : RowCol(c, d) \in DOMAIN edges}]

\* Order of the nonzeros in CSC storage.
Before(e, f) == e[2] < f[2] \/ (e[2] = f[2] /\ e[1] < f[1])
FirstIn(S) == CHOOSE e \in S : \A f \in S \ {e} : Before(e, f)
LastIn(S) == CHOOSE e \in S : \A f \in S \ {e} : Before(f, e)
Heaviest(edges, S) == {e \in S : \A f \in S : edges[f] <= edges[e]}
\* findmax keeps the last of equal weights, sortperm_rev the first.
MaxElem(edges) == LastIn(Heaviest(edges, DOMAIN edges))
SortpermRev(edges) ==
  LET From[S \in SUBSET DOMAIN edges] ==
        IF S = {} THEN <<>>
        ELSE LET e == FirstIn(Heaviest(edges, S)) IN <<e>> \o From[S \ {e}]
  IN  From[DOMAIN edges]

\* ispermissible: for every common neighbour both cliques list the same
\* vertices of it, in the same order.
IsPermissible(e, adj, snode) ==
  \A n \in adj[e[1]] \cap adj[e[2]] :
    OrderedInter(snode[e[1]], snode[n]) = OrderedInter(snode[e[2]], snode[n])

NoEdge == <<-1, -1>>
\* traverse: the heaviest edge, otherwise the first permissible one of the
\* others in decreasing weight.
Traverse(edges, adj, snode) ==
  LET p == SortpermRev(edges)
      later == {k \in 2..Len(p) : IsPermissible(p[k], adj, snode)}
  IN  IF IsPermissible(MaxElem(edges), adj, snode) THEN MaxElem(edges)
      ELSE IF later # {} THEN p[Least(later)] ELSE NoEdge

MergeInGraph(t, e) ==
  [t EXCEPT !.snode = [t.snode EXCEPT ![e[1]] = OrderedUnion(@, t.snode[e[2]]), ![e[2]] = <<>>],
            !.nCliques = @ - 1]

\* update_strategy after clique e[2] went into e[1], snode as merged.  Mutant:
\* the neighbours of the removed clique are forgotten.
UpdateOwnNeighbors(edges, adj, snode, e) ==
  LET near == adj[e[1]] \ {e[2]}
  IN  [f \in {g \in DOMAIN edges : e[2] \notin {g[1], g[2]}} |->
         IF \E n \in near : f = RowCol(e[1], n)
         THEN EdgeMetric(snode[f[1]], snode[f[2]]) ELSE edges[f]]
UpdateEdges(edges, adj, snode, e) ==
  LET near == (adj[e[1]] \cup adj[e[2]]) \ {e[1], e[2]}
      redrawn == {RowCol(e[1], n) : n \in near}
  IN  [f \in {g \in DOMAIN edges : e[2] \notin {g[1], g[2]}} \cup redrawn |->
         IF f \in redrawn THEN EdgeMetric(snode[f[1]], snode[f[2]]) ELSE edges[f]]
UpdateAdjacency(adj, e) ==
  LET new == adj[e[2]] \ (adj[e[1]] \cup {e[1]})
  IN  [c \in DOMAIN adj \ {e[2]} |->
         (IF c = e[1] THEN adj[c] \cup new
          ELSE IF c \in new THEN adj[c] \cup {e[1]} ELSE adj[c]) \ {e[2]}]

-----------------------------------------------------------------------------
(* Disjoint sets, and the clique tree as a maximum spanning tree.          *)

\* DisjointSetUnion: root halves the path it walks.
NewSets(ids) == [parents |-> [c \in ids |-> c], ranks |-> [c \in ids |-> 0]]
RootOf(d, x) ==
  LET Up[st \in [parents : [DOMAIN d.parents -> DOMAIN d.parents], at : DOMAIN d.parents]] ==
        IF st.parents[st.at] = st.at THEN st
        ELSE LET halved == [st.parents EXCEPT ![st.at] = st.parents[st.parents[st.at]]]
             IN  Up[[parents |-> halved, at |-> halved[st.at]]]
  IN  Up[[parents |-> d.parents, at |-> x]]
\* in_same_set finds both roots, halving paths on the way.
FindBoth(d, x, y) ==
  LET fx == RootOf(d, x)
      fy == RootOf([d EXCEPT !.parents = fx.parents], y)
  IN  [sets |-> [d EXCEPT !.parents = fy.parents], r |-> fx.at, s |-> fy.at]
\* union by rank.
UnionSets(d, x, y) ==
  LET f == FindBoth(d, x, y) IN
  IF f.r = f.s THEN f.sets
  ELSE IF d.ranks[f.r] > d.ranks[f.s] THEN [f.sets EXCEPT !.parents[f.s] = f.r]
  ELSE [f.sets EXCEPT !.parents[f.r] = f.s,
                      !.ranks[f.s] = IF d.ranks[f.r] = d.ranks[f.s] THEN @ + 1 ELSE @]

\* clique_intersections.
IntersectionSizes(edges, snode) ==
  [e \in DOMAIN edges |-> Len(OrderedInter(snode[e[1]], snode[e[2]]))]

\* kruskal: tree edges get the weight -1.
Kruskal(edges, n, ids) ==
  LET Try(st, e) ==
        LET f == FindBoth(st.sets, e[1], e[2]) IN
        IF st.found >= n - 1 THEN st
        ELSE IF f.r = f.s THEN [st EXCEPT !.sets = f.sets]
        ELSE [sets |-> UnionSets(f.sets, e[1], e[2]),
              edges |-> [st.edges EXCEPT ![e] = -1], found |-> st.found + 1]
      start == [sets |-> NewSets(ids), edges |-> edges, found |-> 0]
  IN  Fold(Try, start, SortpermRev(edges)).edges

\* determine_parent_cliques and assign_children: the tree hangs from the first
\* clique with the last vertex of the elimination order.
AssignChildren(t, edges) ==
  LET root == Least({c \in DOMAIN t.snode : Has(t.snode[c], t.post[Len(t.post)])})
      Near(c) == LET N == {d \in DOMAIN t.snode : RowCol(c, d) \in DOMAIN edges
                                                  /\ edges[RowCol(c, d)] = -1}
                 IN Ascending(N)
      Hang(st, c, n) ==
        IF st.parent[c] = n THEN st
        ELSE [parent |-> [st.parent EXCEPT ![n] = c],
              children |-> [st.children EXCEPT ![c] = Insert(@, n)],
              stack |-> Append(st.stack, n)]
      Walk[st \in [parent : [DOMAIN t.snode -> Int],
                   children : [DOMAIN t.snode -> Seq(DOMAIN t.snode)],
                   stack : Seq(DOMAIN t.snode)]] ==
        IF st.stack = <<>> THEN st
        ELSE LET c == st.stack[Len(st.stack)]
                 popped == [st EXCEPT !.stack = SubSeq(@, 1, Len(@) - 1)]
             IN  Walk[Fold(LAMBDA s, n : Hang(s, c, n), popped, Near(c))]
      hung == Walk[[parent |-> [c \in DOMAIN t.snode |-> IF c = root THEN NoParent ELSE Inactive],
                    children |-> t.children, stack |-> <<root>>]]
  IN  [t EXCEPT !.parent = hung.parent, !.children = hung.children]

\* split_cliques: in post order, the vertices shared with the parent become the
\* separator.
SplitClique(t, c) ==
  LET sep == OrderedInter(t.snode[c], t.snode[t.parent[c]])
  IN  [t EXCEPT !.separators[c] = sep,
                !.snode[c] = Only(@, Elems(@) \ Elems(sep))]
SplitCliques(t) == Fold(SplitClique, t, SubSeq(t.snodePost, 1, t.nCliques - 1))

\* post_process_merge: with several cliques the tree is found first.
HangCliques(t, edges) ==
  LET numbered == [t EXCEPT !.snodePost = Ascending({c \in DOMAIN t.snode : t.snode[c] # <<>>}),
                            !.parent = [c \in DOMAIN t.parent |-> Inactive]]
  IN  IF t.nCliques = 1 THEN numbered
      ELSE AssignChildren(numbered,
             Kruskal(IntersectionSizes(edges, t.snode), t.nCliques, DOMAIN t.snode))
PostProcessGraph(t) ==
  LET ordered == [t EXCEPT !.snodePost = PostOrder(t.parent, t.children),
                           !.separators = [c \in DOMAIN t.separators |-> <<>>]]
      split == IF t.nCliques > 1 THEN SplitCliques(ordered) ELSE t
      Sorted(f) == [c \in DOMAIN f |-> Ascending(Elems(f[c]))]
  IN  [split EXCEPT !.snode = Sorted(@), !.separators = Sorted(@)]
=============================================================================

------------------------------ MODULE CliqueTree ------------------------------
(***************************************************************************)
(* The clique tree of a chordal sparsity pattern, as                       *)
(* solver/chordal/supernode_tree.rs builds it from the symbolic LDL factor *)
(* of a graph on the vertices 0..N-1, and what the decomposition later     *)
(* asks of it.  Vertex sets are index sets: their order of insertion is    *)
(* part of the state, since the code compares and stores it.               *)
(***************************************************************************)
EXTENDS Arrays

NoParent == -1   \* NO_PARENT
Inactive == -2   \* INACTIVE_NODE: merged into another clique

\* Higher neighbours of every vertex in the factor L of a graph with edges
\* <<i, j>>, i < j: eliminating v joins its higher neighbours, all of which
\* its parent, the lowest, inherits.
HigherNeighbors(edges, N) ==
  LET Eliminate(L, v) ==
        IF L[v] = {} THEN L ELSE [L EXCEPT ![Least(L[v])] = @ \cup (L[v] \ {Least(L[v])})]
  IN  Fold(Eliminate, [v \in 0..(N - 1) |-> {w \in (v + 1)..(N - 1) : <<v, w>> \in edges}],
           [i \in 1..N |-> i - 1])

\* connect_graph: the last vertex of each block gets an edge to the next.
ConnectGraph(adj, N) ==
  [v \in DOMAIN adj |-> IF adj[v] = {} /\ v # N - 1 THEN {v + 1} ELSE adj[v]]

ParentFromL(L, N) ==
  [v \in DOMAIN L |-> IF v = N - 1 THEN NoParent ELSE Least(L[v])]
HigherDegree(L, N) ==
  [v \in DOMAIN L |-> IF v = N - 1 THEN 0 ELSE Cardinality(L[v])]
ChildrenFromParent(parent) ==
  [p \in DOMAIN parent |-> Ascending({v \in DOMAIN parent : parent[v] = p})]

\* post_order: a depth-first walk from the root numbers nodes downwards, the
\* last of the sorted children first.  Nodes it does not reach are cut off; the
\* walk of a tree visits a node once and ends with an empty stack.
PostOrder(parent, children) ==
  LET root == Least({v \in DOMAIN parent : parent[v] = NoParent})
      Visit(st, i) ==
        IF st.stack = <<>> THEN st
        ELSE LET v == st.stack[Len(st.stack)]
             IN  [stack |-> SubSeq(st.stack, 1, Len(st.stack) - 1) \o Ascending(Elems(children[v])),
                  order |-> <<v>> \o st.order]
      start == [stack |-> <<root>>, order |-> <<>>]
  IN  Fold(Visit, start, [i \in 1..Cardinality(DOMAIN parent) |-> i]).order

\* pothen_sun: index[v] < 0 marks v as the representative of its supernode,
\* otherwise index[v] is the representative.
Representative(index, v) == IF index[v] < 0 THEN v ELSE index[v]

\* v's supernode can be extended by its parent.
Absorbs(st, parent, degree, v) ==
  degree[v] - 1 = degree[parent[v]] /\ st.index[parent[v]] = -1

PothenSunVertex(st, parent, degree, v) ==
  LET rep == Representative(st.index, v)
      st1 == IF parent[v] = NoParent THEN st
             ELSE IF Absorbs(st, parent, degree, v)
             THEN [st EXCEPT !.index = [st.index EXCEPT ![parent[v]] = rep, ![rep] = @ - 1]]
             ELSE [st EXCEPT !.par[rep] = rep]
      k == Representative(st1.index, v)
      below == {Representative(st1.index, w) : w \in {u \in DOMAIN parent : parent[u] = v}}
  IN  [st1 EXCEPT !.par = [l \in DOMAIN parent |->
                             IF l \in below \ {k} THEN k ELSE @[l]]]

PothenSun(parent, post, degree) ==
  Fold(LAMBDA st, v : PothenSunVertex(st, parent, degree, v),
       [index |-> [v \in DOMAIN parent |-> -1],
        par |-> [v \in DOMAIN parent |-> NoParent]],
       post)

\* SuperNodeTree::new, from the post order of the elimination tree and the
\* supernodes.  These are numbered by their representatives.
NewTree(L, post, ps) ==
  LET reps == Ascending({v \in DOMAIN L : ps.index[v] < 0})
      Number(v) == CHOOSE i \in 0..(Len(reps) - 1) : reps[i + 1] = v
      ids == 0..(Len(reps) - 1)
      snode == [c \in ids |->
                  Ascending({v \in DOMAIN L : Representative(ps.index, v) = reps[c + 1]})]
      snodeParent == [c \in ids |->
                        IF Has(reps, ps.par[reps[c + 1]])
                        THEN Number(ps.par[reps[c + 1]]) ELSE NoParent]
      children == ChildrenFromParent(snodeParent)
  IN  [snode |-> snode, parent |-> snodeParent, children |-> children,
       snodePost |-> PostOrder(snodeParent, children), post |-> post,
       separators |-> [c \in ids |->
          Ascending(L[Least(Elems(snode[c]))] \ Elems(snode[c]))],
       nCliques |-> Len(reps), nblk |-> <<>>]

CliqueOf(t, c) == OrderedUnion(t.snode[c], t.separators[c])

\* reorder_snode_consecutively: vertices are renumbered in the post order of
\* the supernodes; ordering maps the new numbers to the original vertices.
Renumbering(t) ==
  LET blocks == Fold(LAMBDA acc, c : acc \o Ascending(Elems(t.snode[c])), <<>>, t.snodePost)
  IN  InversePerm(ToArray(blocks))

Consecutive(first, n) == [i \in 1..n |-> first + i - 1]
ReorderConsecutively(t, ordering) ==
  LET new == Renumbering(t)
      At(k) == SumOver([i \in DOMAIN t.snodePost |-> Len(t.snode[t.snodePost[i]])], 1..(k - 1))
      active == Elems(t.snodePost)
      PostAt(c) == CHOOSE k \in DOMAIN t.snodePost : t.snodePost[k] = c
  IN  [tree |-> [t EXCEPT
          !.snode = [c \in DOMAIN t.snode |->
             IF c \in active
             THEN Consecutive(At(PostAt(c)), Len(t.snode[c])) ELSE t.snode[c]],
          !.separators = [c \in DOMAIN t.separators |->
             [i \in DOMAIN t.separators[c] |-> new[t.separators[c][i]]]]],
       ordering |-> IPermuteArray(ordering, new)]

\* calculate_block_dimensions: clique sizes, in post order.
BlockDimensions(t) ==
  [t EXCEPT !.nblk = [i \in 1..t.nCliques |->
     Len(t.separators[t.snodePost[i]]) + Len(t.snode[t.snodePost[i]])]]
=============================================================================

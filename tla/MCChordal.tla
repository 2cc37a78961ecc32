------------------------------- MODULE MCChordal -------------------------------
(***************************************************************************)
(* Instances of the chordal decomposition for TLC: sparse graphs, with     *)
(* many small cliques, dense ones, whose large cliques are worth merging,  *)
(* and graphs with a dense and a sparse part, in an elimination order that *)
(* is not that of the vertices.                                            *)
(***************************************************************************)
EXTENDS ChordalDecomposition

Cycle == {<<0, 1>>, <<1, 2>>, <<2, 3>>, <<3, 4>>, <<4, 5>>, <<5, 6>>, <<0, 6>>}
Missing == {<<0, 6>>, <<1, 6>>, <<0, 5>>, <<1, 5>>, <<2, 6>>, <<0, 4>>, <<3, 6>>}
Cluster == {e \in Pairs : e[2] <= 4} \ {<<0, 4>>}
Outside == {<<4, 5>>, <<5, 6>>, <<0, 5>>, <<0, 6>>, <<3, 5>>, <<2, 6>>}
ManyGraphs ==
  SUBSET Cycle \cup {Pairs \ e : e \in SUBSET Missing} \cup {Cluster \cup e : e \in SUBSET Outside}
Shuffled == {[v \in Vertices |-> (v + 5) % Order]}
=============================================================================

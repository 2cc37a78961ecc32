--------------------------------- MODULE MCKKT ---------------------------------
(***************************************************************************)
(* Instances of the KKT solver for TLC: patterns of P with and without     *)
(* their diagonal, slack cones with diagonal and dense blocks and both     *)
(* kinds of expansion, direct-x cones that overlap P and whose indices are *)
(* not in order.  Pardiso's lower triangle is built with indices in order  *)
(* only: with others the scaling is written to the wrong variables.        *)
(***************************************************************************)
EXTENDS KKTSolver

Cone(kind, size, dim1) == [kind |-> kind, size |-> size, dim1 |-> dim1]
XCone(kind, indices, dim1) == [kind |-> kind, indices |-> indices, dim1 |-> dim1]

Ps == <<{}, {<<0, 0>>, <<1, 1>>, <<2, 2>>, <<3, 3>>}, {<<0, 0>>, <<0, 2>>, <<1, 3>>, <<3, 3>>},
        {<<0, 1>>, <<1, 2>>, <<2, 2>>}>>
As == <<{<<0, 0>>, <<1, 1>>, <<2, 2>>, <<3, 3>>, <<4, 0>>},
        {<<0, 0>>, <<0, 2>>, <<1, 1>>, <<2, 0>>, <<2, 2>>, <<4, 2>>}>>
Cs == <<<<Cone("diag", 5, 0)>>, <<Cone("diag", 2, 0), Cone("soc", 3, 0)>>,
        <<Cone("dense", 2, 0), Cone("genpow", 3, 1)>>,
        <<Cone("genpow", 2, 1), Cone("soc", 3, 0)>>>>
Sorted == <<<<>>, <<XCone("diag", <<0, 2>>, 0)>>, <<XCone("soc", <<0, 1, 2>>, 0)>>,
            <<XCone("genpow", <<1, 2, 3>>, 1)>>>>
Unsorted == <<<<XCone("dense", <<2, 0>>, 0), XCone("diag", <<3, 1>>, 0)>>,
              <<XCone("soc", <<2, 0, 1>>, 0)>>,
              <<XCone("genpow", <<3, 0, 2>>, 1)>>>>
Problem(i, j, k, x, e) == [P |-> Ps[i], A |-> As[j], cones |-> Cs[k], xcones |-> x, engine |-> e]

PassProblems ==
  {Problem(i, 1 + ((i + k) % 2), k, Unsorted[1 + ((i + k) % 3)], "qdldl") : i \in 1..4, k \in 1..4}
  \cup {Problem(i, 1 + ((i + k) % 2), k, Unsorted[1 + ((i + 2 * k) % 3)], "faer") : i \in 1..4, k \in 2..4}
  \cup {Problem(i, 1 + ((i + k) % 2), k, Sorted[1 + ((i + k) % 4)], "pardiso") : i \in 1..4, k \in 1..4}

Reversed == [d \in 1..20 |-> [v \in 0..(d - 1) |-> d - 1 - v]]
Rotated == [d \in 1..20 |-> [v \in 0..(d - 1) |->
              IF v % 2 = 0 THEN v \div 2 ELSE (d + v) \div 2]]
BothOrders == {Reversed, Rotated}
Flips == {[k \in 1..PDAxes |-> 1], [k \in 1..PDAxes |-> -1]}
=============================================================================

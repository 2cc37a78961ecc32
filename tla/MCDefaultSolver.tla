---------------------------- MODULE MCDefaultSolver ----------------------------
(***************************************************************************)
(* Small problems for DefaultSolver.  q and b are computed so that a point *)
(* with the given complementarity is the solution.                         *)
(***************************************************************************)
EXTENDS NewtonSystem

Triu(rows) == ToTriu(FromRows(Len(rows), Len(rows), rows))
Full(rows) == FromRows(Len(rows), Len(rows), rows)
Con(rows) == FromRows(Len(rows), Len(rows[1]), rows)

\* sides and rays: one entry for each row, and for each direct-x index.
Problem(name, P, A, cones, xcones, x, z, s, zx, side, ray, xside, xray) ==
  LET dense == IF IsTriu(P) THEN SymRowsOf(P) ELSE RowsOf(P)
      idx == FlatIndex(xcones)
      Az == MatVec(TransposeRows(RowsOf(A), P.n), z)
  IN  [name |-> name, P |-> P, A |-> A, cones |-> cones, xcones |-> xcones,
       q |-> [j \in 1..P.n |-> Mod(-FDot(dense[j], x) - Az[j]
                                   + FSum([k \in DOMAIN idx |-> IF idx[k] = j THEN zx[k] ELSE 0]))],
       b |-> [i \in 1..A.m |-> IF s[i] = INF THEN INF ELSE Mod(FDot(RowsOf(A)[i], x) + s[i])],
       side |-> side, ray |-> ray, xside |-> xside, xray |-> xray]
Slack(name, P, A, cones, x, z, s, side, ray) == Problem(name, P, A, cones, <<>>, x, z, s, <<>>, side, ray, <<>>, <<>>)
Flat(n) == ConstantSeq(0, n)

P2 == <<<<2, 1>>, <<1, 3>>>>
Qp(name, P, a, x, z, s) ==
  Slack(name, P, Con(a), <<Cone("nonneg", 1), Cone("zero", 1), Cone("nonneg", 1)>>, x, z, s, <<"v", "u", "v">>, Flat(3))
\* Two with one pattern, one of them with a second right-hand side, and one
\* that gives all of P.
QpA == Qp("qp", Triu(P2), <<<<1, 0>>, <<3, 1>>, <<0, 2>>>>, <<4, 7>>, <<0, 3, 0>>, <<5, 0, 9>>)
QpB == Qp("qp values", Triu(<<<<5, 2>>, <<2, 4>>>>), <<<<3, 0>>, <<1, 6>>, <<0, 5>>>>, <<2, 3>>, <<0, 8, 0>>, <<1, 0, 4>>)
QpC == [QpA EXCEPT !.name = "qp b", !.b = <<17, 42, 21>>]
QpFull == [QpA EXCEPT !.name = "qp full", !.P = Full(P2)]
\* An equality-constrained problem, with a zero that is stored.
Zeros2 == Slack("zeros", [m |-> 2, n |-> 2, col |-> <<<<<<1, 2>>>>, <<<<1, 0>>, <<2, 3>>>>>>], Con(<<<<1, 2>>>>),
                <<Cone("zero", 1)>>, <<3, 5>>, <<6>>, <<0>>, <<"u">>, Flat(1))
\* An active nonnegative row, and a second-order cone with both s and z on
\* the boundary.
P3 == <<<<4, 1, 0>>, <<1, 5, 2>>, <<0, 2, 6>>>>
Soc == Slack("soc", Triu(P3), Con(<<<<1, 0, 2>>, <<3, 1, 0>>, <<0, 1, 1>>, <<1, 0, 2>>>>),
             <<Cone("nonneg", 1), Cone("soc", 3)>>, <<1, 2, 3>>, <<7, 10, -6, -8>>, <<0, 15, 9, 12>>,
             <<"u", "b", "b", "b">>, <<0, 5, 3, 4>>)
\* Cones directly on entries of x, not in order: one on the boundary of a
\* second-order cone, one active and one inactive bound.
P4 == <<<<4, 1, 0, 0>>, <<1, 5, 2, 0>>, <<0, 2, 6, 1>>, <<0, 0, 1, 3>>>>
XSoc == Problem("direct soc", Triu(P4), Con(<<<<1, 2, 0, 3>>>>), <<Cone("zero", 1)>>,
                <<[kind |-> "soc", idx |-> <<3, 1, 4>>]>>, <<9, 4, 15, 12>>, <<7>>, <<0>>, <<10, -6, -8>>,
                <<"u">>, Flat(1), <<"b", "b", "b">>, <<5, 3, 4>>)
XBounds == Problem("direct bounds", Triu(P3), Con(<<<<1, 2, 0>>, <<0, 0, 1>>>>), <<Cone("nonneg", 2)>>,
                   <<[kind |-> "nonneg", idx |-> <<3, 1>>]>>, <<6, 2, 0>>, <<4, 0>>, <<0, 8>>, <<11, 0>>,
                   <<"u", "v">>, Flat(2), <<"u", "v">>, Flat(2))
\* An infinite row before another cone.
Infinite == Slack("infinite", Triu(P3), Con(<<<<1, 0, 1>>, <<2, 1, 0>>, <<1, 1, 0>>, <<0, 3, 1>>>>),
                  <<Cone("nonneg", 2), Cone("soc", 2)>>, <<2, 5, 1>>, <<0, 6, 0, 0>>, <<INF, 0, 9, 4>>,
                  <<"v", "u", "v", "v">>, Flat(4))
\* Nonsymmetric cones, small and large, on rows and on entries of x.
GenPow == Slack("genpow", Triu(P2), Con(<<<<1, 2>>, <<0, 1>>, <<3, 0>>, <<1, 1>>, <<2, 5>>, <<4, 0>>, <<0, 3>>>>),
                <<Cone("genpow", 4), Cone("genpow", 3)>>, <<3, 1>>, Flat(7), <<8, 2, 5, 7, 1, 6, 4>>,
                ConstantSeq("v", 7), Flat(7))
P7 == [i \in 1..7 |-> [j \in 1..7 |-> IF i = j THEN 2 + i ELSE IF i + j = 8 THEN 1 ELSE IF i + j = 5 THEN 2 ELSE 0]]
XPow == Problem("direct genpow", Triu(P7), Con(<<<<1, 0, 2, 0, 3, 1, 0>>>>), <<Cone("nonneg", 1)>>,
                <<[kind |-> "genpow", idx |-> <<6, 2, 7, 1>>], [kind |-> "genpow", idx |-> <<5, 3, 4>>]>>,
                <<3, 1, 4, 1, 5, 9, 2>>, <<5>>, <<0>>, Flat(7),
                <<"u">>, Flat(1), ConstantSeq("v", 7), Flat(7))
\* For the iterations alone: every symmetric cone, small and large, on rows
\* and on entries of x; and a linear program.
P6 == [i \in 1..6 |-> [j \in 1..6 |-> IF i = j THEN 3 + i ELSE IF i + j = 7 THEN 1 ELSE IF i + j = 5 THEN 2 ELSE 0]]
A10 == [i \in 1..10 |-> [j \in 1..6 |-> IF (i + j) % 3 = 0 THEN i + 2 * j ELSE IF (2 * i + j) % 7 = 1 THEN 4 ELSE 0]]
Iterated == [Problem("iterated", Triu(P6), Con(A10),
                     <<Cone("zero", 1), Cone("nonneg", 2), Cone("soc", 3), Cone("soc", 4)>>,
                     <<[kind |-> "nonneg", idx |-> <<5>>], [kind |-> "soc", idx |-> <<6, 2, 4, 1>>]>>,
                     <<3, 1, 4, 1, 5, 9>>, <<2, 6, 5, 3, 5, 8, 9, 7, 9, 3>>, <<0, 2, 3, 8, 4, 6, 2, 6, 4, 3>>, <<3, 8, 3, 2, 7>>,
                     <<>>, <<>>, <<>>, <<>>) EXCEPT !.side = NULL]
Linear == [Problem("linear", Triu(<<<<0, 0, 0>>, <<0, 0, 0>>, <<0, 0, 0>>>>),
                   Con(<<<<1, 2, 0>>, <<3, 0, 1>>, <<0, 1, 1>>, <<2, 0, 5>>, <<0, 4, 0>>>>),
                   <<Cone("zero", 1), Cone("nonneg", 2), Cone("soc", 2)>>, <<>>,
                   <<3, 1, 4>>, <<2, 6, 5, 3, 5>>, <<0, 2, 3, 8, 4>>, <<>>, <<>>, <<>>, <<>>, <<>>) EXCEPT !.side = NULL]

MCProblems ==
  {QpA, QpB, QpC, QpFull, Zeros2, Soc, XSoc, XBounds, Infinite, GenPow, XPow, Iterated, Linear,
   [QpA EXCEPT !.name = "lopsided", !.P = Full(<<<<2, 1>>, <<3, 3>>>>)],
   [QpA EXCEPT !.name = "thin cone", !.cones = <<Cone("soc", 1), Cone("zero", 2)>>],
   [QpA EXCEPT !.name = "no rows", !.b = <<1, 2>>]}

\* Ruiz factors, different on every row and column; lists are long enough
\* for every problem.
MCScalings == {[d |-> <<2, 3, 5, 7, 3, 2, 8>>, e |-> <<11, 13, 17, 19, 23, 5, 7, 6, 4, 8>>, c |-> 6, g |-> 10]}
MCTaus == {1, 4}
MCBars == {<<3, 8, 1, 7, 2, 12, 5, 9, 4, 11, 6>>, <<0, 5, 0, 1, 0, 0, 6, 0, 2, 0, 3>>}
\* A combined step without and with a second-order correction, and a step of
\* the centring that ends a solve in smoothed mode, where m is 0.
Choice(sigma, m, alpha, target, strategy, heavy, cap) ==
  [sigma |-> sigma, m |-> m, alpha |-> alpha, target |-> target, strategy |-> strategy, heavy |-> heavy, cap |-> cap]
MCSteps == {Choice(3, 1, 5, 0, "primal dual", FALSE, 1), Choice(7, 4, 2, 0, "dual", TRUE, 5),
            Choice(4, 2, 3, 0, "primal dual", TRUE, 1), Choice(1, 0, 1, 6, "dual", FALSE, 1)}
\* Numbers with square roots, and points whose residuals have them too.
MCRayPoints == <<<<1, 4>>, <<9, 2>>, <<11, 3>>, <<8, 13>>>>
MCSocPoints == [dim \in 2..5 |->
  CASE dim = 2 -> <<<<3, 23>>, <<9, 3>>>>
    [] dim = 3 -> <<<<25, 30, 35>>, <<25, 27, 16>>>>
    [] dim = 4 -> <<<<35, 12, 20, 13>>, <<6, 10, 37, 8>>>>
    [] dim = 5 -> <<<<34, 4, 21, 21, 37>>, <<13, 14, 28, 4, 32>>>>]
\* Two generalized power cones, the larger beyond NDenseGenPow, with points
\* whose sizes have square roots and the products of powers at these points.
MCGenPowers == [dim \in 3..4 |-> IF dim = 3 THEN <<5, 259>> ELSE <<7, 257>>]
MCPowPoints == [dim \in 3..4 |-> IF dim = 3 THEN <<<<20, 2, 19>>, <<17, 1, 2>>>> ELSE <<<<17, 29, 35, 24>>, <<36, 39, 14, 4>>>>]
MCPowerProduct ==
  LET entries == {<<<<5, 259>>, <<56, 197>>, 13>>,
                  <<<<5, 259>>, <<83, 192>>, 228>>,
                  <<<<5, 259>>, <<17, 1>>, 92>>,
                  <<<<5, 259>>, <<4, 131>>, 243>>,
                  <<<<7, 257>>, <<193, 125>>, 56>>,
                  <<<<7, 257>>, <<171, 192>>, 65>>,
                  <<<<7, 257>>, <<36, 39>>, 183>>,
                  <<<<7, 257>>, <<40, 39>>, 11>>}
  IN  [k \in {<<e[1], e[2]>> : e \in entries} |-> (CHOOSE e \in entries : <<e[1], e[2]>> = k)[3]]
MCMethods == {"exact", "smoothed", "auto"}
=============================================================================

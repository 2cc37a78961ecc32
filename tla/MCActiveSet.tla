------------------------------ MODULE MCActiveSet ------------------------------
(***************************************************************************)
(* Quadratic programs for TLC.  Rows and matrices are chosen so that every *)
(* root the solver takes is a fraction.                                    *)
(***************************************************************************)
EXTENDS ActiveSetSolver

Q(v) == [k \in DOMAIN v |-> Int2Q(v[k])]
QRows(rows) == [i \in DOMAIN rows |-> Q(rows[i])]
Full(k) == (1..k) \X (1..k)
Triangle(k) == {e \in Full(k) : e[1] <= e[2]}
Data(q, b) == [q |-> Q(q), b |-> Q(b)]
Mats(H, A) == [H |-> QRows(H), A |-> QRows(A)]

Tiny == Frac(1, 1000)
Quarter == Frac(1, 4)
Usual == [primal_tol |-> Tiny, dual_tol |-> Tiny, zero_tol |-> Tiny, sing_tol |-> Tiny,
          pivot_tol |-> Quarter, refactor_tol |-> Zero, progress_tol |-> Zero, cycle_tol |-> 1,
          eps_prox |-> Quarter, fval_bound |-> Infinity, iter_limit |-> 30, time_limit |-> FALSE,
          diff_mu |-> NONE]

Loss(k, l, i, j) == [x |-> Basis(k, i), z |-> Basis(l, j), s |-> Basis(l, l)]

\* Two variables: a box cut by two slanted rows; H is the identity, or full.
\* The second data are infeasible in the first matrices.
Plane ==
  [n |-> 2, nz |-> 0, m |-> 4, stored |-> Full(2), settings |-> Usual,
   mats |-> {Mats(<<<<1, 0>>, <<0, 1>>>>, <<<<3, 4>>, <<4, -3>>, <<-1, 0>>, <<0, -2>>>>),
             Mats(<<<<4, 2>>, <<2, 2>>>>, <<<<2, 1>>, <<0, -1>>, <<6, 7>>, <<-6, 1>>>>)},
   data |-> {Data(<<-2, -1>>, <<1, 1, 1, 2>>), Data(<<3, -2>>, <<-2, 1, 0, 1>>)},
   starts |-> {{1, 2}, {3, 4}, {2, 3, 4}},
   scalings |-> {NONE}, losses |-> {Loss(2, 4, 1, 1), Loss(2, 4, 2, 3)}]
\* Three variables, an equality, and rows close to each other.
Space ==
  [n |-> 3, nz |-> 1, m |-> 4, stored |-> Triangle(3), settings |-> Usual,
   mats |-> {Mats(<<<<1, 0, 0>>, <<0, 1, 0>>, <<0, 0, 1>>>>,
                  <<<<1, 2, 2>>, <<2, 1, 2>>, <<2, 2, 1>>, <<1, 0, 0>>>>)},
   data |-> {Data(<<-3, -2, 1>>, <<1, 0, -1, -2>>), Data(<<1, -3, -2>>, <<0, 2, -1, 1>>)},
   starts |-> {{2, 4}, {3, 4}},
   scalings |-> {NONE}, losses |-> {Loss(3, 4, 1, 2)}]
With(f, s) == [f EXCEPT !.settings = s]
\* A block cut by a slanted plane that is in the way until the last step.
Block ==
  [Space EXCEPT !.nz = 0, !.stored = Full(3),
     !.mats = {Mats(<<<<1, 0, 0>>, <<0, 1, 0>>, <<0, 0, 1>>>>,
                    <<<<1, 2, 2>>, <<1, 0, 0>>, <<0, 1, 0>>, <<0, 0, 1>>>>)},
     !.data = {Data(<<-50, -50, -50>>, <<200, 36, 38, 38>>), Data(<<-50, -50, -50>>, <<200, 36, 90, 38>>)},
     !.starts = {{1, 2}}]
\* A polygon whose corner is far from the side that is violated most.
Polygon ==
  [Plane EXCEPT !.m = 6,
     !.mats = {Mats(<<<<1, 0>>, <<0, 1>>>>, <<<<3, 4>>, <<4, 3>>, <<5, 12>>, <<12, 5>>, <<1, 0>>, <<-3, 4>>>>)},
     !.data = {Data(<<-20, -30>>, <<60, 60, 130, 100, 4, 30>>), Data(<<-40, 20>>, <<30, 28, 100, 60, 3, -20>>)},
     !.starts = {{1, 3}, {4, 6}}, !.losses = {Loss(2, 6, 1, 1)}]
\* What setup_ldp refuses or repairs: H singular or not convex, rows of zeros,
\* an equality too many.
Odd ==
  [n |-> 2, nz |-> 2, m |-> 4, stored |-> Triangle(2), settings |-> Usual,
   mats |-> {Mats(<<<<1, 0>>, <<0, 0>>>>, <<<<1, 0>>, <<0, 0>>, <<0, -1>>, <<0, 1>>>>),
             Mats(<<<<1, 0>>, <<0, -1>>>>, <<<<1, 0>>, <<0, 1>>, <<3, 4>>, <<0, 1>>>>),
             Mats(<<<<1, 0>>, <<0, 1>>>>, <<<<1, 0>>, <<2, 0>>, <<3, 4>>, <<0, 1>>>>)},
   data |-> {Data(<<1, 1>>, <<1, 2, 0, 3>>), Data(<<1, 1>>, <<1, 0, 1, 2>>)},
   starts |-> {{3}},
   scalings |-> {NONE}, losses |-> {Loss(2, 4, 1, 1)}]
Scaled ==
  [Plane EXCEPT !.nz = 1, !.mats = {Mats(<<<<1, 0>>, <<0, 0>>>>, <<<<3, 0>>, <<0, -3>>, <<-1, 0>>, <<0, 1>>>>)},
                !.starts = {},
                !.scalings = {NONE, [d |-> <<Frac(1, 2), Int2Q(3)>>, e |-> Q(<<2, 1, 1, 3>>), c |-> Frac(1, 9)]}]
\* Small enough for the numbers of a smoothed gradient.
Corner ==
  [n |-> 2, nz |-> 1, m |-> 3, stored |-> Full(2), settings |-> [Usual EXCEPT !.diff_mu = One],
   mats |-> {Mats(<<<<1, 1>>, <<1, 2>>>>, <<<<1, 1>>, <<0, -1>>, <<0, 1>>>>)},
   data |-> {Data(<<-1, -2>>, <<1, 0, 2>>), Data(<<2, 0>>, <<-1, 1, 1>>), Data(<<0, 0>>, <<2, 1, -2>>)},
   starts |-> {{2}, {3}, {2, 3}},
   scalings |-> {NONE}, losses |-> {Loss(2, 3, 1, 1), Loss(2, 3, 2, 2), Loss(2, 3, 1, 3)}]
Impatient == {[Usual EXCEPT !.iter_limit = 3], [Usual EXCEPT !.time_limit = TRUE],
              [Usual EXCEPT !.fval_bound = Quarter]}
Repairing == [Usual EXCEPT !.refactor_tol = Quarter]
Cycling == [Usual EXCEPT !.progress_tol = Infinity, !.cycle_tol = 0]

AllFamilies ==
  {Plane, Space, Odd, Scaled, Corner, With(Space, Repairing), With(Space, Cycling), With(Block, Cycling), Block, Polygon}
    \cup {With(Space, s) : s \in Impatient}
=============================================================================

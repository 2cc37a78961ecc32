------------------------------ MODULE BarrierJets ------------------------------
(***************************************************************************)
(* Derivatives by definition: the barrier functions of nonsymmetric cones, *)
(* evaluated at x + e1 u + e2 v + e3 w with infinitesimals e whose squares *)
(* are 0.  A jet gives the coefficient of each product of them: that of    *)
(* e1 e2 e3 in a function is its third derivative along u, v and w.        *)
(***************************************************************************)
EXTENDS GenPowerCone, FiniteSetsExt

Orders == SUBSET {1, 2, 3}
JetSum(f, g) == [S \in Orders |-> Mod(f[S] + g[S])]
JetBy(c, f) == [S \in Orders |-> Mod(c * f[S])]
JetProduct(f, g) == [S \in Orders |-> Mod(MapThenSumSet(LAMBDA T : f[T] * g[S \ T], SUBSET S))]
\* The entry k at x + e1 D[1] + e2 D[2] + e3 D[3].
Variable(x, D, k) ==
  [S \in Orders |-> IF S = {} THEN Mod(x[k]) ELSE IF Cardinality(S) = 1 THEN Mod(D[CHOOSE j \in S : TRUE][k]) ELSE 0]
\* The logarithm of a function; its value, no number of the field, is left out.
JetLog(f) ==
  LET h == [S \in Orders |-> IF S = {} THEN 0 ELSE Div(f[S], f[{}])]
      h2 == Value(JetProduct(h, h))
  IN  [S \in Orders |-> Mod(h[S] - Half * h2[S] + Recip(3) * JetProduct(h, h2)[S])]
\* A function from its value and its logarithm.
JetExp(value, l) ==
  LET h == [l EXCEPT ![{}] = 0]
      h2 == Value(JetProduct(h, h))
  IN  [S \in Orders |-> Mod(value * Mod((IF S = {} THEN 1 ELSE 0) + h[S] + Half * h2[S] + Recip(6) * JetProduct(h, h2)[S]))]
JetFold(js) == Fold(JetSum, [S \in Orders |-> 0], js)

\* barrier_primal and barrier_dual of a generalized power cone, with the
\* value phi of the product of powers.
PowBarrier(al, phi, x, D) ==
  CHOOSE f \in
    {JetBy(-1, JetSum(JetLog(psi), JetFold([i \in DOMAIN al |-> JetBy(1 - al[i], JetLog(Variable(x, D, i)))])))
     : psi \in {JetSum(power, JetFold([i \in DOMAIN x |->
                          IF i \in DOMAIN al THEN [S \in Orders |-> 0]
                          ELSE JetBy(-1, JetProduct(Variable(x, D, i), Variable(x, D, i)))]))
                : power \in {JetExp(phi, JetFold([i \in DOMAIN al |-> JetBy(2 * al[i], JetLog(Variable(x, D, i)))]))}}} : f = f

\* Gradient, Hessian, and the third derivative along two directions.
Still(x) == ConstantSeq(0, Len(x))
Gradient(al, phi, x) == [i \in DOMAIN x |-> PowBarrier(al, phi, x, <<Unit(Len(x), i), Still(x), Still(x)>>)[{1}]]
Hessian(al, phi, x) ==
  [i \in DOMAIN x |-> [j \in DOMAIN x |-> PowBarrier(al, phi, x, <<Unit(Len(x), i), Unit(Len(x), j), Still(x)>>)[{1, 2}]]]
Third(al, phi, x, u, v) ==
  [i \in DOMAIN x |-> PowBarrier(al, phi, x, <<u, v, Unit(Len(x), i)>>)[{1, 2, 3}]]
=============================================================================

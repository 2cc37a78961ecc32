------------------------------ MODULE ConeScaling ------------------------------
(***************************************************************************)
(* core/cones, the cones of an interior-point step: the scaling of         *)
(* Nesterov and Todd of a symmetric cone at a point (s, z), what is        *)
(* computed with it, and the operations all cones share.                   *)
(*                                                                         *)
(* A symmetric scaling is [kind, w, lambda, eta, sparse]: the scaling      *)
(* point, the common image of s and z, the factor of a second-order cone,  *)
(* and the rank-two form of its square that large cones take, or NULL.     *)
(***************************************************************************)
EXTENDS GenPowerCone

CONSTANT SocNoExpansion   \* SOC_NO_EXPANSION_MAX_SIZE

\* All but the first entry, and the reflection of a second-order cone.
Tail0(v) == [v EXCEPT ![1] = 0]
Reflected(v) == [k \in DOMAIN v |-> IF k = 1 THEN v[1] ELSE Mod(-v[k])]
\* scaled_unit_shift adds multiples of it.
UnitOf(kind, dim) == IF kind = "soc" THEN Unit(dim, 1) ELSE ConstantSeq(1, dim)

----------------------------------------------------------------------------
(* Scalings *)

Scaling(kind, w, lambda, eta, sparse) ==
  [kind |-> kind, w |-> w, lambda |-> lambda, eta |-> eta, sparse |-> sparse]
NonnegScaling(s, z) ==
  Scaling("nonneg", [k \in DOMAIN s |-> Root(Div(s[k], z[k]))], [k \in DOMAIN s |-> Root(s[k] * z[k])], 1, NULL)

\* W'W is eta^2 times diag(d, 1, ..., 1) + u u' - v v'; wsq is w'w.
SparseForm(w, wsq) ==
  CHOOSE f \in {[d |-> d, u |-> [k \in DOMAIN w |-> IF k = 1 THEN u0 ELSE Mod(Div(2 * w[1], u0) * w[k])],
                 v |-> By(Root(Div(2 * (2 + Recip(wsq)), 2 * wsq - Recip(wsq))), Tail0(w))]
                : d \in {Mod(Half * Recip(wsq))}, u0 \in {Root(wsq - Half * Recip(wsq))}} : f = f
SocWith(w, lambda, eta) ==
  Scaling("soc", w, lambda, eta, IF Len(w) > SocNoExpansion THEN SparseForm(w, FDot(w, w)) ELSE NULL)
\* update_scaling of a second-order cone: ss and zs are the square roots of
\* the residuals of s and z, ws that of the sum of the normalized points.
SocLambda(s, z, ss, zs, gamma) ==
  LET s0 == Div(s[1], ss)
      z0 == Div(z[1], zs)
      of(k) == IF k = 1 THEN gamma
               ELSE Div(Div(gamma + z0, ss) * s[k] + Div(gamma + s0, zs) * z[k], s0 + z0 + 2 * gamma)
  IN  [k \in DOMAIN s |-> Mod(of(k) * Root(ss * zs))]
Normalized(raw, ws) ==
  LET w == By(Recip(ws), raw) IN [w EXCEPT ![1] = Root(1 + FDot(Tail0(w), Tail0(w)))]
SocScaling(s, z) ==
  CHOOSE sc \in {SocWith(Normalized(of.raw, of.ws), SocLambda(s, z, of.ss, of.zs, Mod(Half * of.ws)), Root(Div(of.ss, of.zs)))
                 : of \in {[ss |-> sum.ss, zs |-> sum.zs, raw |-> sum.raw, ws |-> Root(SocZeta(sum.raw))]
                           : sum \in {[ss |-> ss, zs |-> zs, raw |-> Plus(By(Recip(ss), s), By(Recip(zs), Reflected(z)))]
                                      : ss \in {Root(SocZeta(s))}, zs \in {Root(SocZeta(z))}}}} : sc = sc

\* set_identity_scaling
IdentityScaling(kind, dim) ==
  CASE kind = "soc" ->
         Scaling("soc", Unit(dim, 1), ConstantSeq(0, dim), 1,
                 IF dim > SocNoExpansion
                 THEN [d |-> Half, u |-> By(Root(Half), Unit(dim, 1)), v |-> ConstantSeq(0, dim)] ELSE NULL)
    [] OTHER -> Scaling(kind, ConstantSeq(1, dim), ConstantSeq(0, dim), 1, NULL)
\* update_scaling, and direct_x_update_scaling with s the dual and z the part
\* of x; t has the choices of a nonsymmetric cone.
ScalingAt(kind, s, z, mu, direct, t) ==
  CASE kind = "zero" -> IdentityScaling("zero", Len(s))
    [] kind = "nonneg" -> NonnegScaling(s, z)
    [] kind = "soc" -> SocScaling(s, z)
    [] kind = "genpow" /\ ~direct -> SlackPowScaling(s, z, mu, t)
    [] kind = "genpow" /\ direct -> DirectPowScaling(z, s, mu, t)

----------------------------------------------------------------------------
(* The square of the scaling in the matrix *)

\* get_Hs: the block of a cone, without the expansion.
SocBlock(w) ==
  [i \in DOMAIN w |-> [j \in DOMAIN w |->
     IF i = 1 /\ j = 1 THEN Mod(2 * w[1] * w[1] - 1) ELSE Mod(2 * w[i] * w[j] + (IF i = j THEN 1 ELSE 0))]]
DiagonalRows(d) == [i \in DOMAIN d |-> [j \in DOMAIN d |-> IF i = j THEN d[i] ELSE 0]]
HsBlock(sc) ==
  CASE sc.kind = "zero" -> DiagonalRows(ConstantSeq(0, Len(sc.w)))
    [] sc.kind = "nonneg" -> DiagonalRows(Times(sc.w, sc.w))
    [] sc.kind = "genpow" -> PowHsBlock(sc)
    [] sc.kind = "soc" /\ sc.sparse # NULL ->
         DiagonalRows([k \in DOMAIN sc.w |-> Mod(sc.eta * sc.eta * (IF k = 1 THEN sc.sparse.d ELSE 1))])
    [] sc.kind = "soc" /\ sc.sparse = NULL -> LET H == SocBlock(sc.w) IN [i \in DOMAIN H |-> By(sc.eta * sc.eta, H[i])]
\* csc_update_sparsecone, and the columns of a direct-x cone, for which sign
\* is 1: columns v and u with their diagonal entries.
Columns(sc, sign) ==
  IF sc.kind = "genpow" THEN PowColumns(sc, sign)
  ELSE IF sc.sparse = NULL THEN <<>>
  ELSE LET eta2 == Mod(sign * sc.eta * sc.eta)
       IN  <<[vec |-> By(eta2, sc.sparse.v), diag |-> eta2], [vec |-> By(eta2, sc.sparse.u), diag |-> Mod(-eta2)]>>
\* mul_Hs
MulHs(sc, x) ==
  CASE sc.kind = "zero" -> ConstantSeq(0, Len(x))
    [] sc.kind = "nonneg" -> Times(sc.w, Times(sc.w, x))
    [] sc.kind = "genpow" -> PowMulHs(sc, x)
    [] sc.kind = "soc" ->
         By(sc.eta * sc.eta, Minus(By(2 * FDot(sc.w, x), sc.w), Reflected(x)))

----------------------------------------------------------------------------
(* Products in scaled coordinates *)

\* _soc_mul_W_inner and _soc_mul_Winv_inner.
SocProduct(w, x) ==
  LET along == FDot(Tail0(w), Tail0(x))
  IN  [k \in DOMAIN x |-> IF k = 1 THEN Mod(w[1] * x[1] + along)
                          ELSE Mod(x[k] + Mod(x[1] + Div(along, 1 + w[1])) * w[k])]
SocInverseProduct(w, x) ==
  LET along == FDot(Tail0(w), Tail0(x))
  IN  [k \in DOMAIN x |-> IF k = 1 THEN Mod(w[1] * x[1] - along)
                          ELSE Mod(x[k] + Mod(Div(along, 1 + w[1]) - x[1]) * w[k])]
MulW(sc, x) == IF sc.kind = "soc" THEN By(sc.eta, SocProduct(sc.w, x)) ELSE Times(sc.w, x)
MulWinv(sc, x) ==
  IF sc.kind = "soc" THEN By(Recip(sc.eta), SocInverseProduct(sc.w, x)) ELSE Times(x, Inverses(sc.w))
\* circ_op
Circ(kind, y, z) ==
  IF kind = "soc" THEN [k \in DOMAIN y |-> IF k = 1 THEN FDot(y, z) ELSE Mod(y[1] * z[k] + z[1] * y[k])] ELSE Times(y, z)

\* affine_ds
AffineDs(sc) ==
  CASE sc.kind = "zero" -> ConstantSeq(0, Len(sc.w))
    [] sc.kind = "genpow" -> sc.s
    [] OTHER -> Circ(sc.kind, sc.lambda, sc.lambda)
\* combined_ds_shift: the second-order term of the affine step and the target.
CombinedShift(sc, dz, ds, target) ==
  IF sc.kind = "zero" THEN ConstantSeq(0, Len(dz))
  ELSE IF sc.kind = "genpow" THEN PowCombinedShift(sc, dz, ds, target)
  ELSE Minus(Circ(sc.kind, MulWinv(sc, ds), MulW(sc, dz)), By(target, UnitOf(sc.kind, Len(dz))))
\* The term of the step in s that does not depend on the step in z, from the
\* right-hand side d of scaled complementarity (the Delta-s offset).
SocOffset(sc, d, z) ==
  LET lead == Div(sc.lambda[1] * d[1] - FDot(Tail0(sc.lambda), Tail0(d)), SocZeta(z))
      along == FDot(Tail0(sc.w), Tail0(d))
      of(k) == IF k = 1 THEN lead * z[1] + sc.eta * along
               ELSE sc.eta * Mod(d[k] + Div(along, 1 + sc.w[1]) * sc.w[k]) - lead * z[k]
  IN  [k \in DOMAIN z |-> Div(of(k), sc.lambda[1])]
OffsetTerm(sc, d, z) ==
  CASE sc.kind = "zero" -> ConstantSeq(0, Len(d))
    [] sc.kind = "nonneg" -> Times(d, Inverses(z))
    [] sc.kind = "genpow" -> d
    [] sc.kind = "soc" -> SocOffset(sc, d, z)
=============================================================================

---------------------------- MODULE ConeDerivatives ----------------------------
(***************************************************************************)
(* diff/cones: the derivative H of the projection on a dual cone, or its   *)
(* smoothed form, one block for each cone.  A block is                     *)
(*                                                                         *)
(*   [form, diag, rank]     H = Diagonal(diag) + sum of c * l r' over rank *)
(*   [form, data]           H = data, by rows                              *)
(*                                                                         *)
(* with the forms of ConeDerivativeBlock.  Which part of the cone a point  *)
(* z - s lies in is told by s and z, which are complementary.              *)
(***************************************************************************)
EXTENDS Field

CONSTANT NDenseGenPow   \* N_DENSE_GENPOW

Cone(kind, dim) == [kind |-> kind, dim |-> dim]
Rank(l, r, c) == [l |-> l, r |-> r, c |-> c]
Diagonal(diag) == [form |-> "diagonal", diag |-> diag, rank |-> <<>>]
Dense(rows) == [form |-> "dense", data |-> rows]
SocSparse(diag, v1, c1, v2, c2) ==
  [form |-> "soc", diag |-> diag, rank |-> <<Rank(v1, v1, c1), Rank(v2, v2, c2)>>]
GenPowerSparse(diag, l1, r1, l2, r2, l3, c3) ==
  [form |-> "genpow", diag |-> diag, rank |-> <<Rank(l1, r1, 1), Rank(l2, r2, 1), Rank(l3, l3, c3)>>]
SocFlat(diag) == SocSparse(diag, ConstantSeq(0, Len(diag)), 0, ConstantSeq(0, Len(diag)), 0)

BlockDim(block) == IF block.form = "dense" THEN Len(block.data) ELSE Len(block.diag)
\* to_dense
ToDense(block) ==
  IF block.form = "dense" THEN block.data
  ELSE [i \in DOMAIN block.diag |-> [j \in DOMAIN block.diag |->
          FSum(<<IF i = j THEN block.diag[i] ELSE 0>>
               \o [k \in DOMAIN block.rank |->
                     Mod(block.rank[k].c * Mod(block.rank[k].l[i] * block.rank[k].r[j]))])]]

\* The derivative at a point of a nonsymmetric cone is found by iterations
\* this model leaves out: some numbers, in a dense block or in the rank-3
\* form of a large generalized power cone.
Some(dim, k) == [i \in 1..dim |-> Mod(3 * i * i + 7 * k + 1)]
GenericBlock(kind, dim) ==
  IF kind = "genpow" /\ dim > NDenseGenPow
  THEN GenPowerSparse(Some(dim, 1), Some(dim, 2), Some(dim, 3), Some(dim, 4), Some(dim, 5), Some(dim, 6), 7)
  ELSE Dense([i \in 1..dim |-> Some(dim, i)])

ZeroPoint(v) == \A k \in DOMAIN v : v[k] = 0
\* derivative_soc_sparse: z - s inside the cone, in its polar, or, when both
\* s and z are on the boundary, outside both: the norm is then z0 + s0.
SocDerivative(s, z) ==
  IF ZeroPoint(s) THEN SocFlat(ConstantSeq(1, Len(s)))
  ELSE IF ZeroPoint(z) THEN SocFlat(ConstantSeq(0, Len(s)))
  ELSE LET norm == Mod(z[1] + s[1])
           hat == [k \in DOMAIN s |-> IF k = 1 THEN 1 ELSE Div(z[k] - s[k], norm)]
           alpha == Div(z[1] - s[1] + norm, 2 * norm)
       IN  SocSparse([k \in DOMAIN s |-> IF k = 1 THEN 0 ELSE alpha],
                     hat, Half, [hat EXCEPT ![1] = 0], Mod(-alpha))
\* derivative_cone_sparse of the dual cone.
ExactDerivative(kind, s, z) ==
  CASE kind = "zero" -> Diagonal(ConstantSeq(1, Len(s)))
    [] kind = "nonneg" -> Diagonal([k \in DOMAIN s |-> IF s[k] = 0 THEN 1 ELSE 0])
    [] kind = "soc" -> SocDerivative(s, z)
    [] OTHER -> GenericBlock(kind, Len(s))

\* central_path_derivative_cone: the derivative of z by z - s along
\* s = -mu times the gradient of the barrier at z.
SocZeta(z) == Mod(z[1] * z[1] - FSum([k \in 1..(Len(z) - 1) |-> z[k + 1] * z[k + 1]]))
\* Diagonal di, then the two rank-one parts, each by the Sherman-Morrison
\* formula: beta and gamma are their coefficients.
SmoothedSoc(z, di, beta, n00, shift) ==
  SocSparse(ConstantSeq(Recip(di), Len(z)),
            [k \in DOMAIN z |-> IF k = 1 THEN z[1] ELSE Mod(-z[k])], Mod(-beta),
            [k \in DOMAIN z |-> IF k = 1 THEN n00 ELSE Mod(Mod(beta * z[1]) * z[k])],
            Mod(-Div(shift, 1 + shift * n00)))
SocBeta(z, c, di) == Div(c, di * Mod(di + c * FDot(z, z)))
SmoothedSocAt(z, di, beta, shift) == SmoothedSoc(z, di, beta, Mod(Recip(di) - beta * Mod(z[1] * z[1])), shift)
SmoothedDerivative(kind, z, mu) ==
  CASE kind = "zero" -> Diagonal(ConstantSeq(1, Len(z)))
    [] kind = "nonneg" -> Diagonal([k \in DOMAIN z |-> Div(z[k] * z[k], z[k] * z[k] + mu)])
    [] kind = "soc" /\ SocZeta(z) = 0 -> SocFlat(ConstantSeq(1, Len(z)))
    [] kind = "soc" /\ SocZeta(z) # 0 ->
         SmoothedSocAt(z, Mod(1 + Div(mu, SocZeta(z))),
                       SocBeta(z, Div(2 * mu, SocZeta(z) * SocZeta(z)), Mod(1 + Div(mu, SocZeta(z)))),
                       Mod(-Div(2 * mu, SocZeta(z))))

SupportsSmoothed(cones) == \A k \in DOMAIN cones : cones[k].kind \in {"zero", "nonneg", "soc"}
IsAllZero(cones) == \A k \in DOMAIN cones : cones[k].kind = "zero"
\* resolve_diff_method; large says whether mu reaches the threshold.
Resolve(method, cones, large) ==
  IF method # "auto" THEN method
  ELSE IF SupportsSmoothed(cones) /\ large THEN "smoothed" ELSE "exact"

Offset(sizes, k) == Sum([l \in 1..(k - 1) |-> sizes[l]])
Part(v, sizes, k) == SubSeq(v, Offset(sizes, k) + 1, Offset(sizes, k) + sizes[k])
Dims(cones) == [k \in DOMAIN cones |-> cones[k].dim]

\* compute_H_blocks, of slack cones and of direct-x cones.
Derivatives(cones, s, z, method, mu) ==
  [k \in DOMAIN cones |->
     IF method = "exact"
     THEN ExactDerivative(cones[k].kind, Part(s, Dims(cones), k), Part(z, Dims(cones), k))
     ELSE SmoothedDerivative(cones[k].kind, Part(z, Dims(cones), k), mu)]

\* A mutant: the threshold taken the other way at equality.
PlaceholderBlockFromThreshold(kind, dim) ==
  LET ones == ConstantSeq(1, dim)
  IN  CASE kind \in {"zero", "nonneg"} -> Diagonal(ones)
        [] kind = "soc" -> SocSparse(ones, ones, 1, ones, 1)
        [] kind = "genpow" /\ dim >= NDenseGenPow -> GenPowerSparse(ones, ones, ones, ones, ones, ones, 1)
        [] OTHER -> Dense([i \in 1..dim |-> ones])
\* build_placeholder_H_blocks and its direct-x form: every entry a block can
\* have, before any point is known.
PlaceholderBlock(kind, dim) ==
  LET ones == ConstantSeq(1, dim)
  IN  CASE kind \in {"zero", "nonneg"} -> Diagonal(ones)
        [] kind = "soc" -> SocSparse(ones, ones, 1, ones, 1)
        [] kind = "genpow" /\ dim > NDenseGenPow -> GenPowerSparse(ones, ones, ones, ones, ones, ones, 1)
        [] OTHER -> Dense([i \in 1..dim |-> ones])
Placeholders(cones) == [k \in DOMAIN cones |-> PlaceholderBlock(cones[k].kind, cones[k].dim)]
=============================================================================

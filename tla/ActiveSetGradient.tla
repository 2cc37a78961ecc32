--------------------------- MODULE ActiveSetGradient ---------------------------
(***************************************************************************)
(* backward.cpp: gradients of a loss with respect to the data of a         *)
(* quadratic program that the active-set solver has solved, from the       *)
(* gradients [x, z, s] with respect to its solution, and what they are to  *)
(* be: the adjoint of the derivative of the solution.  A saved state is    *)
(* [Rinv, WS, sense, lam_star].                                            *)
(***************************************************************************)
EXTENDS DualActiveSet

\* Multipliers that the loop has not computed are zero since the reset.
SaveBackwardState(w) ==
  [Rinv |-> w.Rinv, WS |-> w.WS, sense |-> w.sense,
   lam_star |-> [i \in 1..NActive(w) |-> IF i <= Len(w.lam_star) THEN w.lam_star[i] ELSE Zero]]

ApplyHinv(state, v, n) == Computed(MVec(state.Rinv, TVec(state.Rinv, v, n)))
\* B B' with B = rows * Rinv, and a diagonal added.
SchurOf(state, rows, n, diagonal) ==
  LET B == Computed([i \in DOMAIN rows |-> TVec(state.Rinv, rows[i], n)])
  IN  Computed([i \in DOMAIN rows |-> [j \in DOMAIN rows |->
        IF i = j THEN Add(Dot(B[i], B[i]), diagonal[i]) ELSE Dot(B[i], B[j])]])
Outer(u, v) == [i \in DOMAIN u |-> [j \in DOMAIN v |-> Mul(u[i], v[j])]]

\* backward_exact: the working set is taken as equations.
BackwardExact(state, A, d, x, n, m) ==
  LET S == state.WS
      rows == [k \in DOMAIN S |-> A[S[k]]]
      Flip(j, a) == IF "LOWER" \in state.sense[j] THEN Neg(a) ELSE a
      through == Computed(VSub(d.x, TVec(A, d.s, n)))
      v1init == ApplyHinv(state, through, n)
      rhs == [k \in DOMAIN S |-> Sub(Dot(rows[k], v1init), Flip(S[k], d.z[S[k]]))]
      schur == SchurOf(state, rows, n, ZeroVec(Len(S)))
      v2 == Computed(Solution(schur, rhs))
      v1 == Computed(VSub(v1init, ApplyHinv(state, TVec(rows, v2, n), n)))
      position(i) == CHOOSE k \in DOMAIN S : S[k] = i
      active == {S[k] : k \in DOMAIN S}
  IN  IF ~PivotsArePositive(schur) THEN [raised |-> TRUE]
      ELSE [raised |-> FALSE,
            q |-> VScale(Int2Q(-1), v1),
            H |-> Outer(VScale(Int2Q(-1), v1), x),
            b |-> [i \in 1..m |-> Add(d.s[i], IF i \in active THEN Flip(i, v2[position(i)]) ELSE Zero)],
            A |-> [i \in 1..m |->
                    VSub(IF i \in active
                         THEN VScale(Int2Q(-1), VAdd(VScale(v2[position(i)], x),
                                                     VScale(state.lam_star[position(i)], v1)))
                         ELSE ZeroVec(n),
                         VScale(d.s[i], x))]]

\* The point of the central path next to the solution: s z = mu.
CentralDuals(z, s, nz, mu) ==
  LET root == Root(mu)
  IN  [i \in DOMAIN z |->
        IF i <= nz
        THEN IF Le(Zero, z[i]) THEN (IF Lt(z[i], root) THEN root ELSE z[i])
             ELSE (IF Lt(Neg(z[i]), root) THEN Neg(root) ELSE z[i])
        ELSE IF IsPositive(s[i]) THEN Quot(mu, s[i])
        ELSE IF IsPositive(z[i]) THEN z[i] ELSE root]

\* backward_smoothed.
BackwardSmoothed(state, A, d, x, z, s, n, m, nz, mu) ==
  LET zmu == Computed(CentralDuals(z, s, nz, mu))
      ratio == Computed([i \in 1..m |-> Quot(mu, Mul(zmu[i], zmu[i]))])
      v1init == ApplyHinv(state, d.x, n)
      rhs == [i \in 1..m |-> Add(Sub(Dot(A[i], v1init), d.z[i]), Mul(ratio[i], d.s[i]))]
      schur == SchurOf(state, A, n, ratio)
      v3 == Computed(Solution(schur, rhs))
      v1 == Computed(VSub(v1init, ApplyHinv(state, TVec(A, v3, n), n)))
  IN  IF ~PivotsArePositive(schur) THEN [raised |-> TRUE]
      ELSE [raised |-> FALSE,
            q |-> VScale(Int2Q(-1), v1),
            H |-> Outer(VScale(Int2Q(-1), v1), x),
            b |-> v3,
            A |-> [i \in 1..m |-> VScale(Int2Q(-1), VAdd(VScale(v3[i], x), VScale(zmu[i], v1)))]]

\* dense_to_csr_values of the gradient of P: an entry stored once stands for
\* both triangles, one stored twice for half of the sum.
StoredGradient(H, stored) ==
  [e \in stored |->
    LET i == e[1]
        j == e[2]
    IN  IF i = j THEN H[i][j]
        ELSE Mul(Add(H[i][j], H[j][i]), IF <<j, i>> \in stored THEN Frac(1, 2) ELSE One)]

----------------------------------------------------------------------------
(* Reference *)

\* How the solution moves with the data: x and z of
\*    H dx + A' dz = - (move.H x + move.q + move.A' z),
\*    A_i dx - ratio_i dz_i = move.b_i - move.A_i x  (i in S),   dz_i = 0  (others),
\* and s as b - A x does.
Directional(H, A, x, z, S, ratio, move, n, m) ==
  LET all == Ascending(S)
      k == Len(all)
      rows == Computed([i \in 1..(n + k) |->
        IF i <= n THEN [j \in 1..(n + k) |-> IF j <= n THEN H[i][j] ELSE A[all[j - n]][i]]
        ELSE [j \in 1..(n + k) |-> IF j <= n THEN A[all[i - n]][j]
                                   ELSE IF i = j THEN Neg(ratio[all[i - n]]) ELSE Zero]])
      top == VAdd(VAdd(MVec(move.H, x), move.q), TVec(move.A, z, n))
      rhs == Computed([i \in 1..(n + k) |->
        IF i <= n THEN Neg(top[i])
        ELSE Sub(move.b[all[i - n]], Dot(move.A[all[i - n]], x))])
      y == Computed(Solution(rows, rhs))
      dx == Computed(SubSeq(y, 1, n))
  IN  [x |-> dx,
       z |-> [i \in 1..m |-> IF i \in S THEN y[n + (CHOOSE l \in 1..k : all[l] = i)] ELSE Zero],
       s |-> [i \in 1..m |-> Sub(move.b[i], Add(Dot(A[i], dx), Dot(move.A[i], x)))]]
Pairing(d, move) == Add(Add(Dot(d.x, move.x), Dot(d.z, move.z)), Dot(d.s, move.s))
NoMove(n, m) == [H |-> [i \in 1..n |-> ZeroVec(n)], q |-> ZeroVec(n),
                 A |-> [i \in 1..m |-> ZeroVec(n)], b |-> ZeroVec(m)]
=============================================================================

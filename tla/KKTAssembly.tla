------------------------------ MODULE KKTAssembly ------------------------------
(***************************************************************************)
(* The sparse KKT matrix of the interior-point method and the maps from    *)
(* the user's data and the cones to its entries: kkt_assembly.rs,          *)
(* datamaps.rs, the counting and filling helpers of csc/utils.rs, and the  *)
(* index tables of the composite cones.                                    *)
(*                                                                         *)
(*     [ P + H_x   A'   .  ]   n columns                                   *)
(*     [ A        -H_s  E' ]   m columns                                   *)
(*     [ .         E    D  ]   p columns: sparse expansions of the cones   *)
(*                                                                         *)
(* A sparse matrix is built in two passes.  The first counts the entries   *)
(* of every column, the second places them one by one at a cursor of the   *)
(* column.  The placements are a list here: [row, col, of], where "of" is  *)
(* the place of the map that is told the slot of the entry.                *)
(*                                                                         *)
(* A problem is [P, A, cones, xcones, shape]: the positions of the upper   *)
(* triangle of P and of A, a list of slack cones [kind, size, dim1], a     *)
(* list of direct-x cones [kind, indices, dim1], and the triangle stored.  *)
(* kind: "diag" (zero, nonnegative), "dense" (a dense block), "soc" and    *)
(* "genpow" (a diagonal block and 2 or 3 + PDAxes expansion columns).      *)
(***************************************************************************)
EXTENDS Arrays

CONSTANTS
  N,        \* primal variables
  M,        \* rows of A
  PDAxes    \* expansion columns of the primal-dual scaling (6 in the code)

ASSUME SizesAssumption == N \in Nat \ {0} /\ M \in Nat /\ PDAxes \in Nat

TriangularNumber(k) == (k * (k + 1)) \div 2
Concat(s) == Fold(LAMBDA a, b : a \o b, <<>>, s)
Numbers(k) == [i \in 1..k |-> i]

\* The positions of a matrix in the order of compressed columns.
Width == N + M + 1
ByColumns(E) ==
  LET keys == Ascending({e[2] * Width + e[1] : e \in E})
  IN  [k \in DOMAIN keys |-> <<keys[k] % Width, keys[k] \div Width>>]

\* Places of the members of a list in the order of their values:
\* cone_pos_for_sorted and its restrictions to the two parts of a power cone.
SortedPositions(s, among) ==
  LET by == Ascending({s[i] : i \in among})
  IN  [k \in DOMAIN by |-> CHOOSE i \in among : s[i] = by[k]]

-----------------------------------------------------------------------------
\* The cones.  An axis of an expansion is the list of the places of the cone
\* it covers; the second-order cone has v and u, the power cone q, r, p and
\* the axes of the primal-dual scaling.
Expands(c) == c.kind \in {"soc", "genpow"}
HsIsDiagonal(c) == c.kind # "dense"
AxesOf(c, k) ==
  CASE c.kind = "soc" -> <<Numbers(k), Numbers(k)>>
    [] c.kind = "genpow" ->
         <<Numbers(c.dim1), [i \in 1..(k - c.dim1) |-> c.dim1 + i], Numbers(k)>>
           \o [a \in 1..PDAxes |-> Numbers(k)]
    [] OTHER -> <<>>
PDim(c) == CASE c.kind = "soc" -> 2 [] c.kind = "genpow" -> 3 + PDAxes [] OTHER -> 0
BlockLength(c, k) == IF HsIsDiagonal(c) THEN k ELSE TriangularNumber(k)
Size(c) == c.size
XSize(c) == Len(c.indices)

\* make_rng_cones, make_rng_blocks and the offsets of the expansion columns:
\* where the part of cone i starts.
RowStart(p, i) == N + SumOver([j \in DOMAIN p.cones |-> Size(p.cones[j])], 1..(i - 1))
BlockStart(p, i) ==
  SumOver([j \in DOMAIN p.cones |-> BlockLength(p.cones[j], Size(p.cones[j]))], 1..(i - 1))
HxStart(p, i) ==
  SumOver([j \in DOMAIN p.xcones |-> BlockLength(p.xcones[j], XSize(p.xcones[j]))], 1..(i - 1))
PColStart(p, i) == N + M + SumOver([j \in DOMAIN p.cones |-> PDim(p.cones[j])], 1..(i - 1))
PSlack(p) == SumOver([j \in DOMAIN p.cones |-> PDim(p.cones[j])], DOMAIN p.cones)
XPColStart(p, i) ==
  N + M + PSlack(p) + SumOver([j \in DOMAIN p.xcones |-> PDim(p.xcones[j])], 1..(i - 1))
Dim(p) == XPColStart(p, Len(p.xcones) + 1)

-----------------------------------------------------------------------------
\* build_P_ext: the pattern of P with the footprint of the direct-x cones, and
\* the position of every entry of the stacked Hx buffer.
HxPositions(p) ==
  Concat([x \in DOMAIN p.xcones |->
    LET ix == p.xcones[x].indices
        k == Len(ix)
        Pair(i, j) == IF ix[i] <= ix[j] THEN <<ix[i], ix[j]>> ELSE <<ix[j], ix[i]>>
    IN  IF HsIsDiagonal(p.xcones[x]) THEN [i \in 1..k |-> <<ix[i], ix[i]>>]
        ELSE Concat([j \in 1..k |-> [i \in 1..j |-> Pair(i, j)]])])
ExtendedP(p) == p.P \cup Elems(HxPositions(p))

-----------------------------------------------------------------------------
\* The fill helpers of csc/utils.rs: placements, in the order they are made.
Place(r, c, of) == [row |-> r, col |-> c, of |-> of]
FillBlock(E, name, row0, col0, transposed) ==
  LET s == ByColumns(E) IN
  [k \in DOMAIN s |->
     IF transposed THEN Place(row0 + s[k][2], col0 + s[k][1], <<name, k>>)
     ELSE Place(row0 + s[k][1], col0 + s[k][2], <<name, k>>)]
MissingDiagonal(E) == {i \in 0..(N - 1) : <<i, i>> \notin E}
FillMissingDiag(E) ==
  LET d == Ascending(MissingDiagonal(E)) IN [k \in DOMAIN d |-> Place(d[k], d[k], <<"zero", d[k]>>)]
FillDiag(ofs, first) == [i \in DOMAIN ofs |-> Place(first + i - 1, first + i - 1, ofs[i])]
FillDenseTriangle(ofs, first, k, shape) ==
  Concat([j \in 1..k |-> [i \in 1..j |->
    LET of == ofs[TriangularNumber(j - 1) + i] IN
    IF shape = "triu" THEN Place(first + i - 1, first + j - 1, of)
    ELSE Place(first + j - 1, first + i - 1, of)]])
\* fill_colvec and fill_rowvec, their scattered forms included.
FillVector(ofs, lines, line, shape) ==
  [i \in DOMAIN lines |->
     IF shape = "triu" THEN Place(lines[i], line, ofs[i]) ELSE Place(line, lines[i], ofs[i])]

\* csc_fill_sparsecone: the expansion of slack cone i.
FillExpansion(p, i) ==
  LET c == p.cones[i]
      axes == AxesOf(c, Size(c))
      row == RowStart(p, i)
      pcol == PColStart(p, i)
      Axis(e) == FillVector([j \in DOMAIN axes[e] |-> <<"E", i, e, j>>],
                            [j \in DOMAIN axes[e] |-> row + axes[e][j] - 1], pcol + e - 1, p.shape)
  IN  Concat([e \in DOMAIN axes |-> Axis(e)]) \o FillDiag([e \in 1..PDim(c) |-> <<"D", i, e>>], pcol)

\* The expansion of direct-x cone x.  In the upper triangle the rows of an axis
\* are sorted; in the lower one they come in the order of the cone.
FillXExpansion(p, x) ==
  LET c == p.xcones[x]
      axes == AxesOf(c, XSize(c))
      pcol == XPColStart(p, x)
      Order(e) == IF p.shape = "triu" THEN SortedPositions(c.indices, Elems(axes[e])) ELSE axes[e]
      Axis(e) == LET order == Order(e) IN
        FillVector([j \in DOMAIN order |-> <<"XE", x, e, j>>],
                   [j \in DOMAIN order |-> c.indices[order[j]]], pcol + e - 1, p.shape)
  IN  Concat([e \in DOMAIN axes |-> Axis(e)]) \o FillDiag([e \in 1..PDim(c) |-> <<"XD", x, e>>], pcol)

\* _kkt_assemble_fill_inner.  In the lower triangle the missing diagonal comes
\* before P, so that it is first in its column.
\* Mutant: it comes after P for both triangles.
FillHeadDiagonalLast(p) ==
  LET ext == ExtendedP(p) IN
  FillBlock(ext, "P", 0, 0, p.shape = "tril") \o FillMissingDiag(ext)
    \o (IF p.shape = "triu" THEN FillBlock(p.A, "A", 0, N, TRUE) ELSE FillBlock(p.A, "A", N, 0, FALSE))
FillHead(p) ==
  LET ext == ExtendedP(p) IN
  IF p.shape = "triu"
  THEN FillBlock(ext, "P", 0, 0, FALSE) \o FillMissingDiag(ext) \o FillBlock(p.A, "A", 0, N, TRUE)
  ELSE FillMissingDiag(ext) \o FillBlock(ext, "P", 0, 0, TRUE) \o FillBlock(p.A, "A", N, 0, FALSE)
FillCone(p, i) ==
  LET c == p.cones[i]
      ofs == [k \in 1..BlockLength(c, Size(c)) |-> <<"Hs", BlockStart(p, i) + k>>]
  IN  (IF HsIsDiagonal(c) THEN FillDiag(ofs, RowStart(p, i))
       ELSE FillDenseTriangle(ofs, RowStart(p, i), Size(c), p.shape)) \o FillExpansion(p, i)
Fill(p) ==
  FillHead(p) \o Concat([i \in DOMAIN p.cones |-> FillCone(p, i)])
              \o Concat([x \in DOMAIN p.xcones |-> FillXExpansion(p, x)])

-----------------------------------------------------------------------------
\* The counting pass, _kkt_assemble_colcounts and _x_sparse_colcounts: entries
\* that every helper announces for column c.
Count(S) == Cardinality(S)
CountBlock(E, col0, transposed, c) ==
  Count({e \in E : col0 + (IF transposed THEN e[1] ELSE e[2]) = c})
CountTriangle(first, k, shape, c) ==
  IF c \notin first..(first + k - 1) THEN 0
  ELSE IF shape = "triu" THEN c - first + 1 ELSE first + k - c
CountRange(first, k, c) == IF c \in first..(first + k - 1) THEN 1 ELSE 0
CountExpansion(p, i, c) ==
  LET cone == p.cones[i]
      axes == AxesOf(cone, Size(cone))
      row == RowStart(p, i)
      pcol == PColStart(p, i)
      Axis(e) == IF p.shape = "triu" THEN (IF c = pcol + e - 1 THEN Len(axes[e]) ELSE 0)
                 ELSE CountRange(row + axes[e][1] - 1, Len(axes[e]), c)
  IN  SumOver([e \in DOMAIN axes |-> Axis(e)], DOMAIN axes) + CountRange(pcol, PDim(cone), c)
\* The lower triangle counts 2 entries for a variable of a second-order cone, and
\* 2 + PDAxes for one of a power cone, which is in one of q and r.
CountXExpansion(p, x, c) ==
  LET cone == p.xcones[x]
      axes == AxesOf(cone, XSize(cone))
      pcol == XPColStart(p, x)
      PerVariable == IF cone.kind = "soc" THEN 2 ELSE 2 + PDAxes
  IN  (IF ~Expands(cone) THEN 0
       ELSE IF p.shape = "triu" THEN (IF c \in pcol..(pcol + Len(axes) - 1) THEN Len(axes[c - pcol + 1]) ELSE 0)
       ELSE IF Has(cone.indices, c) THEN PerVariable ELSE 0) + CountRange(pcol, PDim(cone), c)
ColumnCount(p, c) ==
  LET ext == ExtendedP(p)
      lower == p.shape = "tril"
      OfCone(i) ==
        (IF HsIsDiagonal(p.cones[i]) THEN CountRange(RowStart(p, i), Size(p.cones[i]), c)
         ELSE CountTriangle(RowStart(p, i), Size(p.cones[i]), p.shape, c)) + CountExpansion(p, i, c)
  IN  CountBlock(ext, 0, lower, c) + (IF c \in MissingDiagonal(ext) THEN 1 ELSE 0)
      + (IF lower THEN CountBlock(p.A, 0, FALSE, c) ELSE CountBlock(p.A, N, TRUE, c))
      + SumOver([i \in DOMAIN p.cones |-> OfCone(i)], DOMAIN p.cones)
      + SumOver([x \in DOMAIN p.xcones |-> CountXExpansion(p, x, c)], DOMAIN p.xcones)

\* nnzKKT: the room that is allocated.
NnzVector(c, k) == CASE c.kind = "soc" -> 2 * k [] c.kind = "genpow" -> (2 + PDAxes) * k [] OTHER -> 0
NnzKKT(p) ==
  LET ext == ExtendedP(p)
      Of(i) == BlockLength(p.cones[i], Size(p.cones[i])) + NnzVector(p.cones[i], Size(p.cones[i]))
      OfX(x) == NnzVector(p.xcones[x], XSize(p.xcones[x])) + PDim(p.xcones[x])
  IN  Count(ext) + N - (N - Count(MissingDiagonal(ext))) + Count(p.A) + PSlack(p)
      + SumOver([i \in DOMAIN p.cones |-> Of(i)], DOMAIN p.cones)
      + SumOver([x \in DOMAIN p.xcones |-> OfX(x)], DOMAIN p.xcones)

-----------------------------------------------------------------------------
\* The assembled matrix: the slot of a placement is its cursor, the start of its
\* column plus what was placed in the column before; slots are numbered from 0.
Assembled(p) ==
  LET fill == Fill(p)
      count == [c \in 0..(Dim(p) - 1) |-> ColumnCount(p, c)]
      colptr == [c \in 0..Dim(p) |-> SumOver(count, 0..(c - 1))]
      Slot(i) == colptr[fill[i].col] + Count({j \in 1..(i - 1) : fill[j].col = fill[i].col})
      slot == [i \in DOMAIN fill |-> Slot(i)]
  IN  [dim |-> Dim(p), colptr |-> colptr, nnz |-> NnzKKT(p),
       placed |-> [i \in DOMAIN fill |-> [slot |-> slot[i], row |-> fill[i].row,
                                          col |-> fill[i].col, of |-> fill[i].of]]]

\* diag_full: the last entry of a column of the upper triangle, the first one of
\* the lower triangle.
DiagSlot(K, shape, c) == IF shape = "triu" THEN K.colptr[c + 1] - 1 ELSE K.colptr[c]

\* _fill_signs, Dsigns and dsigns: the expected signs of D at construction.
SlackSigns(c, pd) ==
  CASE c.kind = "soc" -> <<-1, 1>>
    [] c.kind = "genpow" -> <<-1, -1, 1>> \o [k \in 1..PDAxes |-> pd[k]]
    [] OTHER -> <<>>
XSigns(c, pd) == LET s == SlackSigns(c, pd) IN [e \in DOMAIN s |-> -s[e]]
Signs(p, pd) ==
  ToArray([i \in 1..N |-> 1] \o [i \in 1..M |-> -1]
            \o Concat([i \in DOMAIN p.cones |-> SlackSigns(p.cones[i], pd)])
            \o Concat([x \in DOMAIN p.xcones |-> XSigns(p.xcones[x], pd)]))

-----------------------------------------------------------------------------
\* LDLDataMap: the slots of the entries of the user's P and A, of the places the
\* cones write, and of the stacked Hx buffer within P.  HxToP is the entry of P
\* under an entry of Hx (p_to_pext, hx_to_pext; 0: none).
UserEntry(p, position) ==
  LET s == ByColumns(p.P) IN
  IF position \in p.P THEN CHOOSE k \in DOMAIN s : s[k] = position ELSE 0
NewMap(p, K) ==
  LET ext == ByColumns(ExtendedP(p))
      hx == HxPositions(p)
      SlotAt(of) == (CHOOSE e \in Elems(K.placed) : e.of = of).slot
      ExtSlot(position) == SlotAt(<<"P", CHOOSE k \in DOMAIN ext : ext[k] = position>>)
      s == ByColumns(p.P)
      cones == {e.of : e \in {f \in Elems(K.placed) : f.of[1] \in {"Hs", "E", "D", "XE", "XD"}}}
  IN  [dim |-> K.dim, nnz |-> K.nnz,
       at |-> [d \in 0..(K.nnz - 1) |->
                 LET e == CHOOSE f \in Elems(K.placed) : f.slot = d IN [row |-> e.row, col |-> e.col]],
       P |-> [k \in DOMAIN s |-> ExtSlot(s[k])],
       A |-> [k \in 1..Count(p.A) |-> SlotAt(<<"A", k>>)],
       cones |-> [of \in cones |-> SlotAt(of)],
       Hx |-> [k \in DOMAIN hx |-> ExtSlot(hx[k])],
       HxToP |-> [k \in DOMAIN hx |-> UserEntry(p, hx[k])],
       diagFull |-> [r \in 0..(K.dim - 1) |-> DiagSlot(K, p.shape, r)]]

\* Where a number comes from: an entry of P, A or a block of the cones, an axis
\* of an expansion at a place of its cone, or the sign of an expansion column.
\* The source of what the cones write to a place of the map; an axis of a
\* direct-x cone is written in the order of the sorted indices.
AxisPlace(c, e, j) ==
  LET axes == AxesOf(c, XSize(c)) IN SortedPositions(c.indices, Elems(axes[e]))[j]
SourceOf(p, pd, of) ==
  CASE of[1] = "Hs" -> <<"-Hs", of[2]>>
    [] of[1] = "E" -> <<"axis", of[2], of[3], AxesOf(p.cones[of[2]], Size(p.cones[of[2]]))[of[3]][of[4]]>>
    [] of[1] = "D" -> <<"sign", SlackSigns(p.cones[of[2]], pd)[of[3]]>>
    [] of[1] = "XE" -> <<"xaxis", of[2], of[3], AxisPlace(p.xcones[of[2]], of[3], of[4])>>
    [] of[1] = "XD" -> <<"sign", XSigns(p.xcones[of[2]], pd)[of[3]]>>

-----------------------------------------------------------------------------
\* The KKT matrix as mathematics: the sources of row i and column j of its upper
\* triangle, by the blocks of [P + H_x, A', .; A, -H_s, E'; ., E, D].
PackedIndex(a, b) == TriangularNumber(Max2(a, b) - 1) + Min2(a, b)
PlaceOf(s, v) == CHOOSE k \in DOMAIN s : s[k] = v
BlockSource(name, c, start, a, b) ==
  IF HsIsDiagonal(c) THEN (IF a = b THEN {<<name, start + a>>} ELSE {})
  ELSE {<<name, start + PackedIndex(a, b)>>}
UpperLeft(p, i, j) ==
  (IF <<i, j>> \in p.P THEN {<<"P", UserEntry(p, <<i, j>>)>>} ELSE {})
  \cup UNION {LET c == p.xcones[x] IN
                IF {i, j} \subseteq Elems(c.indices)
                THEN BlockSource("Hx", c, HxStart(p, x), PlaceOf(c.indices, i), PlaceOf(c.indices, j))
                ELSE {} : x \in DOMAIN p.xcones}
Coupling(p, i, j) ==
  LET s == ByColumns(p.A) IN
  IF <<j - N, i>> \in p.A THEN {<<"A", PlaceOf(s, <<j - N, i>>)>>} ELSE {}
LowerRight(p, i, j) ==
  UNION {LET c == p.cones[k]
             row == RowStart(p, k)
         IN  IF {i, j} \subseteq row..(row + c.size - 1)
             THEN BlockSource("-Hs", c, BlockStart(p, k), i - row + 1, j - row + 1) ELSE {} :
         k \in DOMAIN p.cones}
SlackColumn(p, pd, i, j) ==
  UNION {LET c == p.cones[k]
             e == j - PColStart(p, k) + 1
             a == i - RowStart(p, k) + 1
         IN  IF e \notin 1..PDim(c) THEN {}
             ELSE IF i = j THEN {<<"sign", SlackSigns(c, pd)[e]>>}
             ELSE IF i < N + M /\ a \in Elems(AxesOf(c, c.size)[e])
                  THEN {<<"axis", k, e, a>>} ELSE {} : k \in DOMAIN p.cones}
DirectColumn(p, pd, i, j) ==
  UNION {LET c == p.xcones[x]
             e == j - XPColStart(p, x) + 1
         IN  IF e \notin 1..PDim(c) THEN {}
             ELSE IF i = j THEN {<<"sign", -SlackSigns(c, pd)[e]>>}
             ELSE IF i \in {c.indices[a] : a \in Elems(AxesOf(c, XSize(c))[e])}
                  THEN {<<"xaxis", x, e, PlaceOf(c.indices, i)>>} ELSE {} :
         x \in DOMAIN p.xcones}
TrueSources(p, pd, i, j) ==
  CASE j < N -> UpperLeft(p, i, j)
    [] i < N /\ j \in N..(N + M - 1) -> Coupling(p, i, j)
    [] i >= N /\ j < N + M -> LowerRight(p, i, j)
    [] OTHER -> SlackColumn(p, pd, i, j) \cup DirectColumn(p, pd, i, j)

-----------------------------------------------------------------------------
\* What a map must be for writing values slot by slot to be right.

\* Every position of the triangle has one slot at most, and every row one for
\* its diagonal.
Position(i, j) == <<Min2(i, j), Max2(i, j)>>
PositionAt(at, s) == Position(at[s].row, at[s].col)
SlotsLaid(mp) ==
  /\ mp.dim \in Nat /\ mp.nnz \in Nat /\ DOMAIN mp.at = 0..(mp.nnz - 1)
  /\ \A s \in DOMAIN mp.at : {mp.at[s].row, mp.at[s].col} \subseteq 0..(mp.dim - 1)
  /\ \A s, t \in DOMAIN mp.at : PositionAt(mp.at, s) = PositionAt(mp.at, t) => s = t
  /\ \A r \in 0..(mp.dim - 1) :
       mp.diagFull[r] \in DOMAIN mp.at /\ mp.at[mp.diagFull[r]] = [row |-> r, col |-> r]

\* Two places share a slot only where an entry of Hx lies on one of P, and the
\* map says so.
OneToOne(slots) == \A j, k \in DOMAIN slots : slots[j] = slots[k] => j = k
Disjoint(f, g) == \A j \in DOMAIN f, k \in DOMAIN g : f[j] # g[k]
Within(slots, mp) == \A k \in DOMAIN slots : slots[k] \in DOMAIN mp.at
PlacesApart(mp) ==
  /\ Within(mp.P, mp) /\ Within(mp.A, mp) /\ Within(mp.cones, mp) /\ Within(mp.Hx, mp)
  /\ OneToOne(mp.P) /\ OneToOne(mp.A) /\ OneToOne(mp.cones) /\ OneToOne(mp.Hx)
  /\ Disjoint(mp.P, mp.A) /\ Disjoint(mp.P, mp.cones) /\ Disjoint(mp.A, mp.cones)
  /\ Disjoint(mp.Hx, mp.A) /\ Disjoint(mp.Hx, mp.cones)
  /\ DOMAIN mp.HxToP = DOMAIN mp.Hx
  /\ \A k \in DOMAIN mp.Hx :
       IF mp.HxToP[k] = 0 THEN \A j \in DOMAIN mp.P : mp.P[j] # mp.Hx[k]
       ELSE mp.HxToP[k] \in DOMAIN mp.P /\ mp.P[mp.HxToP[k]] = mp.Hx[k]
  /\ \A of \in DOMAIN mp.cones : of[1] \in {"Hs", "E", "D", "XE", "XD"}

\* The slot of a position is that of the sources the mathematics has there, and
\* the expected sign of a row is that of the expansion column on its diagonal.
SourcesAt(p, pd, mp, s) ==
  {<<"P", k>> : k \in {j \in DOMAIN mp.P : mp.P[j] = s}}
  \cup {<<"A", k>> : k \in {j \in DOMAIN mp.A : mp.A[j] = s}}
  \cup {SourceOf(p, pd, of) : of \in {o \in DOMAIN mp.cones : mp.cones[o] = s}}
  \cup {<<"Hx", k>> : k \in {j \in DOMAIN mp.Hx : mp.Hx[j] = s}}
UpperTriangle(dim) == {q \in (0..(dim - 1)) \X (0..(dim - 1)) : q[1] <= q[2]}
SourcesPlaced(p, pd, mp) ==
  /\ \A s \in DOMAIN mp.at :
       LET q == PositionAt(mp.at, s) IN SourcesAt(p, pd, mp, s) = TrueSources(p, pd, q[1], q[2])
  /\ \A q \in UpperTriangle(mp.dim) :
       TrueSources(p, pd, q[1], q[2]) # {} => \E s \in DOMAIN mp.at : PositionAt(mp.at, s) = q
SignsFit(p, pd, mp) ==
  /\ DOMAIN Signs(p, pd) = 0..(mp.dim - 1)
  /\ \A r \in 0..(mp.dim - 1), of \in DOMAIN mp.cones :
       mp.cones[of] = mp.diagFull[r] /\ of[1] \in {"D", "XD"} =>
         SourceOf(p, pd, of)[2] = Signs(p, pd)[r]
=============================================================================

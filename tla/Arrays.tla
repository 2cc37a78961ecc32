-------------------------------- MODULE Arrays --------------------------------
(***************************************************************************)
(* The containers of the repository that several modules need: arrays      *)
(* indexed from 0, index sets that remember the order of insertion         *)
(* (indexmap::IndexSet), sorted lists of indices and permutations.         *)
(***************************************************************************)
EXTENDS Integers, Sequences, FiniteSets

Elems(s) == {s[i] : i \in DOMAIN s}
Least(S) == CHOOSE x \in S : \A y \in S : x <= y
Greatest(S) == CHOOSE x \in S : \A y \in S : y <= x
Max2(a, b) == IF a >= b THEN a ELSE b
Min2(a, b) == IF a <= b THEN a ELSE b

\* The members of a set of numbers as a list, smallest first.
Ascending(S) ==
  LET From[T \in SUBSET S] ==
        IF T = {} THEN <<>> ELSE <<Least(T)>> \o From[T \ {Least(T)}]
  IN  From[S]
Descending(S) == LET a == Ascending(S) IN [i \in 1..Len(a) |-> a[Len(a) + 1 - i]]

\* The fold of a list from its first member on.  (The set makes TLC evaluate
\* the part before a member once.)
Fold(op(_, _), base, s) ==
  LET Upto[i \in 0..Len(s)] ==
        IF i = 0 THEN base
        ELSE CHOOSE r \in {op(before, s[i]) : before \in {Upto[i - 1]}} : TRUE
  IN  Upto[Len(s)]

\* An IndexSet is a list without repetition: an insertion of what is there
\* changes nothing, a union inserts one member after the other, an intersection
\* keeps the order of its first argument, shift_remove the order of the others.
Has(s, x) == x \in Elems(s)
Insert(s, x) == IF Has(s, x) THEN s ELSE Append(s, x)
OrderedUnion(s, t) == Fold(Insert, s, t)
Only(s, S) == Fold(LAMBDA kept, x : IF x \in S THEN Append(kept, x) ELSE kept, <<>>, s)
OrderedInter(s, t) == Only(s, Elems(t))
ShiftRemove(s, x) == Only(s, Elems(s) \ {x})

\* What is reached from S in at most n steps.
Reached(Near(_), S, n) ==
  Fold(LAMBDA T, i : T \cup UNION {Near(x) : x \in T}, S, [i \in 1..n |-> i])

\* Arrays indexed from 0, as functions.
ToArray(s) == [i \in 0..(Len(s) - 1) |-> s[i + 1]]
\* invperm, permute and ipermute.
InversePerm(p) == [v \in DOMAIN p |-> CHOOSE i \in DOMAIN p : p[i] = v]
PermuteArray(b, p) == [i \in DOMAIN p |-> b[p[i]]]
IPermuteArray(b, p) == PermuteArray(b, InversePerm(p))

\* Sum of an array over a set of indices.
SumOver(f, S) ==
  LET Of[T \in SUBSET S] ==
        IF T = {} THEN 0 ELSE f[Least(T)] + Of[T \ {Least(T)}]
  IN  Of[S]
=============================================================================

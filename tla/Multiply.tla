------------------------------- MODULE Multiply -------------------------------
(***************************************************************************)
(* The work itself: multiply (common/utils.hpp).  Numbers are integers     *)
(* here; the indices stay below 2^32 for every task that gen-tasks can     *)
(* write, so they do not wrap.                                             *)
(***************************************************************************)
EXTENDS Integers, FiniteSetsExt

NoValues == [p \in {} |-> 0]
Values(size) == [0 .. (size - 1) -> Int]

\* What the constructor of Task asserts.
IsTask(t) ==
  /\ t.n \in Nat /\ t.m \in Nat /\ t.k \in Nat
  /\ t.a \in Values(t.n * t.m) /\ t.b \in Values(t.m * t.k)

Sentinel == [n |-> 0, m |-> 0, k |-> 0, a |-> NoValues, b |-> NoValues]

\* out.resize(size, 0.0): what was there stays.
Resized(out, size) ==
  [p \in 0 .. (size - 1) |-> IF p \in DOMAIN out THEN out[p] ELSE 0]

\* The three loops add one product each time round, in any order.
multiply(t, out) ==
  LET Add(ikj, sum) ==
        [sum EXCEPT ![ikj[1] * t.k + ikj[3]] =
           @ + t.a[ikj[1] * t.m + ikj[2]] * t.b[ikj[2] * t.k + ikj[3]]]
  IN  FoldSet(Add, Resized(out, t.n * t.k),
              (0 .. (t.n - 1)) \X (0 .. (t.m - 1)) \X (0 .. (t.k - 1)))

\* The reference: rows times columns.
Product(t) ==
  [p \in 0 .. (t.n * t.k - 1) |->
     MapThenSumSet(LAMBDA l : t.a[(p \div t.k) * t.m + l] * t.b[l * t.k + (p % t.k)],
                   0 .. (t.m - 1))]
=============================================================================

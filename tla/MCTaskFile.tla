------------------------------- MODULE MCTaskFile -------------------------------
(***************************************************************************)
(* Instances of TaskFile for TLC: words of four bits.                      *)
(***************************************************************************)
EXTENDS TaskFile

\* Lines a hand may write: any three numbers, one of them wider than a word,
\* and one to three fields of values.
HandLines ==
  {Line(n, m, k, values) :
     n \in 0 .. 2, m \in {1, 4, 17}, k \in {2, 4},
     values \in {<<1>>, <<1, 2>>, <<2, 2>>, <<4, 0>>, <<8, 0>>, <<8, 8>>, <<1, 2, 0>>}}
  \cup {Empty}

\* Good arguments, the same with numbers that are too long, no sample, and those
\* that must be refused.
Typing(num, lower, upper) ==
  [num_samples |-> num, dim_lower |-> lower, dim_upper |-> upper]

MCTyped ==
  {Typing(2, 1, 3), Typing(18, 17, 19), Typing(16, 1, 1),
   Typing(1, 0, 2), Typing(1, 3, 2), Typing(1, 2, 5)}

HandFiles == {<<x, y>> : x, y \in HandLines}
=============================================================================

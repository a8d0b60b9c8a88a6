-------------------------------- MODULE Sums --------------------------------
(***************************************************************************)
(* Sums over an initial segment of the positive integers.                  *)
(*                                                                         *)
(* The contracts keep amounts in maps whose keys Soroban iterates in       *)
(* ascending order, so addresses and split ids are modelled by 1..N and    *)
(* every sum the code computes, or the properties state, is a prefix sum.  *)
(* The sum is a recursive function, not a RECURSIVE operator, so that the  *)
(* proof system can reason about it (SumsProofs).                          *)
(***************************************************************************)
EXTENDS Integers

\* f[1] + ... + f[n]; 0 when n = 0.
SumTo(f, n) ==
    LET S[k \in 0..n] == IF k = 0 THEN 0 ELSE S[k-1] + f[k]
    IN  S[n]
=============================================================================

----------------------------- MODULE MCProviders -----------------------------
(***************************************************************************)
(* Values for the constants of Providers.                                  *)
(***************************************************************************)
EXTENDS Providers, TLC

CONSTANTS a, a0, b, d1, d2

Symmetry == Permutations(Nonces) \cup Permutations(Draws)

\* a0 is a with a byte of zero at its end.
Numbers == a :> 1 @@ a0 :> 1 @@ b :> 2

Lists == {<<>>, <<a>>, <<a0>>, <<a, b>>, <<b, a0>>, <<Garbled>>}
==============================================================================

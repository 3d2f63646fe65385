--------------------------- MODULE MCCommandStream ---------------------------
(***************************************************************************)
(* CommandStream instantiated for TLC: the three helper identities and     *)
(* their ring.  The configs, the calls and the bounds are set in the .cfg  *)
(* files.                                                                  *)
(***************************************************************************)
EXTENDS CommandStream

CONSTANTS h1, h2, h3

MCHelpers == { h1, h2, h3 }
MCRight == (h1 :> h2) @@ (h2 :> h3) @@ (h3 :> h1)

\* Configs and calls are told apart only by equality.
MCSymmetry == Permutations(Configs) \cup Permutations(Calls)

=============================================================================

----------------------------- MODULE MCProcessor -----------------------------
(***************************************************************************)
(* Processor instantiated for TLC: the three helper identities and their   *)
(* ring.  The configs, the calls and the bounds are set in the .cfg files. *)
(***************************************************************************)
EXTENDS Processor

CONSTANTS h1, h2, h3

\* HelperIdentity::ONE, TWO, THREE: the right of ONE is TWO, and so on.
MCHelpers == { h1, h2, h3 }
MCRight == (h1 :> h2) @@ (h2 :> h3) @@ (h3 :> h1)

\* Configs and calls are told apart only by equality, so states that differ
\* by a renaming of them are explored once.  The helpers are not
\* interchangeable: Right orders them in a ring.
MCSymmetry == Permutations(Configs) \cup Permutations(Calls)

=============================================================================

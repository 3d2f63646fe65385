----------------------------- MODULE MCTransport -----------------------------
(***************************************************************************)
(* Transport instantiated for TLC: three helpers, of which h3 is built     *)
(* without the test fixture and has the RealWorld variant only.            *)
(***************************************************************************)
EXTENDS Transport

CONSTANTS h1, h2, h3

MCHelpers == { h1, h2, h3 }
MCRight == (h1 :> h2) @@ (h2 :> h3) @@ (h3 :> h1)
MCSymmetry == Permutations(Steps) \cup Permutations({ h1, h2 })
MCVariant == (h1 :> "InMemory") @@ (h2 :> "InMemory") @@ (h3 :> "RealWorld")

=============================================================================

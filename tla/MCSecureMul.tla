----------------------------- MODULE MCSecureMul -----------------------------
(***************************************************************************)
(* SecureMul instantiated for TLC: the coordinator is h2, two products     *)
(* side by side under the semi-honest model, one under the malicious.      *)
(***************************************************************************)
EXTENDS SecureMul

CONSTANTS h1, h2, h3

MCHelpers == { h1, h2, h3 }
MCRight == (h1 :> h2) @@ (h2 :> h3) @@ (h3 :> h1)
MCVariant == [h \in MCHelpers |-> "InMemory"]
MCMultiplied == ("SemiHonest" :> { 1, 2 }) @@ ("Malicious" :> { 1 })
MCPayloads == [record : { 1, 2 }, term : { 1, 2 }]

=============================================================================

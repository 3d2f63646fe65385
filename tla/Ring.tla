-------------------------------- MODULE Ring --------------------------------
(***************************************************************************)
(* The three helpers, their ring, and the roles that the coordinator of a  *)
(* query hands out in new_query (query/processor.rs).  HelperIdentity and  *)
(* RoleAssignment live in helpers/, which is not among the source files:   *)
(* others() and the directions of a role follow the specification.         *)
(***************************************************************************)
EXTENDS Naturals, FiniteSets, TLC, Functions

CONSTANTS
    Helpers,    \* the three HelperIdentity values
    Right       \* Right[h]: the helper to the right of h in the ring

ASSUME
    /\ Cardinality(Helpers) = 3
    /\ Right \in Bijection(Helpers, Helpers)
    /\ \A h \in Helpers : Right[h] # h /\ Right[Right[Right[h]]] = h

Roles == { "H1", "H2", "H3" }
RoleAssignments == Bijection(Helpers, Roles)

Left(id) == Right[Right[id]]

\* HelperIdentity::others: the ordered pair [right, left].
Others(id) == << Right[id], Left(id) >>

Peers(id) == { Others(id)[1], Others(id)[2] }

\* Variant of the role assignment with a repeated identity in the list.
RolesForRepeated(id) ==
    (id :> "H1") @@ (Others(id)[1] :> "H2") @@ (Others(id)[1] :> "H3")

\* Variant of the role assignment with right and left exchanged.
RolesForMirrored(id) ==
    (id :> "H1") @@ (Others(id)[2] :> "H2") @@ (Others(id)[1] :> "H3")

\* RoleAssignment::try_from([(id, H1), (right, H2), (left, H3)]).
RolesFor(id) ==
    (id :> "H1") @@ (Others(id)[1] :> "H2") @@ (Others(id)[2] :> "H3")

\* Role::peer: the role to the right and to the left of a role, and the
\* helper that holds a role under an assignment.
RoleRight == ("H1" :> "H2") @@ ("H2" :> "H3") @@ ("H3" :> "H1")
RoleLeft == ("H1" :> "H3") @@ ("H2" :> "H1") @@ ("H3" :> "H2")
Holder(roles, role) == CHOOSE h \in Helpers : roles[h] = role

=============================================================================

--------------------------- MODULE QueryLifecycle ---------------------------
(***************************************************************************)
(* What the registry of each helper promises, whatever its callers do: the *)
(* status of the query only moves along the given steps.  Section 3 of the *)
(* specification states it ("transitions are a total order ...  any other  *)
(* transition fails with InvalidState"); the set of steps is a parameter,  *)
(* so that the same statement can be made of the total order and of the    *)
(* order the code follows.                                                 *)
(***************************************************************************)
CONSTANTS
    Helpers,    \* the helpers, each with a registry of its own
    Steps       \* the pairs << from, to >> a status may move along

VARIABLE status \* status[h]: the name of the state of the query on h

Init == status = [h \in Helpers |-> "Empty"]

Advance(h) ==
    \E step \in Steps :
        /\ status[h] = step[1]
        /\ status' = [status EXCEPT ![h] = step[2]]

Next == \E h \in Helpers : Advance(h)

Spec == Init /\ [][Next]_status

=============================================================================

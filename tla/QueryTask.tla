------------------------------ MODULE QueryTask ------------------------------
(***************************************************************************)
(* What the run of a query promises the processors that await it.  Each    *)
(* helper runs one task; the tasks exchange shares around the ring, every  *)
(* helper sending to its right and taking from its left.  A task ends with *)
(* a result or with an error (section 7 of the specification: a protocol   *)
(* error is fatal for the query), and                                      *)
(*   - no task ends with a result once the task to its left has failed;    *)
(*   - no task fails once the task to its right has its result.            *)
(* Nothing is promised of a task whose left neighbour has failed: it may   *)
(* wait for ever.                                                          *)
(***************************************************************************)
CONSTANT Helpers    \* the helpers, each with a task of its own

VARIABLES
    task,       \* task[h]: "running", "done" or "failed"
    leftOf      \* leftOf[h]: the helper whose shares h takes

Init ==
    /\ task = [h \in Helpers |-> "running"]
    /\ leftOf \in [Helpers -> Helpers]

\* The task of h can still end with a result: the task to its left has
\* not failed.
MayFinish(h) ==
    /\ task[h] = "running"
    /\ task[leftOf[h]] # "failed"

\* The task of h can still fail: no task that takes its shares has its
\* result.
MayFail(h) ==
    /\ task[h] = "running"
    /\ \A g \in Helpers : task[g] = "done" => leftOf[g] # h

Finish(h) ==
    /\ MayFinish(h)
    /\ task' = [task EXCEPT ![h] = "done"]
    /\ UNCHANGED leftOf

Fail(h) ==
    /\ MayFail(h)
    /\ task' = [task EXCEPT ![h] = "failed"]
    /\ UNCHANGED leftOf

Next == \E h \in Helpers : Finish(h) \/ Fail(h)

Spec == Init /\ [][Next]_<< task, leftOf >>

=============================================================================

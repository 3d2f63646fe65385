----------------------------- MODULE QueryState -----------------------------
(***************************************************************************)
(* The running-queries registry of one helper: the variants of QueryState, *)
(* the transition relation that set_state enforces and the QueryStatus     *)
(* projection that status() returns.                                       *)
(*                                                                         *)
(* The registry (query/state.rs) is not among the source files; this       *)
(* module follows sections 3 and 4.4 of the specification, and the tests   *)
(* of processor.rs where they pin the behaviour down (prepare::happy_case  *)
(* observes Empty -> AwaitingInputs).                                      *)
(*                                                                         *)
(* QueryId is a unit struct in the source (let query_id = QueryId), so a   *)
(* registry holds at most one entry and a state value stands for the whole *)
(* map: EmptyState is the absent key.                                      *)
(***************************************************************************)
EXTENDS Naturals

\* The variants of QueryState.  A gateway is represented by the role
\* assignment it was built with; the completion handle of Running lives in
\* the executor, not in the registry value.
EmptyState == [state |-> "Empty"]
Preparing(config) == [state |-> "Preparing", config |-> config]
AwaitingInputs(config, gateway) ==
    [state |-> "AwaitingInputs", config |-> config, gateway |-> gateway]
Running == [state |-> "Running"]
AwaitingCompletion == [state |-> "AwaitingCompletion"]

\* The order of a query's life as section 3 of the specification gives it.
LifecycleOrder ==
    << "Empty", "Preparing", "AwaitingInputs", "Running",
       "AwaitingCompletion", "Completed" >>

\* The steps of the total order of section 3: each state to its successor.
TotalOrderSteps ==
    { << LifecycleOrder[i], LifecycleOrder[i + 1] >> :
        i \in DOMAIN LifecycleOrder \ {6} }

\* The steps a registry entry really takes: the total order, and the
\* follower's intake, which registers a query as AwaitingInputs directly.
LifecycleSteps == TotalOrderSteps \cup { << "Empty", "AwaitingInputs" >> }

\* QueryState::transition: the verdict of set_state(new) on an entry `cur`.
\* A second Preparing is AlreadyRunning, every other illegal step is
\* InvalidState{from, to}.
Transition(cur, new) ==
    CASE << cur.state, new.state >> \in LifecycleSteps -> "Ok"
      [] new.state = "Preparing"                       -> "AlreadyRunning"
      [] OTHER                                         -> "InvalidState"

\* QueryStatus::from and handle.status(): None for the absent key, the
\* variant's name otherwise.
StatusOf(entry) == IF entry = EmptyState THEN "None" ELSE entry.state

=============================================================================

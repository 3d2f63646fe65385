------------------------------ MODULE Processor ------------------------------
(***************************************************************************)
(* The query processors of the three helpers (query/processor.rs) and the  *)
(* prepare handshake that the coordinator runs over the transport          *)
(* (helpers/transport/mod.rs).                                             *)
(*                                                                         *)
(* Every step is one lock scope of the registry or one stretch of code     *)
(* between two await points:                                               *)
(*   new_query      NewQueryAccepted / NewQueryRejected  (to the try_join) *)
(*                  NewQueryFail / NewQueryFinish        (after it)        *)
(*   Transport      DeliverPrepare, ConnectionBreaks                       *)
(*   prepare        PrepareRejected / PrepareSuspended   (to the await)    *)
(*                  PrepareCommit                        (after it)        *)
(*   receive_inputs ReceiveInputsStarted / ...Invalid / ...NoSuchQuery     *)
(*   complete       CompleteTaken / ...Invalid / ...NoSuchQuery,           *)
(*                  CompleteReturn                       (after the await) *)
(* A caller may drop the future of new_query or of complete at its await   *)
(* (a deadline around the call): NewQueryDropped, CompleteDropped.         *)
(* The executor that receive_inputs starts is an external collaborator and *)
(* is reduced to a task per helper that ends as module QueryTask says,     *)
(* once all three helpers run the same query.                              *)
(***************************************************************************)
EXTENDS Naturals, FiniteSets, TLC, QueryState, Ring

CONSTANTS
    Configs,            \* the QueryConfig values a report collector may submit
    Calls,              \* the invocations of new_query that may be made
    MaxDirectPrepares,  \* bound on prepare() calls not made by a coordinator
    TransportFaults,    \* TRUE when a send may fail with an io::Error
    TaskFaults,         \* TRUE when a query task may end with an error
    Cancellation        \* TRUE when a caller may drop a future it awaits

ASSUME
    /\ MaxDirectPrepares \in Nat
    /\ TransportFaults \in BOOLEAN
    /\ TaskFaults \in BOOLEAN
    /\ Cancellation \in BOOLEAN

VARIABLES
    queries,     \* queries[h]: the entry of QueryId in the registry of h
    calls,       \* calls[c]: where the new_query future c stands
    network,     \* prepare requests handed to the transport, not yet delivered
    prepares,    \* prepare() futures suspended at Gateway::new(..).await
    executor,    \* executor[h]: the query task behind the Running handle of h
    completing,  \* completing[h]: complete() on h is awaiting the handle
    direct       \* number of direct prepare() calls made so far

vars == << queries, calls, network, prepares, executor, completing, direct >>

-----------------------------------------------------------------------------
(* Requests *)

NoCall == "NoCall"
NoRequest == [absent |-> TRUE]

PrepareQuery(config, roles) == [config |-> config, roles |-> roles]

Requests == [config : Configs, roles : RoleAssignments]

\* The requests a coordinator builds: one per config and coordinator.
CoordinatorRequests ==
    { PrepareQuery(config, RolesFor(id)) : config \in Configs, id \in Helpers }

\* The outcomes of the four operations that the model distinguishes.
NewQueryResults ==
    { "Ok", "AlreadyRunning", "InvalidState", "Transport", "OneshotRecv" }

-----------------------------------------------------------------------------
(* State *)

QueryStates ==
    [state : {"Empty"}]
        \cup [state : {"Preparing"}, config : Configs]
        \cup [state : {"AwaitingInputs"}, config : Configs,
              gateway : RoleAssignments]
        \cup [state : {"Running", "AwaitingCompletion"}]

CallStates ==
    [pc : {"idle"}]
        \cup [pc : {"joining"}, helper : Helpers, req : Requests,
              acks : [Helpers -> {"none", "pending", "ok", "err"}]]
        \cup [pc : {"dropped"}, helper : Helpers, req : Requests]
        \cup [pc : {"done"}, helper : Helpers, req : Requests \cup {NoRequest},
              result : NewQueryResults]

Messages == [call : Calls, to : Helpers, req : Requests]

PrepareTasks == [at : Helpers, req : Requests, caller : Calls \cup {NoCall}]

ExecutorStates ==
    [phase : {"none"}]
        \cup [phase : {"running", "done", "failed", "drained"}, config : Configs,
              gateway : RoleAssignments]

Init ==
    /\ queries = [h \in Helpers |-> EmptyState]
    /\ calls = [c \in Calls |-> [pc |-> "idle"]]
    /\ network = {}
    /\ prepares = {}
    /\ executor = [h \in Helpers |-> [phase |-> "none"]]
    /\ completing = [h \in Helpers |-> FALSE]
    /\ direct = 0

\* Processor::status.
Status(h) == StatusOf(queries[h])

\* handle.set_state(new): the registry after the call; the entry is
\* replaced only when the transition is legal.
SetState(h, new) ==
    [queries EXCEPT ![h] = IF Transition(@, new) = "Ok" THEN new ELSE @]

Joining(c) == calls[c].pc = "joining"

\* Futures that hold a shared borrow of the processor of h.
Borrowed(h) ==
    \/ \E c \in Calls : Joining(c) /\ calls[c].helper = h
    \/ \E p \in prepares : p.at = h

\* complete takes &mut self: while it awaits the handle no other method of
\* that processor can run.
Free(h) == ~completing[h]

-----------------------------------------------------------------------------
(* new_query, up to the first poll of try_join *)

\* set_state(Preparing) succeeds; the roles are assigned, the request is
\* built and both sends are started.
NewQueryAccepted(c, h, config) ==
    /\ calls[c].pc = "idle"
    /\ Free(h)
    /\ Transition(queries[h], Preparing(config)) = "Ok"
    /\ queries' = SetState(h, Preparing(config))
    /\ LET req == PrepareQuery(config, RolesFor(h)) IN
         /\ calls' = [calls EXCEPT ![c] =
                [pc |-> "joining", helper |-> h, req |-> req,
                 acks |-> [d \in Helpers |->
                             IF d \in Peers(h) THEN "pending" ELSE "none"]]]
         /\ network' = network \cup
                { [call |-> c, to |-> d, req |-> req] : d \in Peers(h) }
    /\ UNCHANGED << prepares, executor, completing, direct >>

\* set_state(Preparing) fails and `?` returns NewQueryError::State.
NewQueryRejected(c, h, config) ==
    /\ calls[c].pc = "idle"
    /\ Free(h)
    /\ Transition(queries[h], Preparing(config)) # "Ok"
    /\ calls' = [calls EXCEPT ![c] =
            [pc |-> "done", helper |-> h, req |-> NoRequest,
             result |-> Transition(queries[h], Preparing(config))]]
    /\ UNCHANGED << queries, network, prepares, executor, completing, direct >>

-----------------------------------------------------------------------------
(* Transport::send of a PrepareQuery, and prepare on the receiving helper *)

\* The acknowledgement of `from` reaches the send future of call c, if that
\* future still waits for it.
Answered(c, from, verdict) ==
    IF c \in Calls /\ Joining(c) /\ calls[c].acks[from] = "pending"
    THEN [calls EXCEPT ![c].acks[from] = verdict]
    ELSE calls

\* Variant of the intake check without the test of the helper's own role.
PrepareVerdictAnyRole(f, req) ==
    IF Status(f) # "None" THEN "AlreadyRunning" ELSE "Proceed"

\* The two early returns of prepare.
PrepareVerdict(f, req) ==
    CASE req.roles[f] = "H1"     -> "WrongTarget"
      [] Status(f) # "None"      -> "AlreadyRunning"
      [] OTHER                   -> "Proceed"

\* Variant of the rejection in which the error is swallowed and the peer
\* that sent the request is never told.
PrepareRejectedSilently(f, req, caller) ==
    /\ PrepareVerdict(f, req) # "Proceed"
    /\ UNCHANGED << queries, calls, prepares, executor, completing >>

\* prepare returns an error before it touches the registry; the peer that
\* sent the request gets a negative acknowledgement.
PrepareRejected(f, req, caller) ==
    /\ PrepareVerdict(f, req) # "Proceed"
    /\ calls' = Answered(caller, f, "err")
    /\ UNCHANGED << queries, prepares, executor, completing >>

\* prepare passes both checks and suspends while the gateway is built.
PrepareSuspended(f, req, caller) ==
    /\ PrepareVerdict(f, req) = "Proceed"
    /\ prepares' = prepares \cup { [at |-> f, req |-> req, caller |-> caller] }
    /\ UNCHANGED << queries, calls, executor, completing >>

\* The transport hands a request to its destination, which runs prepare.
DeliverPrepare(m) ==
    /\ m \in network
    /\ Free(m.to)
    /\ network' = network \ {m}
    /\ \/ PrepareRejected(m.to, m.req, m.call)
       \/ PrepareSuspended(m.to, m.req, m.call)
    /\ UNCHANGED direct

\* prepare called on f by something other than a send of this model's
\* coordinators (the tests of processor.rs call it with a request of their
\* own making; on the wire it is a repeated or a stray PrepareQuery).  The
\* request may name f itself as H1.
DirectPrepare(f, req) ==
    /\ direct < MaxDirectPrepares
    /\ Free(f)
    /\ direct' = direct + 1
    /\ \/ PrepareRejected(f, req, NoCall)
       \/ PrepareSuspended(f, req, NoCall)
    /\ UNCHANGED network

\* Variant of prepare that acknowledges whatever set_state returned.
PrepareCommitAcksAlways(p) ==
    /\ p \in prepares
    /\ Free(p.at)
    /\ queries' = SetState(p.at, AwaitingInputs(p.req.config, p.req.roles))
    /\ calls' = Answered(p.caller, p.at, "ok")
    /\ prepares' = prepares \ {p}
    /\ UNCHANGED << network, executor, completing, direct >>

\* prepare resumes with the gateway and registers the query; the result of
\* set_state is the acknowledgement.
PrepareCommit(p) ==
    /\ p \in prepares
    /\ Free(p.at)
    /\ LET new == AwaitingInputs(p.req.config, p.req.roles) IN
         /\ queries' = SetState(p.at, new)
         /\ calls' = Answered(p.caller, p.at,
                IF Transition(queries[p.at], new) = "Ok" THEN "ok" ELSE "err")
    /\ prepares' = prepares \ {p}
    /\ UNCHANGED << network, executor, completing, direct >>

\* send fails although the peer did not reject: the destination is
\* unreachable (the request is lost) or the connection breaks before the
\* acknowledgement (the request may still arrive).
ConnectionBreaks(c, d) ==
    /\ TransportFaults
    /\ Joining(c)
    /\ calls[c].acks[d] = "pending"
    /\ calls' = [calls EXCEPT ![c].acks[d] = "err"]
    /\ network' \in
         { network, network \ { [call |-> c, to |-> d, req |-> calls[c].req] } }
    /\ UNCHANGED << queries, prepares, executor, completing, direct >>

-----------------------------------------------------------------------------
(* new_query, after try_join *)

\* Variant of the join that resolves on the first acknowledgement.
AnyAcked(c) == \E d \in Peers(calls[c].helper) : calls[c].acks[d] = "ok"

\* try_join resolves Ok: both peers acknowledged.
BothAcked(c) == \A d \in Peers(calls[c].helper) : calls[c].acks[d] = "ok"

\* Variant of the join that waits for both sends before it reports an error.
NewQueryFailAfterBoth(c) ==
    /\ Joining(c)
    /\ \E d \in Peers(calls[c].helper) : calls[c].acks[d] = "err"
    /\ \A d \in Peers(calls[c].helper) : calls[c].acks[d] # "pending"
    /\ calls' = [calls EXCEPT ![c] =
            [pc |-> "done", helper |-> calls[c].helper, req |-> calls[c].req,
             result |-> "Transport"]]
    /\ network' \in { network, { m \in network : m.call # c } }
    /\ UNCHANGED << queries, prepares, executor, completing, direct >>

\* try_join resolves Err as soon as one send failed; the other send future
\* is dropped, and a request it had not delivered yet may or may not arrive.
\* The registry keeps Preparing.
NewQueryFail(c) ==
    /\ Joining(c)
    /\ \E d \in Peers(calls[c].helper) : calls[c].acks[d] = "err"
    /\ calls' = [calls EXCEPT ![c] =
            [pc |-> "done", helper |-> calls[c].helper, req |-> calls[c].req,
             result |-> "Transport"]]
    /\ network' \in { network, { m \in network : m.call # c } }
    /\ UNCHANGED << queries, prepares, executor, completing, direct >>

\* Variant of the drop that takes the entry out of the registry again.
NewQueryDroppedRollsBack(c) ==
    /\ Cancellation
    /\ Joining(c)
    /\ calls' = [calls EXCEPT ![c] =
            [pc |-> "dropped", helper |-> calls[c].helper, req |-> calls[c].req]]
    /\ queries' = [queries EXCEPT ![calls[c].helper] = EmptyState]
    /\ network' \in { network, { m \in network : m.call # c } }
    /\ UNCHANGED << prepares, executor, completing, direct >>

\* The caller drops the future while it awaits try_join: both send futures
\* go with it, a request not delivered yet may or may not arrive, and no
\* line after the await runs.  The registry keeps Preparing.
NewQueryDropped(c) ==
    /\ Cancellation
    /\ Joining(c)
    /\ calls' = [calls EXCEPT ![c] =
            [pc |-> "dropped", helper |-> calls[c].helper, req |-> calls[c].req]]
    /\ network' \in { network, { m \in network : m.call # c } }
    /\ UNCHANGED << queries, prepares, executor, completing, direct >>

\* The gateway is built and set_state(AwaitingInputs) decides the result.
NewQueryFinish(c) ==
    /\ Joining(c)
    /\ BothAcked(c)
    /\ LET h == calls[c].helper
           new == AwaitingInputs(calls[c].req.config, calls[c].req.roles)
       IN /\ queries' = SetState(h, new)
          /\ calls' = [calls EXCEPT ![c] =
                [pc |-> "done", helper |-> h, req |-> calls[c].req,
                 result |-> Transition(queries[h], new)]]
    /\ UNCHANGED << network, prepares, executor, completing, direct >>

-----------------------------------------------------------------------------
(* receive_inputs: one lock scope *)

\* Variant in which the entry that was removed is not put back as Running:
\* the task runs and the registry has forgotten the query.
ReceiveInputsStartedDropsEntry(h) ==
    /\ Free(h)
    /\ queries[h].state = "AwaitingInputs"
    /\ queries' = [queries EXCEPT ![h] = EmptyState]
    /\ executor' = [executor EXCEPT ![h] =
            [phase |-> "running", config |-> queries[h].config,
             gateway |-> queries[h].gateway]]
    /\ UNCHANGED << calls, network, prepares, completing, direct >>

\* The entry is AwaitingInputs: the executor is started with its config and
\* gateway and the entry becomes Running.
ReceiveInputsStarted(h) ==
    /\ Free(h)
    /\ queries[h].state = "AwaitingInputs"
    /\ queries' = [queries EXCEPT ![h] = Running]
    /\ executor' = [executor EXCEPT ![h] =
            [phase |-> "running", config |-> queries[h].config,
             gateway |-> queries[h].gateway]]
    /\ UNCHANGED << calls, network, prepares, completing, direct >>

\* The entry is in another state: it is removed, found wrong and put back.
ReceiveInputsInvalid(h) ==
    /\ Free(h)
    /\ queries[h].state \notin { "Empty", "AwaitingInputs" }
    /\ queries' = [queries EXCEPT ![h] = @]
    /\ UNCHANGED << calls, network, prepares, executor, completing, direct >>

\* There is no entry.
ReceiveInputsNoSuchQuery(h) ==
    /\ Free(h)
    /\ queries[h].state = "Empty"
    /\ UNCHANGED vars

-----------------------------------------------------------------------------
(* complete: one lock scope, then the await of the handle *)

\* The entry is Running: it becomes AwaitingCompletion and the handle is
\* taken out.  &mut self: no other future borrows the processor.
CompleteTaken(h) ==
    /\ Free(h)
    /\ ~Borrowed(h)
    /\ queries[h].state = "Running"
    /\ queries' = [queries EXCEPT ![h] = AwaitingCompletion]
    /\ completing' = [completing EXCEPT ![h] = TRUE]
    /\ UNCHANGED << calls, network, prepares, executor, direct >>

\* Variant that leaves the removed entry out of the map on the error path.
CompleteInvalidDropsEntry(h) ==
    /\ Free(h)
    /\ ~Borrowed(h)
    /\ queries[h].state \notin { "Empty", "Running" }
    /\ queries' = [queries EXCEPT ![h] = EmptyState]
    /\ UNCHANGED << calls, network, prepares, executor, completing, direct >>

\* The entry is in another state: it is put back and InvalidState returned.
CompleteInvalid(h) ==
    /\ Free(h)
    /\ ~Borrowed(h)
    /\ queries[h].state \notin { "Empty", "Running" }
    /\ queries' = [queries EXCEPT ![h] = @]
    /\ UNCHANGED << calls, network, prepares, executor, completing, direct >>

\* There is no entry.
CompleteNoSuchQuery(h) ==
    /\ Free(h)
    /\ ~Borrowed(h)
    /\ queries[h].state = "Empty"
    /\ UNCHANGED vars

\* The caller drops the future while it awaits the handle.  The handle had
\* been taken out of the registry and goes with the future; the entry keeps
\* AwaitingCompletion.
CompleteDropped(h) ==
    /\ Cancellation
    /\ completing[h]
    /\ completing' = [completing EXCEPT ![h] = FALSE]
    /\ UNCHANGED << queries, calls, network, prepares, executor, direct >>

\* handle.await resolves to the error of the task and unwrap panics.
CompletePanics(h) ==
    /\ completing[h]
    /\ executor[h].phase = "failed"
    /\ completing' = [completing EXCEPT ![h] = FALSE]
    /\ UNCHANGED << queries, calls, network, prepares, executor, direct >>

\* handle.await resolves and complete returns the result.
CompleteReturn(h) ==
    /\ completing[h]
    /\ executor[h].phase = "done"
    /\ completing' = [completing EXCEPT ![h] = FALSE]
    /\ executor' = [executor EXCEPT ![h].phase = "drained"]
    /\ UNCHANGED << queries, calls, network, prepares, direct >>

-----------------------------------------------------------------------------
(* The executor *)

\* The helper whose shares the task of h takes, by the roles of the gateway
\* the task was started with.
TaskLeft(h) ==
    Holder(executor[h].gateway, RoleLeft[executor[h].gateway[h]])

\* The executor is not among the sources.  Of the tasks it starts the
\* processor relies on what module QueryTask promises, and on nothing else;
\* SecureMul is shown to keep that promise.
TaskOf(h) ==
    CASE executor[h].phase \in { "done", "drained" } -> "done"
      [] executor[h].phase = "failed"                -> "failed"
      [] OTHER                                       -> "running"

QueryRun ==
    INSTANCE QueryTask
        WITH task <- [h \in Helpers |-> TaskOf(h)],
             leftOf <- [h \in Helpers |-> TaskLeft(h)]

\* The query task of h ends with its result.  The protocol it runs exchanges
\* shares with both peers, so it can end only when all three helpers have
\* started the same query.
ExecutorFinish(h) ==
    /\ executor[h].phase = "running"
    /\ \A d \in Helpers :
         /\ executor[d].phase # "none"
         /\ executor[d].config = executor[h].config
         /\ executor[d].gateway = executor[h].gateway
    /\ QueryRun!MayFinish(h)
    /\ executor' = [executor EXCEPT ![h].phase = "done"]
    /\ UNCHANGED << queries, calls, network, prepares, completing, direct >>

\* The query task of h ends with an error.
ExecutorFails(h) ==
    /\ TaskFaults
    /\ executor[h].phase = "running"
    /\ QueryRun!MayFail(h)
    /\ executor' = [executor EXCEPT ![h].phase = "failed"]
    /\ UNCHANGED << queries, calls, network, prepares, completing, direct >>

-----------------------------------------------------------------------------

Next ==
    \/ \E c \in Calls, h \in Helpers, config \in Configs :
         \/ NewQueryAccepted(c, h, config)
         \/ NewQueryRejected(c, h, config)
    \/ \E m \in network : DeliverPrepare(m)
    \/ \E f \in Helpers, req \in CoordinatorRequests : DirectPrepare(f, req)
    \/ \E p \in prepares : PrepareCommit(p)
    \/ \E c \in Calls, d \in Helpers : ConnectionBreaks(c, d)
    \/ \E c \in Calls : NewQueryFail(c) \/ NewQueryFinish(c) \/ NewQueryDropped(c)
    \/ \E h \in Helpers :
         \/ ReceiveInputsStarted(h)
         \/ ReceiveInputsInvalid(h)
         \/ ReceiveInputsNoSuchQuery(h)
         \/ CompleteTaken(h)
         \/ CompleteInvalid(h)
         \/ CompleteNoSuchQuery(h)
         \/ CompleteReturn(h)
         \/ CompletePanics(h)
         \/ CompleteDropped(h)
         \/ ExecutorFinish(h)
         \/ ExecutorFails(h)

Spec == Init /\ [][Next]_vars

-----------------------------------------------------------------------------
(* Properties *)

TypeOK ==
    /\ queries \in [Helpers -> QueryStates]
    /\ calls \in [Calls -> CallStates]
    /\ network \subseteq Messages
    /\ prepares \subseteq PrepareTasks
    /\ executor \in [Helpers -> ExecutorStates]
    /\ completing \in [Helpers -> BOOLEAN]
    /\ direct \in 0 .. MaxDirectPrepares

\* The request a helper is set up for: the config and the roles of the
\* gateway held by its AwaitingInputs entry or, later, by its executor.
Installed(h) ==
    CASE queries[h].state = "AwaitingInputs" ->
             PrepareQuery(queries[h].config, queries[h].gateway)
      [] executor[h].phase # "none" ->
             PrepareQuery(executor[h].config, executor[h].gateway)
      [] OTHER -> NoRequest

Succeeded(c) == calls[c].pc = "done" /\ calls[c].result = "Ok"

\* When new_query has returned Ok, all three helpers are set up for the
\* request it returned: the coordinator registered the query only after
\* both followers had registered it with the same config and roles
\* (try_join waits for both acknowledgements before set_state).
HandshakeComplete ==
    \A c \in Calls :
        Succeeded(c) => \A h \in Helpers : Installed(h) = calls[c].req

\* A positive acknowledgement is backed by the registry of the peer that
\* gave it: while new_query waits in try_join, every follower whose send
\* has resolved Ok is set up for exactly the request that was sent, also
\* when several prepare calls were suspended on that follower at once and
\* only the first of them could register (prepare returns the error of
\* set_state instead of Ok).
AckMeansRegistered ==
    \A c \in Calls, d \in Helpers :
        Joining(c) /\ calls[c].acks[d] = "ok" => Installed(d) = calls[c].req

\* A helper holds a gateway in which it is H1 itself only through a
\* new_query of its own that returned Ok: prepare answers WrongTarget to a
\* request that names the receiver as coordinator, and leaves the registry
\* alone, however the request reached it.
CoordinatorOnlyByNewQuery ==
    \A h \in Helpers :
        Installed(h) # NoRequest /\ Installed(h).roles[h] = "H1"
            => \E c \in Calls :
                   Succeeded(c) /\ calls[c].helper = h /\ calls[c].req = Installed(h)

\* Helpers that are set up for a query are set up for the same one: no two
\* of them hold gateways built from different role assignments or run
\* different configs.  prepare checks that no query is registered
\* (handle.status().is_some()) before it registers one, which is meant to
\* keep a second coordinator's request out.
RoleAgreement ==
    \A g, h \in Helpers :
        Installed(g) # NoRequest /\ Installed(h) # NoRequest
            => Installed(g) = Installed(h)

\* A new_query that failed in the transport can be tried again: the
\* specification leaves the state at Preparing when a send fails and lets
\* "callers retry with a fresh new_query call", so the registry of the
\* helper must accept set_state(Preparing) once more.
FailedQueryCanBeRetried ==
    \A c \in Calls, config \in Configs :
        calls[c].pc = "done" /\ calls[c].result = "Transport"
            => Transition(queries[calls[c].helper], Preparing(config)) = "Ok"

\* A helper holds on to the results of its query until it is asked for them
\* (the description of Processor in processor.rs): while the task of a
\* helper is done and its result has not been returned, the handle is in
\* the registry, or a complete that was called awaits it.
ResultsHeldUntilAsked ==
    \A h \in Helpers :
        executor[h].phase = "done" =>
            queries[h].state = "Running" \/ completing[h]

\* Of the new_query calls made on one processor, at most one gets past
\* set_state(Preparing); every other returns AlreadyRunning.  The error
\* paths of receive_inputs and complete, which take the entry out of the
\* map, must put it back for this to hold, and a new_query whose future is
\* dropped at try_join must leave its Preparing entry where it is.
SingleQueryPerHelper ==
    \A c, d \in Calls :
        /\ c # d
        /\ calls[c].pc # "idle" /\ calls[d].pc # "idle"
        /\ calls[c].helper = calls[d].helper
        => "AlreadyRunning" \in
               { calls[x].result : x \in { y \in {c, d} : calls[y].pc = "done" } }

\* The registry of every helper only moves along the steps of the query
\* lifecycle, one helper at a time: new_query, prepare, receive_inputs and
\* complete, interleaved in any order and with their error paths taken,
\* never skip a state, go back, or drop a registered query.
Lifecycle ==
    INSTANCE QueryLifecycle
        WITH status <- [h \in Helpers |-> queries[h].state],
             Steps <- LifecycleSteps

ImplementsLifecycle == Lifecycle!Spec

\* The registry of every helper moves along the total order that section 3
\* of the specification gives, Empty -> Preparing -> AwaitingInputs ->
\* Running -> AwaitingCompletion -> Completed, and along no other step
\* ("any other transition fails with InvalidState", "including
\* transitioning from Empty except to Preparing").
TotalOrder ==
    INSTANCE QueryLifecycle
        WITH status <- [h \in Helpers |-> queries[h].state],
             Steps <- TotalOrderSteps

ImplementsTotalOrder == TotalOrder!Spec

=============================================================================

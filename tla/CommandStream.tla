---------------------------- MODULE CommandStream ----------------------------
(***************************************************************************)
(* The processors of the three helpers driven through handle_next          *)
(* (query/processor.rs), the way the end-to-end tests drive them: commands *)
(* are delivered to a helper's command stream, handle_next takes the next  *)
(* one, runs the operation it names to its end and sends the reply.        *)
(*                                                                         *)
(* handle_next takes &mut self, so a helper is at one command at a time:   *)
(* while new_query awaits its acknowledgements, or complete the executor,  *)
(* the commands behind it wait in the stream.  Every result is unwrapped:  *)
(* an operation that returns an error panics the task, the processor and   *)
(* its stream are dropped, and with them the reply channels of the         *)
(* commands that were queued.  The end-to-end tests ask for the results    *)
(* without a command: they call complete on the processor and unwrap.      *)
(*                                                                         *)
(* The operations themselves are the actions of Processor; this module     *)
(* adds what handle_next does around them.  A PrepareQuery that the        *)
(* transport carries becomes a Prepare command of the destination, and its *)
(* reply is the acknowledgement that Transport::send waits for.            *)
(***************************************************************************)
EXTENDS Processor, Sequences

CONSTANTS
    ExternalKinds,  \* the kinds of command, besides Create, that are delivered
    MaxExternal,    \* bound on the number of such commands
    Orderly,        \* TRUE when commands arrive in the order of the e2e tests
    CollectorLeaves \* TRUE when a collector may drop the receiver of a reply

ASSUME
    /\ ExternalKinds \subseteq { "Input", "Results", "StepData" }
    /\ MaxExternal \in Nat
    /\ Orderly \in BOOLEAN
    /\ CollectorLeaves \in BOOLEAN

VARIABLES
    stream,     \* stream[h]: the commands delivered to h and not yet taken
    panicked,   \* panicked[h]: the task that owns the processor of h has
                \* panicked, in handle_next or at the unwrap of complete
    external,   \* number of Input, Results and StepData commands delivered
    sent        \* sent[h]: the kinds of command delivered to h so far

streamVars == << stream, panicked, external, sent >>
allVars == << vars, streamVars >>

-----------------------------------------------------------------------------
(* Commands *)

\* QueryCommand::Create, Prepare, Input and Results, and
\* TransportCommand::StepData.  The reply channel of a Create is the call it
\* belongs to, that of a Prepare the call whose send waits for it.
Create(c, config) == [kind |-> "Create", call |-> c, config |-> config]
Prepare(c, req) == [kind |-> "Prepare", call |-> c, req |-> req]
ExternalCommands == [kind : ExternalKinds]

Commands ==
    [kind : {"Create"}, call : Calls, config : Configs]
        \cup [kind : {"Prepare"}, call : Calls, req : Requests]
        \cup ExternalCommands

Queued(h) == { stream[h][i] : i \in DOMAIN stream[h] }

\* A Create for call c has been delivered somewhere.
Submitted(c) ==
    \/ calls[c].pc # "idle"
    \/ \E h \in Helpers :
         \E cmd \in Queued(h) : cmd.kind = "Create" /\ cmd.call = c

StreamInit ==
    /\ Init
    /\ stream = [h \in Helpers |-> << >>]
    /\ panicked = [h \in Helpers |-> FALSE]
    /\ external = 0
    /\ sent = [h \in Helpers |-> {}]

-----------------------------------------------------------------------------
(* Delivery of commands to a helper's stream *)

Deliver(h, cmd) == stream' = [stream EXCEPT ![h] = Append(@, cmd)]

\* The order in which the end-to-end tests deliver commands: one query; the
\* inputs of a helper once the Create has been answered; the request for
\* the results of a helper after its inputs, asked for once, with a
\* command or, after every helper has taken its inputs, with a call.
InOrder(h, kind) ==
    CASE kind = "Create"   -> \A c \in Calls : ~Submitted(c)
      [] kind = "Input"    -> /\ \E c \in Calls : Succeeded(c)
                              /\ "Input" \notin sent[h]
      [] kind = "Results"  -> /\ "Input" \in sent[h]
                              /\ "Results" \notin sent[h]
                              /\ queries[h].state # "AwaitingCompletion"
      [] kind = "Complete" -> /\ "Results" \notin sent[h]
                              /\ \A d \in Helpers :
                                   queries[d].state \in
                                       { "Running", "AwaitingCompletion" }
      [] OTHER             -> FALSE

\* A report collector submits a query to helper h.
DeliverCreate(c, h, config) ==
    /\ ~Submitted(c)
    /\ ~panicked[h]
    /\ Orderly => InOrder(h, "Create")
    /\ Deliver(h, Create(c, config))
    /\ UNCHANGED << vars, panicked, external, sent >>

\* A collector, or a peer, delivers an Input, a Results or a StepData
\* command.
DeliverExternal(h, cmd) ==
    /\ external < MaxExternal
    /\ ~panicked[h]
    /\ Orderly => InOrder(h, cmd.kind)
    /\ external' = external + 1
    /\ sent' = [sent EXCEPT ![h] = @ \cup {cmd.kind}]
    /\ Deliver(h, cmd)
    /\ UNCHANGED << vars, panicked >>

\* The transport hands the request of a coordinator to its destination.  A
\* helper whose processor is gone refuses it.
DeliverPrepareCommand(m) ==
    /\ m \in network
    /\ network' = network \ {m}
    /\ IF panicked[m.to]
       THEN calls' = Answered(m.call, m.to, "err") /\ UNCHANGED stream
       ELSE Deliver(m.to, Prepare(m.call, m.req)) /\ UNCHANGED calls
    /\ UNCHANGED << queries, prepares, executor, completing, direct,
                    panicked, external, sent >>

-----------------------------------------------------------------------------
(* handle_next *)

\* Variant of the guard for a handle_next that is started for every command,
\* without waiting for the one before it.
ReadyWhileBusy(h) == ~panicked[h] /\ stream[h] # << >>

\* handle_next can take a command: the operation of the last one has
\* returned (&mut self), the task has not panicked and the stream holds a
\* command.  On a stream that was closed next() yields None and handle_next
\* returns without a step; the transport of the model outlives the helpers.
Ready(h) ==
    /\ ~Borrowed(h) /\ ~completing[h]
    /\ ~panicked[h]
    /\ stream[h] # << >>

\* command_stream.next() yields a command and its operation suspends at an
\* await.
Begins(h) ==
    /\ stream' = [stream EXCEPT ![h] = Tail(@)]
    /\ UNCHANGED << panicked, external, sent >>

\* command_stream.next() yields a command and its operation returns at
\* once: unwrap() passes an Ok and panics on an Err.
Runs(h, ok) ==
    /\ stream' = [stream EXCEPT ![h] = Tail(@)]
    /\ panicked' = [panicked EXCEPT ![h] = ~ok]
    /\ UNCHANGED << external, sent >>

\* The suspended operation returns: the reply is sent, or unwrap() panics.
Returns(h, ok) ==
    /\ panicked' = [panicked EXCEPT ![h] = ~ok]
    /\ UNCHANGED << stream, external, sent >>

NextCommand(h) == Head(stream[h])

\* resp.send(..).unwrap() on the reply channel of a collector: the send
\* finds its receiver, or the collector has dropped it by then and the
\* unwrap panics.
ReplyHeard == IF CollectorLeaves THEN BOOLEAN ELSE { TRUE }

\* QueryCommand::Create: new_query(req).await.unwrap().
HandleCreate(h) ==
    /\ Ready(h)
    /\ NextCommand(h).kind = "Create"
    /\ LET c == NextCommand(h).call
           config == NextCommand(h).config
       IN \/ NewQueryAccepted(c, h, config) /\ Begins(h)
          \/ NewQueryRejected(c, h, config) /\ Runs(h, FALSE)

CreateReturns(h) ==
    \E c \in Calls :
        /\ Joining(c) /\ calls[c].helper = h
        /\ \/ /\ NewQueryFinish(c)
              /\ \E heard \in ReplyHeard :
                   Returns(h, calls'[c].result = "Ok" /\ heard)
           \/ NewQueryFail(c) /\ Returns(h, FALSE)

\* QueryCommand::Prepare: prepare(req).await.unwrap().
HandlePrepare(h) ==
    /\ Ready(h)
    /\ NextCommand(h).kind = "Prepare"
    /\ LET req == NextCommand(h).req
           caller == NextCommand(h).call
       IN \/ PrepareRejected(h, req, caller) /\ Runs(h, FALSE)
          \/ PrepareSuspended(h, req, caller) /\ Begins(h)
    /\ UNCHANGED << network, direct >>

\* The send of call c to helper h still waits for the reply, so that
\* resp.send finds its receiver.  A send that has returned an error, or
\* was dropped by try_join with the error of the other, has let go of it.
ReplyAwaited(c, h) == Joining(c) /\ calls[c].acks[h] = "pending"

\* prepare returns and its result is unwrapped, then resp.send(()) is.
PrepareReturns(h) ==
    \E p \in prepares :
        /\ p.at = h
        /\ PrepareCommit(p)
        /\ Returns(h, /\ Transition(queries[h],
                         AwaitingInputs(p.req.config, p.req.roles)) = "Ok"
                      /\ ReplyAwaited(p.caller, h))

\* QueryCommand::Input: receive_inputs(query_input).unwrap().
HandleInput(h) ==
    /\ Ready(h)
    /\ NextCommand(h).kind = "Input"
    /\ \/ ReceiveInputsStarted(h) /\ \E heard \in ReplyHeard : Runs(h, heard)
       \/ ReceiveInputsInvalid(h) /\ Runs(h, FALSE)
       \/ ReceiveInputsNoSuchQuery(h) /\ Runs(h, FALSE)

\* QueryCommand::Results: complete(query_id).await.unwrap().
HandleResults(h) ==
    /\ Ready(h)
    /\ NextCommand(h).kind = "Results"
    /\ \/ CompleteTaken(h) /\ Begins(h)
       \/ CompleteInvalid(h) /\ Runs(h, FALSE)
       \/ CompleteNoSuchQuery(h) /\ Runs(h, FALSE)

\* complete returns the result; resp.send(result).unwrap() when it was a
\* Results command that asked for it.
ResultsReturn(h) ==
    /\ CompleteReturn(h)
    /\ \E heard \in ReplyHeard :
         Returns(h, "Results" \in sent[h] => heard)

\* The query task has ended with an error: handle.await.unwrap() panics
\* inside complete, and with it the task that called it.
ResultsPanic(h) ==
    /\ CompletePanics(h)
    /\ Returns(h, FALSE)

\* The end-to-end tests, once every helper has taken its inputs:
\* processor.complete(query_id).await.unwrap(), the three calls joined.
\* The call suspends at the executor like the one of a Results command.
CompleteCalled(h) ==
    /\ Orderly /\ InOrder(h, "Complete")
    /\ ~panicked[h]
    /\ CompleteTaken(h)
    /\ UNCHANGED streamVars

\* TransportCommand::StepData: panic!("unexpected command").
HandleStepData(h) ==
    /\ Ready(h)
    /\ NextCommand(h).kind = "StepData"
    /\ Runs(h, FALSE)
    /\ UNCHANGED vars

\* The reply channel of a queued command is dropped with the stream: the
\* collector that waits for the reply to a Create gets a RecvError, the
\* peer that waits for the reply to a Prepare sees its send fail.
ReplyDropped(h, cmd) ==
    CASE cmd.kind = "Create" ->
             [calls EXCEPT ![cmd.call] =
                 [pc |-> "done", helper |-> h, req |-> NoRequest,
                  result |-> "OneshotRecv"]]
      [] cmd.kind = "Prepare" -> Answered(cmd.call, h, "err")
      [] OTHER -> calls

\* The panic unwinds: the processor and its command stream are dropped.
DropCommand(h) ==
    /\ panicked[h]
    /\ stream[h] # << >>
    /\ stream' = [stream EXCEPT ![h] = Tail(@)]
    /\ calls' = ReplyDropped(h, NextCommand(h))
    /\ UNCHANGED << queries, network, prepares, executor, completing, direct,
                    panicked, external, sent >>

-----------------------------------------------------------------------------

StreamNext ==
    \/ \E c \in Calls, h \in Helpers, config \in Configs :
         DeliverCreate(c, h, config)
    \/ \E h \in Helpers, cmd \in ExternalCommands : DeliverExternal(h, cmd)
    \/ \E m \in network : DeliverPrepareCommand(m)
    \/ \E c \in Calls, d \in Helpers :
         ConnectionBreaks(c, d) /\ UNCHANGED streamVars
    \/ \E h \in Helpers :
         \/ HandleCreate(h)
         \/ CreateReturns(h)
         \/ HandlePrepare(h)
         \/ PrepareReturns(h)
         \/ HandleInput(h)
         \/ HandleResults(h)
         \/ CompleteCalled(h)
         \/ ResultsReturn(h)
         \/ ResultsPanic(h)
         \/ HandleStepData(h)
         \/ DropCommand(h)
         \/ ExecutorFinish(h) /\ UNCHANGED streamVars
         \/ ExecutorFails(h) /\ UNCHANGED streamVars

StreamSpec == StreamInit /\ [][StreamNext]_allVars

\* The runtime polls a task that can make progress, the transport delivers
\* what it was given, and the collector of the end-to-end tests delivers
\* the commands it has to deliver, and a panic unwinds to the end.  Nothing
\* is assumed of a connection breaking, of a query task failing, or of a
\* test calling complete where a Results command would do.
StreamFairness ==
    /\ WF_allVars(\E c \in Calls, h \in Helpers, config \in Configs :
                     DeliverCreate(c, h, config))
    /\ WF_allVars(\E h \in Helpers, cmd \in ExternalCommands :
                     DeliverExternal(h, cmd))
    /\ WF_allVars(\E m \in network : DeliverPrepareCommand(m))
    /\ \A h \in Helpers :
         /\ WF_allVars(HandleCreate(h))
         /\ WF_allVars(CreateReturns(h))
         /\ WF_allVars(HandlePrepare(h))
         /\ WF_allVars(PrepareReturns(h))
         /\ WF_allVars(HandleInput(h))
         /\ WF_allVars(HandleResults(h))
         /\ WF_allVars(ResultsReturn(h))
         /\ WF_allVars(ResultsPanic(h))
         /\ WF_allVars(HandleStepData(h))
         /\ WF_allVars(DropCommand(h))
         /\ WF_allVars(ExecutorFinish(h) /\ UNCHANGED streamVars)

FairStreamSpec == StreamSpec /\ StreamFairness

-----------------------------------------------------------------------------
(* Properties *)

StreamTypeOK ==
    /\ TypeOK
    /\ stream \in [Helpers -> Seq(Commands)]
    /\ panicked \in [Helpers -> BOOLEAN]
    /\ external \in 0 .. MaxExternal
    /\ sent \in [Helpers -> SUBSET ExternalKinds]

\* The carrier of the acknowledgement that the send of call c to helper d
\* waits for: the request on its way, the Prepare command in the stream of
\* d, or the prepare that d is at.
Carried(c, d) ==
    \/ [call |-> c, to |-> d, req |-> calls[c].req] \in network
    \/ Prepare(c, calls[c].req) \in Queued(d)
    \/ [at |-> d, req |-> calls[c].req, caller |-> c] \in prepares

\* A send that is still waiting waits for something: whenever new_query
\* has an acknowledgement outstanding, its request is in flight, queued at
\* the peer or being prepared there.  A helper that panics, with commands
\* of its peers still in its stream, must not take their replies with it.
PendingAckHasCarrier ==
    \A c \in Calls, d \in Helpers :
        Joining(c) /\ calls[c].acks[d] = "pending" => Carried(c, d)

\* The processor never panics on an error that a collector or a peer can
\* provoke (section 7 of the specification): a command that cannot be
\* carried out is answered with an error.  handle_next unwraps the result
\* of every operation, so this holds of the code only while no operation
\* fails: when the commands arrive in the order of the end-to-end tests and
\* the transport delivers, with the Create answered only after both
\* followers have registered the query.
NeverPanics == \A h \in Helpers : ~panicked[h]

\* In the order of the end-to-end tests the only panic is the one that the
\* failure of a helper's own query task causes: handle.await.unwrap() in
\* complete.  No unwrap of handle_next fails, whatever the interleaving of
\* the three helpers and whichever tasks fail, and the failure of one
\* helper's task never panics another helper.
PanicsOnlyOnFailedTask ==
    \A h \in Helpers : panicked[h] => executor[h].phase = "failed"

\* complete of helper h has come to its end, or can never: it has returned
\* the result, it has panicked on the error of the task, or it waits for a
\* task that waits for the failed task to its left.
Settled(h) ==
    \/ executor[h].phase = "drained"
    \/ executor[h].phase = "failed" /\ panicked[h]
    \/ completing[h] /\ executor[TaskLeft(h)].phase = "failed"

\* The scenario of the end-to-end tests comes to rest also when query tasks
\* fail: every helper takes its inputs and is asked for its results, and
\* its complete returns them unless its own task has failed, which panics
\* it, or the task to its left has, which leaves it waiting (complete has
\* no deadline, section 5 of the specification).  With no failure every
\* complete returns the result: complete holds the processor while it
\* awaits the executor, and the executor ends only when all three helpers
\* run the query, so a helper that is asked for its results early waits
\* for the others to take their inputs, and nothing it holds may keep them
\* from it.
QuerySettles == <>(\A h \in Helpers : Settled(h))

\* Every Create gets its answer, also when two helpers are made coordinator
\* at the same time: handle_next takes one command at a time, so a helper
\* that awaits the acknowledgements of its own new_query leaves the
\* Prepare of the other coordinator in its stream, and the two wait for
\* each other until the third helper has refused one of them.  The answer
\* is the reply, or the error the collector gets when the helper panics
\* and drops the reply channel.
CreateIsAnswered ==
    \A c \in Calls : Submitted(c) ~> calls[c].pc = "done"

=============================================================================

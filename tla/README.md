# TLA+ model of the query lifecycle, the transport and multiply of the three-helper MPC runtime

This directory holds a model-checking project for the query processor of the
helper runtime: the code that takes a query from a report collector, agrees
on it with the two other helpers, takes the inputs, runs the protocol and
hands out the result; for the transport between the helpers; and for
`multiply`, the one step of the protocol the sources hold. The modules are written from the Rust sources under
`src/src/`; where a collaborator is not among the sources (the registry, the
gateway, the in-memory transport, the executor) they follow `spec.md`, and
`PROJECT.json` marks those definitions `spec_modelled`.

## 1. The system

Three helpers stand in a ring (`right`, `left`). Each runs one `Processor`.

| Part | Where | State | Operations |
|------|-------|-------|------------|
| C1 identities and roles | `helpers/` (not in the sources), used in `query/processor.rs` | none | `identity()`, `others()`, `RoleAssignment` |
| C2 route parameters | `helpers/transport/mod.rs` 18-114 | none (types only) | `resource_identifier`, `query_id`, `step`, `extra` |
| C3 transport | `helpers/transport/mod.rs` 116-220 | requests in flight, acknowledgements, one stream per (from, to, query, step) | `identity`, `send` (blocks until acknowledged), `receive` |
| C4 gateway | not in the sources | role assignment, channels | built by `new_query` and `prepare` |
| C5 running-queries registry | `query/state.rs` (not in the sources), used under its lock in `processor.rs` | map `QueryId -> QueryState` | `handle().status()`, `handle().set_state()`, `remove`/`insert` under the lock |
| C6 processor | `query/processor.rs` 38-279 | the registry | `new_query`, `prepare`, `receive_inputs`, `status`, `complete` |
| C6b command stream | `query/processor.rs` 214-243 | the stream, the reply channels | `handle_next` |
| C7 protocol context, `SecureMul` | `protocol/mul/mod.rs` | the accumulator of a malicious context | `multiply` (dispatch on the security model to implementations not in the sources) |
| executor | not in the sources | the running query | `executor::start_query`, the handle that `complete` awaits |

How they interact. A collector gives a query to any helper. That helper's
`new_query` registers it as `Preparing`, makes itself H1, its right
neighbour H2 and its left neighbour H3, and sends a `PrepareQuery` to both
over the transport; the two sends run concurrently under `try_join` and
each blocks until the peer acknowledges. A follower runs `prepare`: it
refuses a request that makes it H1 or that finds a query registered,
builds its gateway (an await), and registers the query as
`AwaitingInputs`. When both acknowledgements are in, the coordinator builds
its gateway and moves to `AwaitingInputs`. `receive_inputs` starts the
executor and moves to `Running`; `complete` moves to `AwaitingCompletion`
and awaits the executor's handle.

While the query runs, the protocol multiplies shares: `multiply(record_id,
a, b)` on a context sends a contribution to the helper that holds the role
to the right and takes the one of the role to the left, on the stream of
the context's step. Products of one step share that stream and are told
apart by their record id. A malicious context runs two such exchanges, on
two steps, and adds the product to its accumulator.

State of the source. The revision is in the middle of moving the processor
onto a transport that is passed in: `new_query`, `status` and `complete` are
compiled; `prepare`, `receive_inputs`, `handle_next` and all tests but
`tests::new_query` carry `#[cfg(never)]`. The model takes every operation as
it is written, and the findings say so where they concern disabled code.

What makes it hard:

* `Processor` is `Sync` and shared through an `Arc`: `new_query`, `prepare`
  and `receive_inputs` take `&self` and interleave freely. `QueryId` is a
  unit struct, so all of them work on the same registry entry.
* `prepare` checks the status in one lock scope and registers in another,
  with an await in between.
* The two sends of `new_query` resolve in either order; one can fail while
  the other succeeds; a connection can break after the request was
  delivered.
* `receive_inputs` and `complete` remove the entry before they look at it
  and must put it back on every path.
* `complete` takes `&mut self` and awaits the executor, which ends only
  when all three helpers run the query.
* `handle_next` handles one command at a time and unwraps every result;
  two helpers that are made coordinator at once hold each other's
  `Prepare` in their streams while they wait.
* Streams are keyed by step, chunks by record id, and nothing orders two
  steps or two products against each other.
* Each helper waits for its left peer, all around the ring, and a side
  that fails leaves its right neighbour waiting.
* A caller may drop the future of `new_query` or `complete` at its await
  (`spec.md` section 5 leaves deadlines to the caller); `complete` has
  taken the handle out of the registry by then.
* `handle_next` unwraps `resp.send(..)` as well: a reply whose receiver is
  gone panics the helper after it has carried the command out.

## 2. Modules

| Module | Models | Lines of code |
|--------|--------|---------------|
| `QueryState` | the variants of `QueryState`, the verdict of `set_state` (`Transition`), `status` (`StatusOf`) | `spec.md` sections 3 and 4.4 |
| `QueryLifecycle` | abstract specification: every registry entry moves only along a given set of steps | - |
| `Ring` | the three identities, `others()`, the role assignment of `new_query`, the peers of a role | `processor.rs` 121-126 |
| `Processor` | three processors, the handshake over the transport, the executor | `processor.rs` 38-279 |
| `CommandStream` | `handle_next` around the operations of `Processor`, and the collector of the end-to-end tests | `processor.rs` 219-241; the calls of `tests::e2e` at 465-487, 517-539 |
| `Transport` | the route parameters as sets, the bounds of `send` and `receive`, the dispatch of `TransportImpl`; the requests and streams of the in-memory transport after `spec.md` 4.2 | `transport/mod.rs` 30-161, 171-174, 199-202 |
| `SecureMul` | the dispatch of `multiply` on the security model; the exchange it starts after `spec.md` 4.6, on top of `Transport` and `Ring` | `mul/mod.rs` 11-59 |
| `QueryTask` | abstract specification: how the three sides of a protocol run end (a side returns only while its left peer has not failed, and fails only while its right peer has not returned); `leftOf` is a variable that no step changes, so that a module can instantiate it with the ring of roles of its state | - |
| `MCProcessor`, `MCCommandStream`, `MCTransport`, `MCSecureMul` | the three helpers and their ring as model values, the symmetry sets, the inputs of a run | - |

`Processor` and `Transport` extend `Ring`; `CommandStream` extends
`Processor`; `SecureMul` extends `Transport`. `Processor` keeps its own
account of the one request it sends (`network`, `acks`), because a
`PrepareQuery` is its own route (the impl is in `transport/query.rs`, not
among the sources) and has no body.

What is translated from the sources and what from `spec.md` is recorded per
definition in the map of `PROJECT.json`. From the sources: the registry and
the four operations of `Processor`, `handle_next`, the role assignment, the
route parameters, the bounds of `send` and `receive`, the dispatch of
`TransportImpl` and of `multiply`. From `spec.md` (`spec_modelled`): the
verdict of `set_state`, what becomes of a request between `send` and its
acknowledgement (`DeliverPrepare`, `ConnectionBreaks`, `Answered` and the
request and stream actions of `Transport`), the query task, and the
exchange of a multiplication. The definitions about the collector stand
for the statements of the tests that deliver a command or call an
operation; the tests are compiled out with `handle_next` and are the only
callers the sources have.

### State of `Processor`

| Variable | Code |
|----------|------|
| `queries[h]` | the entry of `QueryId` in `self.queries` of helper `h`; `EmptyState` is the absent key |
| `calls[c]` | the future of one invocation of `new_query`: not started, in `try_join` with the state of its two sends (`acks`), dropped by its caller, or returned with its result |
| `network` | `PrepareQuery` requests handed to `Transport::send` and not yet delivered |
| `prepares` | `prepare` futures suspended at `Gateway::new(..).await` |
| `executor[h]` | the task behind the handle that `Running` holds: not started, running, finished, failed, result taken |
| `completing[h]` | `complete` on `h` has taken the handle and awaits it (`&mut self` is held) |
| `direct` | number of `prepare` calls that no coordinator of the model sent |

A gateway is represented by the role assignment it was built with, a
`QueryConfig` by a model value. The `OneshotRecv` variant of `NewQueryError`
is what the collector of `CommandStream` gets for a `Create` whose reply
channel was dropped by a panicking helper.

Three constants switch the faults on: `TransportFaults` (a send may fail
with an `io::Error`), `TaskFaults` (a query task may end with an error) and
`Cancellation` (a caller may drop the future of `new_query` or `complete`
at its await). `CommandStream` adds `CollectorLeaves` (a collector may drop
the receiver of a reply).

### Actions of `Processor`

One action per lock scope of the registry or per stretch of code between
two awaits; an early return is a disjunct of its own.

| Operation | Actions |
|-----------|---------|
| `new_query` | `NewQueryAccepted` (set_state, roles, request, both sends started), `NewQueryRejected` (`?` on set_state), `NewQueryFail` (`?` on `try_join`, which fails on the first error), `NewQueryFinish` (gateway, second set_state with its own `?`), `NewQueryDropped` (the future is dropped in `try_join`: the entry stays, a request not yet delivered may or may not arrive, nobody takes the acknowledgements) |
| `Transport::send` | `DeliverPrepare` (the peer runs `prepare`), `ConnectionBreaks` (an `io::Error`: the request is lost, or its acknowledgement is) |
| `prepare` | `PrepareRejected` (`WrongTarget`, `AlreadyRunning`; the sender gets a negative acknowledgement), `PrepareSuspended` (to the await), `PrepareCommit` (set_state after the await; its verdict is the acknowledgement) |
| `prepare` called directly | `DirectPrepare`, with the requests a coordinator could have built (the unit tests call `prepare` this way; on the wire it is a repeated or stray request) |
| `receive_inputs` | `ReceiveInputsStarted`, `ReceiveInputsInvalid` (entry put back), `ReceiveInputsNoSuchQuery` |
| `complete` | `CompleteTaken`, `CompleteInvalid` (entry put back), `CompleteNoSuchQuery`, `CompleteReturn`, `CompletePanics` (`unwrap` on the error of a failed task), `CompleteDropped` (the future is dropped at `handle.await`, and the handle with it) |
| executor | `ExecutorFinish` when all three helpers run the same config with the same roles and `QueryTask` lets the task finish (`MayFinish`: the task of the left peer has not failed); `ExecutorFails` when `QueryTask` lets it fail (`MayFail`: the task of the right peer has not finished) |

`complete` takes `&mut self`: while `completing[h]` holds no other
operation starts on `h` (`Free`), and `complete` does not start while a
`new_query` or a `prepare` of `h` is suspended (`Borrowed`). The borrow
checker rules these interleavings out when the program is compiled; the
guards are how the model leaves them out.

The executor is not among the sources. `Processor` does not say of its own
when a query task ends: `QueryRun` instantiates `QueryTask` with the phase
of each executor (`TaskOf`) and the holder of the role left of each helper
(`TaskLeft`), and the two executor actions take their guards from it. Run
`secure_mul` shows that the multiplications of `SecureMul` implement
`QueryTask`, which is what justifies the guards.

### `CommandStream`

`CommandStream` extends `Processor` with `stream[h]` (commands delivered and
not yet taken), `panicked[h]`, and the bookkeeping of the collector
(`external`, `sent`). `handle_next` takes the head of the stream when the
operation of the last command has returned (`Ready`), runs the operation of
`Processor` that the command names, and either sends the reply or panics on
the `unwrap` (`Runs`, `Returns`). A `PrepareQuery` that the transport
delivers becomes a `Prepare` command whose reply is the acknowledgement
(`DeliverPrepareCommand`). The reply to a `Prepare` is sent with
`resp.send(()).unwrap()`: when the send that waited for it is gone
(`try_join` gave up on the error of the other send), the follower has
registered the query and panics (`ReplyAwaited` in `PrepareReturns`). A
panic drops the processor and its stream: the queued commands go one by
one, the sender of a queued `Prepare` sees its send fail and the collector
of a queued `Create` gets `OneshotRecv` (`DropCommand`, `ReplyDropped`).
A query task that has failed (`ExecutorFails`) panics the `complete` that
awaits it (`ResultsPanic`: `handle.await.unwrap()`).

The replies to `Create`, `Input` and `Results` go to the collector, again
with `resp.send(..).unwrap()`. With `CollectorLeaves = TRUE` the collector
may have dropped the receiver by the time the reply is sent (`ReplyHeard`):
the operation has taken effect, the query is registered or the inputs are
taken, and the helper panics.

With `Orderly = TRUE` the commands arrive as in `tests::e2e`: one `Create`,
the input of a helper once the `Create` was answered, the request for a
helper's result after its input, asked for once: with a `Results` command,
or the way the tests do it, with a call of `complete` on the processor
once every helper has taken its input (`CompleteCalled`; the tests join
the three calls, so they interleave). With `Orderly = FALSE` a collector
delivers any command at any time. `spec.md` 4.5.5 says `StepData` is never
delivered to the processor; the arm of the match that panics on it is
reached in the disorderly run only.

### `Transport`

The types of `mod.rs` are sets: `RouteId`, the markers `NoResourceIdentifier`,
`NoQueryId`, `NoStep`, the binding traits as the sets of their implementors,
`Option::from` as `OptionQueryId` and `OptionStep` (a marker becomes `None`).
A route is a record `[resource, query, step]`; `StepRoute` and
`ResourceRoute` are the two tuple impls, `SendRoutes` and `ReceiveRoutes`
the bounds of `send` and `receive`. The trait says what a caller may pass;
what the transport does with it is the in-memory transport's, and the
variables and the request and stream actions below follow the doc comments
of the trait and `spec.md` 4.2.

| Variable | Code |
|----------|------|
| `request[c]` | the request of the send call `c = [from, to, route]`: not made, waiting for the acknowledgement, acknowledged (`Ok(())`), failed (`io::Error`) |
| `body[k]` | what the `data` streams have yielded for stream `k = (from, to, query, step)` |
| `pulled[k]` | how much of it the `RecordsStream` has yielded to the receiver |
| `taken` | the streams `receive` has handed out |
| `aborted` | helpers whose task ended in `unimplemented!()` or in a second `receive` for a stream |

| Operation | Actions |
|-----------|---------|
| `send` | `Send` (the call), `Stream` (the body of a `Records` request yields a chunk), `Acknowledge` (the peer's transport has the headers), `SendFails` |
| `receive` | `Receive` (hands out the stream, or ends the task when it is taken), `Pull` |
| `TransportImpl` | `Dispatched` (the `InMemory` arm), `Unimplemented` (the `RealWorld` arm of `identity`, `send` and `receive`) |

`Variant[h]` says how helper `h` was built: `TransportImpl` has exactly one
variant in a build, `InMemory` with the test fixture and `RealWorld`
without. A helper with `RealWorld` panics on its first call, which in
`new_query` is `transport.identity()` right after `set_state(Preparing)`.

### `SecureMul`

`security` is the security model of the context, chosen at the start and the
same on all helpers (it is the type of the context). `Multiply(r)` is the
dispatch of `mod.rs`: which record id is handed on and whether the
accumulator of the context goes with it. Which exchanges the
multiplication then runs (one on `MulStep`; under the malicious model a
second on `MacStep`) and how an exchange goes follow `spec.md` 4.6:

| Action | Step |
|--------|------|
| `Contribute(h, r, s)` | `h` writes its contribution to product `r` to the stream of step `s` towards its right peer; the first contribution of a step opens the request |
| `Acknowledged`, `Fails` | the request is acknowledged by the peer's transport, or the send fails |
| `Collect(h, r, s)` | once its own send has returned and the stream from the left is established, `h` takes the chunk that carries the record id of `r` |
| `ReturnShare(h, r)` | all exchanges of `r` are done; a malicious context adds `r` to its accumulator |
| `ReturnError(h, r)` | a send of `r` has failed |

`Task(h)` reads the state of a helper's side of the run off `returned`:
failed when one of its multiplications returned an error, done when all
returned a share. Under this mapping `SecureMul` implements `QueryTask`,
with the left peer of `h` the holder of the role left of its own.

A contribution is the record `[record, term]`: the id it travels under and
the product it was computed for. The values of the field are left out,
the field library and the PRSS not being among the sources; what the
properties tell apart is whose contribution, to which product and step, a
helper has used. The gateway's batching is reduced to the stream: `Collect`
reads the body directly, so `pulled` stays 0 in this module.

## 3. Runs

All runs use the three helpers `h1, h2, h3` with `Right = h1 -> h2 -> h3 ->
h1`. The ring is fixed by the code (`others()`), three is the number of
helpers the protocol has. Configs and calls are interchangeable, so the
passing runs with more than one of them use `Permutations(Configs) \cup
Permutations(Calls)` as a symmetry set; helpers are not symmetric (the ring
tells them apart). `transport` is the exception: no action of `Transport`
looks at the ring, `h1` and `h2` are built alike, and the run uses
`Permutations(Steps) \cup Permutations({h1, h2})`.

| Run | Config | Bounds | Result |
|-----|--------|--------|--------|
| `handshake` | `MCProcessor.cfg` | 2 configs, 2 calls, faults and cancellation on, no direct prepare | passes, 311,497 states |
| `direct_prepare` | `MCDirectPrepare.cfg` | 1 config, 1 call, 2 direct prepares, faults and cancellation on | passes, 279,915 states |
| `command_stream` | `MCCommandStream.cfg` | 1 config, 2 calls, 1 Input or StepData, failing sends and tasks, collectors that leave, any order | passes, 155,536 states |
| `orderly_collector` | `MCOrderly.cfg` | 1 config, 1 call, 6 Input/Results, failing tasks, order of the tests, fairness | passes, 9,127 states |
| `mutual_wait` | `MCMutualWait.cfg` | 1 config, 2 calls, no external command, faults on, fairness | passes, 23,953 states |
| `transport` | `MCTransport.cfg` | 2 steps, 2 send calls, 2 receives, 1 chunk per body, `h3` built with `RealWorld` | passes, 123,180 states |
| `secure_mul` | `MCSecureMul.cfg` | coordinator `h2`, products 1 and 2 under the semi-honest model, product 1 under the malicious, faults on, fairness | passes, 44,288 states |
| `total_order` | `MCTotalOrder.cfg` | 1 call | violated (3 steps) |
| `retry_after_failure` | `MCRetry.cfg` | 2 calls, faults on | violated (3 steps) |
| `role_agreement` | `MCRoleAgreement.cfg` | 2 calls, no faults | violated (6 steps) |
| `never_panics` | `MCNeverPanics.cfg` | 2 calls, 2 Input/Results, any order | violated (3 steps) |
| `results_held` | `MCResultsHeld.cfg` | 1 call, no faults, cancellation on | violated (12 steps) |

Why the bounds are enough. Two calls give both shapes of contention: two
`new_query` on one helper and two coordinators on different helpers; since
the registry holds a single entry a third call meets nothing that the
second does not. Two configs tell the requests of two calls on the same
helper apart. Two direct prepares allow a stray request before and after
the real one. Six external commands are the three inputs and three
requests for results of the end-to-end scenario. For the transport two
steps between the same pair of helpers are what can be confused, two send
calls give two requests onto one stream or onto two, two receives give the
second `receive` of a stream; `MaxSends`, `MaxReceives` and `MaxChunks` cap
the calls. For `multiply` two products on one step are what a record id has
to tell apart, and one malicious product has the two exchanges that a step
has to tell apart; the coordinator is `h2`, so that the ring of roles is
not the ring of identities read from `h1`.

### Properties that hold

* `HandshakeComplete` (handshake): when `new_query` has returned `Ok`,
  all three helpers are set up for its request, each with the gateway of
  the coordinator's role assignment, or are already past that point.
  About the `try_join` and the second `set_state`.
* `AckMeansRegistered` (handshake): a positive acknowledgement held by a
  coordinator that is still waiting is backed by the follower's registry.
  About the order of `set_state` and `Ok(())` in `prepare`.
* `SingleQueryPerHelper` (handshake): of the calls made on one helper at
  most one gets past `set_state(Preparing)`, whatever `receive_inputs` and
  `complete` do to the entry in between, and also when the call that got
  past it was dropped by its caller. About the remove/insert pairs, and
  about what a dropped future leaves behind.
* `ImplementsLifecycle` (handshake): every registry entry moves only along
  the steps of `LifecycleSteps`; `Processor` implements `QueryLifecycle`
  under the mapping `status[h] = Status(h)`.
* `CoordinatorOnlyByNewQuery` (direct_prepare): no helper is registered as
  H1 of a query its own `new_query` did not complete.
* `RoleAgreement` (command_stream): two helpers with a gateway have the same
  role assignment. It holds when the helpers are driven through
  `handle_next`, because a helper is at one command at a time; it does not
  hold of the operations called concurrently (below).
* `PendingAckHasCarrier` (command_stream): a send that is still waiting has
  its request in flight, queued at the peer or being prepared there, also
  when the peer panics with the request in its stream, be it on the reply
  to a collector that has left.
* `PanicsOnlyOnFailedTask` (orderly_collector): in the scenario of the
  end-to-end tests no `unwrap` of `handle_next` fails; the one panic left
  is that of `complete` on the error of the helper's own query task, and it
  stays with that helper. `spec.md` section 7 has such an error surface as
  a failed `complete`; the code panics (`handle.await.unwrap()`), which
  under `handle_next` takes the helper's task along.
* `QuerySettles` (orderly_collector): every helper takes its inputs and
  is asked for its result, and its `complete` returns the result, panics
  on the failure of its own task, or is left waiting behind the failed
  task of its left peer. With no failure every `complete` returns; with
  one, the helper to the right of the failed one waits without end and
  the third still gets its result.
* `CreateIsAnswered` (mutual_wait): every `Create` is answered, also when
  two helpers are made coordinator at once. Each then holds the other's
  `Prepare` unhandled while it waits; the wait ends because the third
  helper refuses the second request and `try_join` gives up at the first
  error. Both queries fail and all three tasks panic on their `unwrap`
  (finding `never_panics`), but nobody waits forever: a `Create` that is
  still queued at a helper that panics is answered by the drop of its
  reply channel.
* `ContributionsMatch` (secure_mul): a share that `multiply` returns is made
  of the left peer's contributions to the same product and the same step.
* `ImplementsQueryTask` (secure_mul): the three sides of a run end the way
  `QueryTask` says. No helper returns all its shares after its left peer
  has failed, and no helper fails after its right peer has returned them:
  the helpers that hold a result agree that the run went through. It
  rests on `send` returning only when the peer's transport has the
  request, so that a send cannot fail once its contribution was taken.
* `WaitsOnlyBehindFailedSend` (secure_mul): every `multiply` returns, or
  waits for a contribution whose send by the left peer has failed. When no
  send fails all of them return: the ring of helpers that each wait for
  their left peer does not lock up, because a send waits for the peer's
  transport and not for the peer's protocol. When one fails, the wait
  stays with the right neighbour of the failure.
* `TypeOK`, `StreamTypeOK`, `TransportTypeOK`, `MulTypeOK`: the type
  invariants. `TransportTypeOK` includes that every stream handed out is
  one that the route of a send addresses; it is all that run `transport`
  checks, the multiplexing of the streams not being among the sources.

Each property has a mutant in `PROJECT.json`: a variant of one definition
as a plausible bug would leave it (entry not put back, acknowledgement sent
before registration, `try_join` satisfied by one acknowledgement, role check
dropped, inputs taken without the entry put back as `Running`,
`handle_next` started while the last command is still running,
a rejection that is never reported, a join that waits for both sends
before it reports an error, a dropped `new_query` that takes its entry out
of the registry, a route that loses its query id, a multiplication
under a fixed record id or under one record id for every product, a send
that can fail after it was acknowledged, a `multiply` that ignores the
error of its send), defined next to the original.

### Findings

* `total_order`: a follower's registry goes `Empty -> AwaitingInputs`
  (`processor.rs:169`); `spec.md` section 3 gives a total order through
  `Preparing` and calls every other step invalid.
* `retry_after_failure`: after a failed send the entry stays `Preparing`
  and nothing removes it (`processor.rs:138`), so the retry with a fresh
  `new_query` that `spec.md` 4.5.1 prescribes is refused with
  `AlreadyRunning`.
* `role_agreement`: `prepare` checks and registers in two lock scopes
  (`processor.rs:162`, `:169`). A `new_query` accepted in between is moved
  to `AwaitingInputs` by the `prepare` of another coordinator's query, and
  two helpers end up with gateways of different role assignments.
* `never_panics`: `handle_next` unwraps every result
  (`processor.rs:224-240`); `spec.md` section 7 says the processor never
  panics on user-driven errors. With two `Create` commands the panic of one
  follower fails the sends of both coordinators and all three helpers
  panic.
* `results_held`: `complete` takes the handle out of the registry under the
  lock (`processor.rs:256-262`) and awaits it afterwards
  (`processor.rs:278`). A caller whose deadline runs out at that await
  drops the handle: the task ends with nobody holding it, the entry stays
  `AwaitingCompletion`, and a second `complete` returns `InvalidState`.
  The description of `Processor` says a helper "holds onto the results of
  the computation until the external party that initiated this request
  asks for them"; `spec.md` section 5 permits dropping the future and
  leaves deadlines to the caller. With `Cancellation = FALSE` the
  property holds.

## 4. Fairness and deadlock

Safety runs assume no fairness. `orderly_collector` and `mutual_wait` use
`FairStreamSpec`: weak fairness of every step of `handle_next` and of the
executor for each helper (the runtime polls a task that can make
progress), of the unwinding of a panic (`DropCommand`: the stream is
dropped with the processor), of the delivery of a request in flight and of
the collector's deliveries (the test delivers all its commands). Weak
fairness is enough because none of these steps is disabled by another
actor once it is enabled, except by a panic, after which the unwinding is
what is enabled. `ConnectionBreaks` has no fairness: in `mutual_wait` a
connection may break or not, and the property holds either way.

`secure_mul` uses `FairSpec`: weak fairness of the protocol task of each
helper and of the acknowledgement of each request. `Fails` has no
fairness: a send may fail or not, and `WaitsOnlyBehindFailedSend` says
what is left waiting in either case. Nothing at this layer has a deadline
(`spec.md` section 5 leaves deadlines to the caller).

No fairness is assumed of a caller dropping a future, of a task failing or
of a connection breaking: they are faults, and the runs allow them at
every point at which the code awaits. Nor is any assumed of a test calling
`complete` directly: while it has not, the `Results` command is what the
collector has to deliver. The panic of `complete` on a failed task
(`ResultsPanic`) is a step of the helper's task and weakly fair.

`handshake` checks deadlock: some operation can always be called. The
runs with `CHECK_DEADLOCK FALSE` are those in which the system may rightly
stop: with direct prepares the three executors can be started with
gateways that disagree, and every `complete` then waits forever with
`&mut self` held (hazard at `processor.rs:278`); under `handle_next` a
helper with an empty stream, or one that has panicked, is at rest; the
transport is at rest when nobody calls it, and `multiply` when every call
has returned.

## 5. Not modelled

* The in-memory transport, the gateway, `SemiHonestMul` and
  `MaliciouslySecureMul` themselves: not among the sources. What the
  modules need of them follows `spec.md` and is marked `spec_modelled`.
* `RouteParams::extra` (the empty string in both impls) and the byte
  layout of a chunk.
* The gateway's batching of records into a request and the size of its
  buffers.
* The field arithmetic, the PRSS and the IPA protocol that the end-to-end
  tests assert: a contribution is a name, not a value.
* Dropping the future of `receive_inputs`: it has no await, so there is
  no point at which it could be dropped half way.
* Dropped futures under `handle_next`: `NewQueryDropped` and
  `CompleteDropped` are actions of `Processor` and are checked there. In
  `CommandStream` every operation runs to its end or to its panic.
* A failed `complete` reached through the stream by a collector that
  keeps no order: the disorderly run delivers one external command, which
  starts a task and lets it fail but does not ask for its result; the
  instance with two calls and two external commands of every kind has
  more than 1.6 million states. The orderly run reaches it.
* A collector that has left when the reply to `Results` is sent: the one
  run with `CollectorLeaves` is the disorderly one, whose single external
  command is not a `Results`. The replies to `Create` and `Input` are
  reached.
* A closed command stream: `next()` then yields `None` and `handle_next`
  returns without a step. The transport of the model outlives the helpers.
* The multiplexing of the transport's streams (which chunk reaches which
  receiver): the in-memory transport is not among the sources, and run
  `transport` checks the routes only.
* `tests::new_query`: it runs `new_query` against a transport of its own
  that acknowledges after a barrier without any peer. What it asserts
  (`Preparing` while the sends wait, `AwaitingInputs` after) is what
  `NewQueryAccepted` and `NewQueryFinish` do.
* A helper built with the `RealWorld` transport inside `Processor`:
  `new_query` would panic at `transport.identity()` right after
  `set_state(Preparing)`. `Transport` models the dispatch; `Processor`
  takes the in-memory variant the tests use.
* `Completed`: no step of the source reaches it. An entry stays at
  `AwaitingCompletion` whatever becomes of `complete`, and with the
  singleton `QueryId` a helper runs one query in its life
  (`ImplementsLifecycle` and `SingleQueryPerHelper` say that nothing takes
  the entry away).
* `TransportImpl::from` (`mod.rs` 222-238): commented out in the source.

## 6. Plan

1. Done: `QueryState`, `QueryLifecycle`, `Ring`, `Processor`,
   `CommandStream`, `Transport`, `SecureMul`, `QueryTask` and the twelve
   runs above, with failing sends, failing tasks, panicking helpers and
   dropped futures.
2. A caller's deadline around `multiply`, as `spec.md` section 5
   prescribes it: what the two other helpers are left with when one side
   gives up in the middle of an exchange.
3. The processor's `PrepareQuery` over `Transport` instead of its own
   `network`, once the route impl of `transport/query.rs` is among the
   sources.

------------------------------ MODULE Transport ------------------------------
(***************************************************************************)
(* The transport between the helpers (helpers/transport/mod.rs): the route *)
(* parameters with their typed absence markers, the contract of send and   *)
(* receive, and the dispatch of TransportImpl.                             *)
(*                                                                         *)
(* The types of mod.rs become sets and the trait bounds membership in      *)
(* them.  The in-memory transport behind TransportImpl::InMemory is not    *)
(* among the source files: the streams it keeps per (from, to, query,      *)
(* step) follow section 4.2 of the specification.                          *)
(***************************************************************************)
EXTENDS Naturals, Sequences, FiniteSets, Ring

CONSTANTS
    Steps,      \* the protocol steps that have a channel
    Payloads,   \* what a chunk of a body may carry
    Variant,    \* Variant[h]: the TransportImpl variant helper h is built with
    MaxSends,   \* bound on the number of send calls
    MaxReceives,\* bound on the number of streams handed out
    MaxChunks   \* bound on the chunks of one body

VARIABLES
    request,    \* request[c]: where the send call c stands
    body,       \* body[k]: the chunks written to stream k so far
    pulled,     \* pulled[k]: how many of them the receiver has taken
    taken,      \* the streams that receive has handed out
    aborted     \* the helpers whose task has panicked

transportVars == << request, body, pulled, taken, aborted >>

-----------------------------------------------------------------------------
(* Route parameters *)

QueryId == "QueryId"
None == "None"

RouteId == { "Records", "ReceiveQuery", "PrepareQuery" }
NoResourceIdentifier == "NoResourceIdentifier"
NoQueryId == "NoQueryId"
NoStep == "NoStep"

ResourceIdentifier == RouteId \cup { NoResourceIdentifier }
QueryIdBinding == { NoQueryId, QueryId }
StepBinding == { NoStep } \cup Steps

\* Option<QueryId>::from and Option<Step>::from: None for the marker.
OptionQueryId(q) == IF q = NoQueryId THEN None ELSE q
OptionStep(s) == IF s = NoStep THEN None ELSE s

\* trait RouteParams<R, Q, S>; extra() is the empty string in every impl.
RouteParams(R, Q, S) == [resource : R, query : Q, step : S]

\* impl RouteParams for (QueryId, Step) and for (RouteId, QueryId, Step).
StepRoute(q, s) == [resource |-> NoResourceIdentifier, query |-> q, step |-> s]
ResourceRouteNoQuery(r, q, s) == [resource |-> r, query |-> NoQueryId, step |-> s]
ResourceRoute(r, q, s) == [resource |-> r, query |-> q, step |-> s]

\* The bounds of Transport::send and Transport::receive on their route.
SendRoutes == RouteParams(RouteId, QueryIdBinding, StepBinding)
ReceiveRoutes == RouteParams({ NoResourceIdentifier }, { QueryId }, Steps)

-----------------------------------------------------------------------------
(* State *)

Variants == { "InMemory", "RealWorld" }

\* The routes that a caller can build with the impls of mod.rs.
TupleRoutes == { ResourceRoute(r, QueryId, s) : r \in RouteId, s \in Steps }

Pairs == { p \in Helpers \X Helpers : p[1] # p[2] }
SendCalls == { [from |-> p[1], to |-> p[2], route |-> r] :
                   p \in Pairs, r \in TupleRoutes }
Streams == { << p[1], p[2], QueryId, s >> : p \in Pairs, s \in Steps \cup { None } }

\* The stream a route addresses between two helpers.
StreamKey(from, to, route) ==
    << from, to, OptionQueryId(route.query), OptionStep(route.step) >>
StreamOf(c) == StreamKey(c.from, c.to, c.route)

\* A chunk, with the step and the sender it was written for.
Chunk(h, s, p) == [sender |-> h, step |-> s, payload |-> p]
Chunks == [sender : Helpers, step : Steps, payload : Payloads]

TransportInit ==
    /\ request = [c \in SendCalls |-> "none"]
    /\ body = [k \in Streams |-> << >>]
    /\ pulled = [k \in Streams |-> 0]
    /\ taken = {}
    /\ aborted = {}

-----------------------------------------------------------------------------
(* TransportImpl, send and receive *)

\* A call on the transport of h gets through to the in-memory transport.
Dispatched(h) == h \notin aborted /\ Variant[h] = "InMemory"

\* TransportImpl::RealWorld: identity, send and receive are unimplemented!().
Unimplemented(h) ==
    /\ h \notin aborted /\ Variant[h] = "RealWorld"
    /\ aborted' = aborted \cup {h}
    /\ UNCHANGED << request, body, pulled, taken >>

Open(c) == IF request[c] = "none" THEN [request EXCEPT ![c] = "sent"]
                                  ELSE request
Yield(c, chunk) == [body EXCEPT ![StreamOf(c)] = Append(@, chunk)]
Streaming(c) ==
    /\ c.route.resource = "Records"
    /\ request[c] \in { "sent", "acked" }
    /\ Len(body[StreamOf(c)]) < MaxChunks

\* send(dest, route, data) is called and waits for the acknowledgement.
Send(c) ==
    /\ Dispatched(c.from) /\ c.route \in SendRoutes
    /\ request[c] = "none"
    /\ Cardinality({ d \in SendCalls : request[d] # "none" }) < MaxSends
    /\ request' = Open(c)
    /\ UNCHANGED << body, pulled, taken, aborted >>

\* The body of a Records request yields its next chunk.
Stream(c, p) ==
    /\ Dispatched(c.from) /\ Streaming(c)
    /\ body' = Yield(c, Chunk(c.from, c.route.step, p))
    /\ UNCHANGED << request, pulled, taken, aborted >>

\* The remote party acknowledges the headers: send returns Ok.
Acknowledge(c) ==
    /\ request[c] = "sent" /\ Dispatched(c.to)
    /\ request' = [request EXCEPT ![c] = "acked"]
    /\ UNCHANGED << body, pulled, taken, aborted >>

\* Variant in which a request that was acknowledged can still fail.
SendFailsAfterAck(c) ==
    /\ request[c] \in { "sent", "acked" }
    /\ request' = [request EXCEPT ![c] = "failed"]
    /\ UNCHANGED << body, pulled, taken, aborted >>

\* send returns an io::Error; what the body had yielded is dropped with it.
SendFails(c) ==
    /\ request[c] = "sent"
    /\ request' = [request EXCEPT ![c] = "failed"]
    /\ UNCHANGED << body, pulled, taken, aborted >>

\* receive(from, route) hands out the stream of (from, query, step); a
\* second call for the same stream is a programmer error.
Receive(h, from, route) ==
    LET k == StreamKey(from, h, route)
    IN /\ Dispatched(h)
       /\ route \in ReceiveRoutes
       /\ Cardinality(taken) < MaxReceives
       /\ IF k \in taken
          THEN aborted' = aborted \cup {h} /\ UNCHANGED taken
          ELSE taken' = taken \cup {k} /\ UNCHANGED aborted
       /\ UNCHANGED << request, body, pulled >>

\* The stream is established once a Records request for it was acknowledged.
Established(k) ==
    \E c \in SendCalls : /\ request[c] = "acked" /\ c.route.resource = "Records"
                     /\ StreamOf(c) = k

\* The receiver takes the next chunk from a stream it holds.
Pull(k) ==
    /\ k \in taken /\ k[2] \notin aborted
    /\ Established(k)
    /\ pulled[k] < Len(body[k])
    /\ pulled' = [pulled EXCEPT ![k] = @ + 1]
    /\ UNCHANGED << request, body, taken, aborted >>

-----------------------------------------------------------------------------

TransportNext ==
    \/ \E h \in Helpers : Unimplemented(h)
    \/ \E c \in SendCalls :
         \/ Send(c)
         \/ \E p \in Payloads : Stream(c, p)
         \/ Acknowledge(c)
         \/ SendFails(c)
    \/ \E p \in Pairs, s \in Steps : Receive(p[2], p[1], StepRoute(QueryId, s))
    \/ \E k \in Streams : Pull(k)

TransportSpec == TransportInit /\ [][TransportNext]_transportVars

-----------------------------------------------------------------------------
(* Properties *)

TransportTypeOK ==
    /\ request \in [SendCalls -> { "none", "sent", "acked", "failed" }]
    /\ body \in [Streams -> Seq(Chunks)]
    /\ pulled \in [Streams -> 0 .. MaxChunks]
    \* a stream that receive hands out is one that the route of a send
    \* addresses: both go through Option::from of the route's coordinates
    /\ taken \subseteq { StreamOf(c) : c \in SendCalls }
    /\ aborted \subseteq Helpers

=============================================================================

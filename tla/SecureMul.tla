------------------------------ MODULE SecureMul ------------------------------
(***************************************************************************)
(* multiply of a protocol context (protocol/mul/mod.rs) on top of the      *)
(* transport: the dispatch on the security model of the context, and the   *)
(* exchange on the ring of roles that a multiplication runs.               *)
(*                                                                         *)
(* mod.rs hands the record id to SemiHonestMul or to MaliciouslySecureMul. *)
(* These two, the gateway and the field are not among the source files:    *)
(* the exchange follows section 4.6 of the specification, and a            *)
(* contribution is named by the product it belongs to, not computed.       *)
(***************************************************************************)
EXTENDS Transport

CONSTANTS
    Coordinator,    \* the helper whose new_query built the gateways
    Multiplied,     \* Multiplied[m]: the record ids multiplied under model m
    MulStep,        \* the step of the exchange on the shares
    MacStep         \* the step of the exchange on the MAC-multiplied shares

VARIABLES
    security,       \* the security model of the context of this query
    exchange,       \* exchange[h, r, s]: how far h is with step s of product r
    received,       \* received[h, r, s]: the chunk h took for it, if any
    returned,       \* returned[h][r]: what multiply(r) returned on h
    accumulator     \* accumulator[h]: the products the accumulator covers

mulVars == << security, exchange, received, returned, accumulator >>
vars == << transportVars, mulVars >>

SecurityModels == { "SemiHonest", "Malicious" }
Records == UNION { Multiplied[m] : m \in SecurityModels }
Exchanges == Helpers \X Records \X Steps

ASSUME
    /\ Coordinator \in Helpers
    /\ { MulStep, MacStep } \subseteq Steps /\ MulStep # MacStep
    /\ [record : Records, term : Records] \subseteq Payloads

-----------------------------------------------------------------------------
(* multiply *)

\* A multiplication that exchanges under a fixed record id.
SemiHonestMultiplyFirstRecord(r) ==
    [record |-> 0, steps |-> { MulStep }, accumulates |-> FALSE]

\* A multiplication that hands on the record id of another product.
SemiHonestMultiplySameRecord(r) ==
    [record |-> CHOOSE x \in Records : TRUE, steps |-> { MulStep },
     accumulates |-> FALSE]

\* impl SecureMul for ProtocolContext<Replicated<F>, F>.
SemiHonestMultiply(r) ==
    [record |-> r, steps |-> { MulStep }, accumulates |-> FALSE]

\* impl SecureMul for ProtocolContext<MaliciousReplicated<F>, F>: the
\* record id and the accumulator of the context are handed on; the second
\* exchange is that of MaliciouslySecureMul (section 4.6 of the
\* specification).
MaliciousMultiply(r) ==
    [record |-> r, steps |-> { MulStep, MacStep }, accumulates |-> TRUE]

\* ctx.multiply(record_id, a, b): the impl is chosen by the type of the context.
Multiply(r) ==
    IF security = "Malicious" THEN MaliciousMultiply(r) ELSE SemiHonestMultiply(r)

-----------------------------------------------------------------------------
(* The exchange *)

roles == RolesFor(Coordinator)
RightPeer(h) == Holder(roles, RoleRight[roles[h]])
LeftPeer(h) == Holder(roles, RoleLeft[roles[h]])

Outgoing(h, s) ==
    [from |-> h, to |-> RightPeer(h), route |-> ResourceRoute("Records", QueryId, s)]
Incoming(h, s) == StreamKey(LeftPeer(h), h, StepRoute(QueryId, s))

Running(h, r) ==
    Dispatched(h) /\ r \in Multiplied[security] /\ returned[h][r] = "none"

\* h sends its contribution to step s of product r to the right.
Contribute(h, r, s) ==
    LET c == Outgoing(h, s)
    IN /\ Running(h, r) /\ s \in Multiply(r).steps
       /\ exchange[h, r, s] = "idle" /\ request[c] # "failed"
       /\ request' = Open(c)
       /\ body' = Yield(c, Chunk(h, s, [record |-> Multiply(r).record, term |-> r]))
       /\ exchange' = [exchange EXCEPT ![h, r, s] = "sent"]
       /\ UNCHANGED << pulled, taken, aborted, security, received, returned, accumulator >>

\* h takes the contribution of its left peer that carries its record id.
Collect(h, r, s) ==
    LET k == Incoming(h, s)
    IN /\ Running(h, r) /\ exchange[h, r, s] = "sent"
       /\ request[Outgoing(h, s)] = "acked" /\ Established(k)
       /\ \E i \in DOMAIN body[k] :
            /\ body[k][i].payload.record = Multiply(r).record
            /\ received' = [received EXCEPT ![h, r, s] = { body[k][i] }]
       /\ taken' = taken \cup { k }
       /\ exchange' = [exchange EXCEPT ![h, r, s] = "done"]
       /\ UNCHANGED << request, body, pulled, aborted, security, returned, accumulator >>

\* Every exchange of the product is done: multiply returns the share.
ReturnShare(h, r) ==
    /\ Running(h, r)
    /\ \A s \in Multiply(r).steps : exchange[h, r, s] = "done"
    /\ returned' = [returned EXCEPT ![h][r] = "Ok"]
    /\ accumulator' = IF Multiply(r).accumulates
                      THEN [accumulator EXCEPT ![h] = @ \cup { r }]
                      ELSE accumulator
    /\ UNCHANGED << transportVars, security, exchange, received >>

\* Variant in which the error of a send is dropped and multiply goes on
\* to wait for the contribution of the left peer.
ReturnErrorIgnored(h, r) ==
    /\ Running(h, r)
    /\ \E s \in Multiply(r).steps : request[Outgoing(h, s)] = "failed"
    /\ UNCHANGED vars

\* A send of the product has failed: multiply returns the boxed error.
ReturnError(h, r) ==
    /\ Running(h, r)
    /\ \E s \in Multiply(r).steps : request[Outgoing(h, s)] = "failed"
    /\ returned' = [returned EXCEPT ![h][r] = "Err"]
    /\ UNCHANGED << transportVars, security, exchange, received, accumulator >>

HelperStep(h) ==
    \E r \in Records :
        \/ \E s \in Steps : Contribute(h, r, s) \/ Collect(h, r, s)
        \/ ReturnShare(h, r)
        \/ ReturnError(h, r)

-----------------------------------------------------------------------------

Init ==
    /\ TransportInit
    /\ security \in SecurityModels
    /\ exchange = [x \in Exchanges |-> "idle"]
    /\ received = [x \in Exchanges |-> {}]
    /\ returned = [h \in Helpers |-> [r \in Records |-> "none"]]
    /\ accumulator = [h \in Helpers |-> {}]

\* The transport of the right peer acknowledges the request, or it fails.
Acknowledged(c) == Acknowledge(c) /\ UNCHANGED mulVars
Fails(c) == SendFails(c) /\ UNCHANGED mulVars

Requests == { Outgoing(h, s) : h \in Helpers, s \in Steps }

Next ==
    \/ \E h \in Helpers : HelperStep(h)
    \/ \E c \in Requests : Acknowledged(c)
    \/ \E c \in Requests : Fails(c)

Spec == Init /\ [][Next]_vars

\* A helper's protocol task is scheduled while it can run, and the transport
\* delivers the headers of a request to a helper that is up.
Fairness ==
    /\ \A h \in Helpers : WF_vars(HelperStep(h))
    /\ \A c \in Requests : WF_vars(Acknowledged(c))

FairSpec == Spec /\ Fairness

-----------------------------------------------------------------------------
(* Properties *)

MulTypeOK ==
    /\ TransportTypeOK
    /\ security \in SecurityModels
    /\ exchange \in [Exchanges -> { "idle", "sent", "done" }]
    /\ received \in [Exchanges -> SUBSET Chunks]
    /\ returned \in [Helpers -> [Records -> { "none", "Ok", "Err" }]]
    /\ accumulator \in [Helpers -> SUBSET Multiplied[security]]

\* A share that multiply returns is made of the contributions of the left
\* peer to the same product and the same step: products that are
\* multiplied side by side on one channel are told apart by their record
\* id (the record_id mod.rs passes on), and the two exchanges of a
\* malicious multiplication by their step.
ContributionsMatch ==
    \A h \in Helpers, r \in Records :
        returned[h][r] = "Ok" =>
            \A s \in Multiply(r).steps :
                received[h, r, s] = { Chunk(LeftPeer(h), s, [record |-> r, term |-> r]) }

\* The task of a helper, as the processor that awaits it sees it: failed
\* when a multiply has returned an error, done when all have returned
\* their share.
Task(h) ==
    CASE \E r \in Multiplied[security] : returned[h][r] = "Err" -> "failed"
      [] \A r \in Multiplied[security] : returned[h][r] = "Ok"  -> "done"
      [] OTHER                                                  -> "running"

QueryRun ==
    INSTANCE QueryTask
        WITH task <- [h \in Helpers |-> Task(h)],
             leftOf <- [h \in Helpers |-> LeftPeer(h)]

\* The multiplications of a query keep the promise of a query task: a
\* helper gets all its shares only if no send of its left peer has failed,
\* and once it has them the sends of its left peer have all gone through,
\* whatever the order in which the three helpers contribute, are
\* acknowledged and collect, and wherever a send fails.  This is what lets
\* the processor treat the run of a query as one task per helper.
ImplementsQueryTask == QueryRun!Spec

\* A multiply that never returns waits behind a failed send of its left
\* peer, and nowhere else: the helper whose send fails returns the error,
\* the helper to its right never gets the contribution (nothing at this
\* layer has a deadline), and the third helper is served by the one that
\* waits, whose own send went through before it started to wait.  While no
\* send fails every multiply returns: each helper waits for its left peer
\* only, and the three sends of a step do not wait for one another.
WaitsOnlyBehindFailedSend ==
    <>(\A h \in Helpers, r \in Multiplied[security] :
          \/ returned[h][r] # "none"
          \/ \E s \in Multiply(r).steps :
                request[Outgoing(LeftPeer(h), s)] = "failed")

=============================================================================

------------------------------- MODULE Outbox -------------------------------
(***************************************************************************)
(* The gateway's transactional outbox: POST /v2/goals writes a goal and its *)
(* goal.created.v1 event in one tenant transaction, and every gateway       *)
(* instance runs a relay that drains unpublished events to Kafka.           *)
(*                                                                         *)
(* A request is identified with the goal it asks for and with the event it  *)
(* raises.  The Kafka topic is kept as the number of copies of each event:  *)
(* the writer balances by bytes, not by key, so consumers see no order.     *)
(***************************************************************************)
EXTENDS Naturals, FiniteSets

CONSTANTS
    Requests,    \* POST /v2/goals requests, one goal and one event each
    Gateways,    \* gateway instances: each serves requests and runs a relay
    Host,        \* which instance the load balancer gave each request to
    Limit,       \* LIMIT of the relay's SELECT (100 in the code)
    Lossy,       \* events whose unacknowledged write the broker may drop
    Oversized,   \* events larger than the writer's maximum message size
    MaxFaults    \* bound on relay failures: errors, retries, crashes

ASSUME OutboxAssumption ==
    /\ Host \in [Requests -> Gateways]
    /\ IsFiniteSet(Gateways)
    /\ Limit \in Nat \ {0}
    /\ Lossy \subseteq Requests /\ Oversized \subseteq Requests
    /\ MaxFaults \in Nat

VARIABLES
    tx,         \* progress of each request's tenant transaction
    nextId,     \* the domain_events id sequence: never rolled back
    eventId,    \* id the request's event row took, 0 before that
    goals,      \* committed goal rows
    outbox,     \* committed domain_events rows
    published,  \* rows whose published_at is set
    reply,      \* HTTP answer each client got
    batch,      \* rows each relay selected and has not finished
    pc,         \* where each relay stands in drainOutbox
    copies,     \* copies of each event in the Kafka topic
    faults      \* relay failures so far

vars == <<tx, nextId, eventId, goals, outbox, published, reply,
          batch, pc, copies, faults>>
requestVars == <<tx, nextId, eventId, goals, outbox, reply>>
relayVars == <<published, batch, pc, copies, faults>>

TxStates == {"none", "open", "goal", "event", "failed", "rejected", "done"}
-----------------------------------------------------------------------------
Init ==
    /\ tx = [r \in Requests |-> "none"]
    /\ nextId = 1
    /\ eventId = [r \in Requests |-> 0]
    /\ goals = {} /\ outbox = {} /\ published = {}
    /\ reply = [r \in Requests |-> "none"]
    /\ batch = [g \in Gateways |-> {}]
    /\ pc = [g \in Gateways |-> "idle"]
    /\ copies = [r \in Requests |-> 0]
    /\ faults = 0

(* The request path: withTenantTx around handleV2GoalsCreate. *)

Step(r, from, to) == tx[r] = from /\ tx' = [tx EXCEPT ![r] = to]

\* BEGIN, SET LOCAL ROLE and set_config; any of them may fail, and then no
\* handler runs and the client is told so.
BeginTx(r) ==
    /\ \/ Step(r, "none", "open") /\ UNCHANGED reply
       \/ Step(r, "none", "done") /\ reply' = [reply EXCEPT ![r] = "error"]
    /\ UNCHANGED <<nextId, eventId, goals, outbox>> /\ UNCHANGED relayVars

\* The handler validates the body (400) and inserts the goal (500 on error).
InsertGoal(r) ==
    /\ \E to \in {"goal", "failed", "rejected"} : Step(r, "open", to)
    /\ UNCHANGED <<nextId, eventId, goals, outbox, reply>> /\ UNCHANGED relayVars

\* Mutant: a second event is handed an id that was already taken.
InsertEventSameId(r) ==
    /\ Step(r, "goal", "event")
    /\ eventId' = [eventId EXCEPT ![r] = nextId]
    /\ UNCHANGED <<nextId, goals, outbox, reply>> /\ UNCHANGED relayVars

\* Mutant: the event is inserted on the pool's connection, not in the tx.
InsertEventOutsideTx(r) ==
    /\ Step(r, "goal", "event")
    /\ eventId' = [eventId EXCEPT ![r] = nextId] /\ nextId' = nextId + 1
    /\ outbox' = outbox \cup {r}
    /\ UNCHANGED <<goals, reply>> /\ UNCHANGED relayVars

\* publishDomainEvent: the event row joins the same transaction and takes the
\* next id of the sequence, before anyone knows whether it will commit.
InsertEvent(r) ==
    /\ \/ /\ Step(r, "goal", "event")
          /\ eventId' = [eventId EXCEPT ![r] = nextId]
          /\ nextId' = nextId + 1
       \/ Step(r, "goal", "failed") /\ UNCHANGED <<eventId, nextId>>
    /\ UNCHANGED <<goals, outbox, reply>> /\ UNCHANGED relayVars

\* The deferred end of withTenantTx for a status below 500: it commits, and
\* the answer is the one the handler wrote, whatever Commit returned.
CommitTx(r) ==
    /\ \/ /\ Step(r, "event", "done")
          /\ reply' = [reply EXCEPT ![r] = "ok"]
          /\ \/ goals' = goals \cup {r} /\ outbox' = outbox \cup {r}
             \/ UNCHANGED <<goals, outbox>>
       \/ /\ Step(r, "rejected", "done")
          /\ reply' = [reply EXCEPT ![r] = "bad request"]
          /\ UNCHANGED <<goals, outbox>>
    /\ UNCHANGED <<nextId, eventId>> /\ UNCHANGED relayVars

\* ... and for a 5xx status: it rolls back.
RollbackTx(r) ==
    /\ Step(r, "failed", "done")
    /\ reply' = [reply EXCEPT ![r] = "error"]
    /\ UNCHANGED <<nextId, eventId, goals, outbox>> /\ UNCHANGED relayVars

(* The relay path: drainOutbox, once a second in every instance. *)

Unpublished == outbox \ published
First(r, S) == r \in S /\ \A q \in S : eventId[r] <= eventId[q]

\* Mutant: the drain reads the newest rows first.
SelectNewest(g) ==
    /\ pc[g] = "idle" /\ Unpublished # {}
    /\ \E r \in Unpublished :
          /\ \A q \in Unpublished : eventId[q] <= eventId[r]
          /\ batch' = [batch EXCEPT ![g] = {r}]
    /\ pc' = [pc EXCEPT ![g] = "write"]
    /\ UNCHANGED <<published, copies, faults>> /\ UNCHANGED requestVars

\* SELECT ... WHERE published_at IS NULL ORDER BY id LIMIT n, without a lock.
Select(g) ==
    /\ pc[g] = "idle"
    /\ Unpublished # {}
    /\ \E B \in SUBSET Unpublished :
          /\ B # {}
          /\ Cardinality(B) <= Limit
          /\ B = Unpublished \/ Cardinality(B) = Limit
          /\ \A r \in B, q \in Unpublished \ B : eventId[r] <= eventId[q]
          /\ batch' = [batch EXCEPT ![g] = B]
    /\ pc' = [pc EXCEPT ![g] = "write"]
    /\ UNCHANGED <<published, copies, faults>> /\ UNCHANGED requestVars

Fault == faults < MaxFaults /\ faults' = faults + 1
AddCopy(r) == copies' = [copies EXCEPT ![r] = @ + 1]
Abandon(g) == /\ batch' = [batch EXCEPT ![g] = {}]
              /\ pc' = [pc EXCEPT ![g] = "idle"]

\* WriteMessages returns nil.  The writer asks for no acknowledgement, so the
\* broker may have dropped a message the call reports as written.
WriteOk(g, r) ==
    /\ r \notin Oversized
    /\ \/ AddCopy(r)
       \/ r \in Lossy /\ UNCHANGED copies
    /\ pc' = [pc EXCEPT ![g] = "mark"]
    /\ UNCHANGED <<batch, faults>>

\* WriteMessages retries inside the library after an attempt that landed.
WriteRetry(g, r) ==
    /\ r \notin Oversized
    /\ Fault /\ AddCopy(r)
    /\ UNCHANGED <<batch, pc>>

\* Mutant: a failed write is logged and the row is marked all the same.
WriteFailsButMarks(g, r) ==
    /\ Fault /\ pc' = [pc EXCEPT ![g] = "mark"]
    /\ UNCHANGED <<batch, copies>>

\* WriteMessages returns an error, with the message in the topic or not; the
\* drain returns, and the rest of the batch waits for the next tick.
WriteFails(g, r) ==
    /\ \/ r \in Oversized /\ UNCHANGED <<copies, faults>>
       \/ /\ r \notin Oversized /\ Fault
          /\ AddCopy(r) \/ UNCHANGED copies
    /\ Abandon(g)

Write(g) ==
    /\ pc[g] = "write"
    /\ \E r \in batch[g] :
          /\ First(r, batch[g])
          /\ WriteOk(g, r) \/ WriteRetry(g, r) \/ WriteFails(g, r)
    /\ UNCHANGED published /\ UNCHANGED requestVars

\* Mutant: rows are marked only when the drain ends, so the last one alone is.
MarkLastOnly(g, r) ==
    /\ published' = IF batch[g] = {r} THEN published \cup {r} ELSE published
    /\ batch' = [batch EXCEPT ![g] = @ \ {r}]
    /\ pc' = [pc EXCEPT ![g] = IF batch[g] = {r} THEN "idle" ELSE "write"]
    /\ UNCHANGED <<copies, faults>>

\* UPDATE published_at; a failed one ends the drain, and may have taken effect.
MarkOk(g, r) ==
    /\ published' = published \cup {r}
    /\ batch' = [batch EXCEPT ![g] = @ \ {r}]
    /\ pc' = [pc EXCEPT ![g] = IF batch[g] = {r} THEN "idle" ELSE "write"]
    /\ UNCHANGED <<copies, faults>>

MarkFails(g, r) ==
    /\ Fault
    /\ published' = published \/ published' = published \cup {r}
    /\ Abandon(g)
    /\ UNCHANGED copies

Mark(g) ==
    /\ pc[g] = "mark"
    /\ \E r \in batch[g] :
          /\ First(r, batch[g])
          /\ MarkOk(g, r) \/ MarkFails(g, r)
    /\ UNCHANGED requestVars

\* An instance dies and is replaced: the relay forgets its batch, PostgreSQL
\* rolls the open transactions back, and their clients get no answer.
Crash(g) ==
    /\ Fault
    /\ Abandon(g)
    /\ tx' = [r \in Requests |->
                 IF Host[r] = g /\ tx[r] \notin {"none", "done"}
                 THEN "done" ELSE tx[r]]
    /\ UNCHANGED <<nextId, eventId, goals, outbox, reply, published, copies>>
-----------------------------------------------------------------------------
Request(r) == BeginTx(r) \/ InsertGoal(r) \/ InsertEvent(r)
                 \/ CommitTx(r) \/ RollbackTx(r)
Relay(g) == Select(g) \/ Write(g) \/ Mark(g)

Next == \/ \E r \in Requests : Request(r)
        \/ \E g \in Gateways : Relay(g) \/ Crash(g)

Spec == Init /\ [][Next]_vars

\* The ticker keeps every relay going; faults are finite by MaxFaults.
FairSpec == Spec /\ \A g \in Gateways : WF_vars(Relay(g))
-----------------------------------------------------------------------------
(* What the outbox must guarantee. *)

\* Every variable has its type; event ids were all taken from the sequence.
RequestTypeOK ==
    /\ tx \in [Requests -> TxStates]
    /\ nextId \in Nat
    /\ eventId \in [Requests -> Nat]
    /\ \A r \in Requests : eventId[r] < nextId
    /\ goals \subseteq Requests
    /\ outbox \subseteq Requests
    /\ reply \in [Requests -> {"none", "ok", "bad request", "error"}]

RelayTypeOK ==
    /\ published \subseteq Requests
    /\ batch \in [Gateways -> SUBSET Requests]
    /\ pc \in [Gateways -> {"idle", "write", "mark"}]
    /\ copies \in [Requests -> Nat]
    /\ faults \in Nat /\ faults <= MaxFaults

TypeOK == RequestTypeOK /\ RelayTypeOK

\* No phantom event: what reached Kafka belongs to a goal that is stored, so in
\* particular to no request whose transaction was rolled back with a 5xx.
NoPhantom ==
    \A r \in Requests : copies[r] > 0 => r \in goals /\ reply[r] # "error"

\* An event is taken out of the relay's sight only after Kafka has it, except
\* for one the broker dropped behind an unacknowledged write.
MarkedReachedTopic ==
    \A r \in published : copies[r] > 0 \/ r \in Lossy

\* Duplicates have a price: an event is sent at most once per instance whose
\* relay had it in hand, plus once per failure, however the relays interleave.
DuplicatesBounded ==
    \A r \in Requests : copies[r] <= Cardinality(Gateways) + faults

\* The outbox implements the abstract at-least-once feed.
Feed == INSTANCE EventFeed WITH
            Events <- Requests, Excused <- Lossy, stored <- outbox,
            delivered <- {r \in Requests : copies[r] > 0}, settled <- published
ImplementsFeed == Feed!FeedSpec

\* If the goal is committed its event reaches Kafka, unless the broker drops
\* it or an event too large to be written sits before it in the outbox: the
\* drain stops at the first error, so that event holds back every later one.
Blocked(r) == \E q \in outbox \cap Oversized : eventId[q] <= eventId[r]
EventReachesTopic ==
    \A r \in Requests :
        r \in outbox ~> (copies[r] > 0 \/ r \in Lossy \/ Blocked(r))
-----------------------------------------------------------------------------
(* The inductive invariant behind NoPhantom and MarkedReachedTopic. *)

\* Requests: a committed row belongs to a finished request that was not told
\* of a failure, and the event ids of committed rows are distinct.
RequestInv ==
    /\ nextId > 0
    /\ outbox \subseteq goals
    /\ \A r \in goals : tx[r] = "done" /\ reply[r] # "error"
    /\ \A r \in Requests : r \in outbox \/ tx[r] = "event" => eventId[r] > 0
    /\ \A r, q \in Requests : eventId[r] = eventId[q] /\ eventId[r] > 0 => r = q

\* Relays: they only hold and mark committed rows, an idle one holds none,
\* and what they are about to mark has been written.
RelayInv ==
    /\ published \subseteq outbox
    /\ \A g \in Gateways : batch[g] \subseteq outbox
    /\ \A g \in Gateways : pc[g] = "idle" => batch[g] = {}
    /\ \A r \in Requests : copies[r] > 0 => r \in outbox
    /\ \A r \in published : copies[r] > 0 \/ r \in Lossy
    /\ \A g \in Gateways, r \in Requests :
          pc[g] = "mark" /\ First(r, batch[g]) => copies[r] > 0 \/ r \in Lossy

IInv == TypeOK /\ RequestInv /\ RelayInv
-----------------------------------------------------------------------------
(* The inductive invariant behind DuplicatesBounded, on top of IInv. *)

\* The relays that may still write r without a failure: it is unpublished or in
\* their batch, and they are not about to mark it.  Each pays for one copy.
MayWrite(r) == {g \in Gateways : /\ r \notin published \/ r \in batch[g]
                                 /\ ~(pc[g] = "mark" /\ First(r, batch[g]))}
DuplicateInv ==
    \A r \in Requests :
        copies[r] + Cardinality(MayWrite(r)) <= Cardinality(Gateways) + faults
=============================================================================

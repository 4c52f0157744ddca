---------------------------- MODULE OutboxProofs ----------------------------
(***************************************************************************)
(* Proofs about Outbox for any number of requests and gateway instances,    *)
(* any batch limit and any bound on failures.                               *)
(***************************************************************************)
EXTENDS Outbox, FiniteSetTheorems, TLAPS

-----------------------------------------------------------------------------
\* The bound on relay failures is a number.
LEMMA MaxFaultsNat == MaxFaults \in Nat
BY OutboxAssumption DEF OutboxAssumption

\* A relay failure is counted and stays within the bound.
LEMMA FaultType ==
    ASSUME faults \in Nat, Fault
    PROVE  faults' \in Nat /\ faults' <= MaxFaults
BY MaxFaultsNat DEF Fault

\* A write that lands keeps the topic a count of copies.
LEMMA AddCopyType ==
    ASSUME copies \in [Requests -> Nat], NEW r \in Requests, AddCopy(r)
    PROVE  copies' \in [Requests -> Nat]
BY DEF AddCopy

\* A relay that gives up a drain is left in a legal state.
LEMMA AbandonType ==
    ASSUME RelayTypeOK, NEW g \in Gateways, Abandon(g)
    PROVE  /\ batch' \in [Gateways -> SUBSET Requests]
           /\ pc' \in [Gateways -> {"idle", "write", "mark"}]
BY DEF Abandon, RelayTypeOK

\* A statement of a request leaves every transaction in a legal state.
LEMMA StepType ==
    ASSUME tx \in [Requests -> TxStates], NEW r \in Requests,
           NEW from, NEW to \in TxStates, Step(r, from, to)
    PROVE  tx' \in [Requests -> TxStates]
BY DEF Step

\* Every variable keeps its type, whatever relays and requests do.
THEOREM TypeCorrect == Spec => []TypeOK
<1>1. Init => TypeOK
  BY MaxFaultsNat DEF Init, TypeOK, RequestTypeOK, RelayTypeOK, TxStates
<1>2. TypeOK /\ [Next]_vars => TypeOK'
  <2> SUFFICES ASSUME RequestTypeOK, RelayTypeOK, [Next]_vars
               PROVE  RequestTypeOK' /\ RelayTypeOK'
    BY DEF TypeOK
  <2>1. ASSUME NEW r \in Requests, Request(r) PROVE RequestTypeOK' /\ RelayTypeOK'
    <3>1. RelayTypeOK'
      BY <2>1 DEF Request, BeginTx, InsertGoal, InsertEvent, CommitTx,
                  RollbackTx, RelayTypeOK, relayVars
    <3>2. tx' \in [Requests -> TxStates]
      <4>1. \E from : \E to \in TxStates : Step(r, from, to)
        BY <2>1 DEF Request, BeginTx, InsertGoal, InsertEvent, CommitTx,
                    RollbackTx, TxStates
      <4> QED BY <4>1, StepType DEF RequestTypeOK
    <3>3. /\ nextId' \in Nat /\ eventId' \in [Requests -> Nat]
          /\ \A q \in Requests : eventId'[q] < nextId'
      <4>1. CASE nextId' = nextId /\ eventId' = eventId
        BY <4>1 DEF RequestTypeOK
      <4>2. CASE nextId' = nextId + 1 /\ eventId' = [eventId EXCEPT ![r] = nextId]
        <5>0. nextId \in Nat
          BY DEF RequestTypeOK
        <5>1. nextId' \in Nat /\ nextId < nextId'
          BY <4>2, <5>0
        <5>2. \A q \in Requests : eventId'[q] = eventId[q] \/ eventId'[q] = nextId
          BY <4>2 DEF RequestTypeOK
        <5>3. \A q \in Requests : eventId[q] \in Nat /\ eventId[q] < nextId
          BY DEF RequestTypeOK
        <5>4. \A q \in Requests : eventId'[q] < nextId'
          BY <5>0, <5>1, <5>2, <5>3
        <5>5. eventId' \in [Requests -> Nat]
          BY <4>2, <5>0 DEF RequestTypeOK
        <5> QED BY <5>1, <5>4, <5>5
      <4> QED BY <2>1, <4>1, <4>2 DEF Request, BeginTx, InsertGoal,
                                      InsertEvent, CommitTx, RollbackTx
    <3>4. goals' \subseteq Requests /\ outbox' \subseteq Requests
      BY <2>1 DEF Request, BeginTx, InsertGoal, InsertEvent, CommitTx,
                  RollbackTx, RequestTypeOK
    <3>5. reply' \in [Requests -> {"none", "ok", "bad request", "error"}]
      BY <2>1 DEF Request, BeginTx, InsertGoal, InsertEvent, CommitTx,
                  RollbackTx, RequestTypeOK
    <3> QED BY <3>1, <3>2, <3>3, <3>4, <3>5 DEF RequestTypeOK
  <2>2. ASSUME NEW g \in Gateways, Select(g) PROVE RequestTypeOK' /\ RelayTypeOK'
    <3>1. RequestTypeOK'
      BY <2>2 DEF Select, RequestTypeOK, requestVars
    <3>2. RelayTypeOK'
      BY <2>2 DEF Select, Unpublished, RelayTypeOK, RequestTypeOK
    <3> QED BY <3>1, <3>2
  <2>3. ASSUME NEW g \in Gateways, Write(g) PROVE RequestTypeOK' /\ RelayTypeOK'
    <3>1. RequestTypeOK'
      BY <2>3 DEF Write, RequestTypeOK, requestVars
    <3>2. PICK r \in batch[g] : WriteOk(g, r) \/ WriteRetry(g, r) \/ WriteFails(g, r)
      BY <2>3 DEF Write
    <3>3. r \in Requests
      BY DEF RelayTypeOK
    <3>4. copies' \in [Requests -> Nat]
      BY <3>2, <3>3, AddCopyType DEF WriteOk, WriteRetry, WriteFails, RelayTypeOK
    <3>5. faults' \in Nat /\ faults' <= MaxFaults
      BY <3>2, FaultType DEF WriteOk, WriteRetry, WriteFails, RelayTypeOK
    <3>6. /\ batch' \in [Gateways -> SUBSET Requests]
          /\ pc' \in [Gateways -> {"idle", "write", "mark"}]
      BY <3>2, AbandonType DEF WriteOk, WriteRetry, WriteFails, RelayTypeOK
    <3> QED BY <2>3, <3>1, <3>4, <3>5, <3>6 DEF Write, RelayTypeOK
  <2>4. ASSUME NEW g \in Gateways, Mark(g) PROVE RequestTypeOK' /\ RelayTypeOK'
    <3>1. RequestTypeOK'
      BY <2>4 DEF Mark, RequestTypeOK, requestVars
    <3>2. PICK r \in batch[g] : MarkOk(g, r) \/ MarkFails(g, r)
      BY <2>4 DEF Mark
    <3>3. r \in Requests
      BY DEF RelayTypeOK
    <3>4. faults' \in Nat /\ faults' <= MaxFaults
      BY <3>2, FaultType DEF MarkOk, MarkFails, RelayTypeOK
    <3>5. /\ batch' \in [Gateways -> SUBSET Requests]
          /\ pc' \in [Gateways -> {"idle", "write", "mark"}]
      <4>1. CASE MarkOk(g, r)
        BY <4>1 DEF MarkOk, RelayTypeOK
      <4>2. CASE MarkFails(g, r)
        BY <4>2, AbandonType DEF MarkFails
      <4> QED BY <3>2, <4>1, <4>2
    <3>6. published' \subseteq Requests /\ copies' = copies
      BY <3>2, <3>3 DEF MarkOk, MarkFails, RelayTypeOK
    <3> QED BY <3>1, <3>4, <3>5, <3>6 DEF RelayTypeOK
  <2>5. ASSUME NEW g \in Gateways, Crash(g) PROVE RequestTypeOK' /\ RelayTypeOK'
    <3>1. tx' \in [Requests -> TxStates]
      BY <2>5 DEF Crash, RequestTypeOK, TxStates
    <3>2. RequestTypeOK'
      BY <2>5, <3>1 DEF Crash, RequestTypeOK
    <3>3. RelayTypeOK'
      BY <2>5, AbandonType, FaultType DEF Crash, RelayTypeOK
    <3> QED BY <3>2, <3>3
  <2>6. CASE UNCHANGED vars
    BY <2>6 DEF vars, RequestTypeOK, RelayTypeOK
  <2> QED BY <2>1, <2>2, <2>3, <2>4, <2>5, <2>6 DEF Next, Relay
<1> QED BY <1>1, <1>2, PTL DEF Spec
-----------------------------------------------------------------------------
\* The invariant holds when the gateways start on an empty database.
LEMMA InitIInv == Init => IInv
<1> SUFFICES ASSUME Init PROVE IInv
  OBVIOUS
<1>1. TypeOK
  BY MaxFaultsNat DEF Init, TypeOK, RequestTypeOK, RelayTypeOK, TxStates
<1>2. RequestInv
  BY DEF Init, RequestInv
<1>3. RelayInv
  BY DEF Init, RelayInv
<1> QED BY <1>1, <1>2, <1>3 DEF IInv

\* A request moves only while its transaction is open, so it touches no
\* committed row's id, and it never touches what the relays own.
LEMMA RequestFrame ==
    ASSUME IInv, NEW r \in Requests, Request(r)
    PROVE  /\ UNCHANGED relayVars
           /\ r \notin goals
           /\ outbox \subseteq outbox'
           /\ \A q \in outbox : eventId'[q] = eventId[q]
<1>1. UNCHANGED relayVars
  BY DEF Request, BeginTx, InsertGoal, InsertEvent, CommitTx, RollbackTx
<1>2. tx[r] # "done"
  BY DEF Request, BeginTx, InsertGoal, InsertEvent, CommitTx, RollbackTx, Step
<1>3. r \notin goals /\ r \notin outbox
  BY <1>2 DEF IInv, RequestInv
<1>4. outbox \subseteq outbox'
  BY DEF Request, BeginTx, InsertGoal, InsertEvent, CommitTx, RollbackTx
<1>5. eventId' = eventId \/ eventId' = [eventId EXCEPT ![r] = nextId]
  BY DEF Request, BeginTx, InsertGoal, InsertEvent, CommitTx, RollbackTx
<1>6. \A q \in outbox : eventId'[q] = eventId[q]
  BY <1>3, <1>5 DEF IInv, TypeOK, RequestTypeOK
<1> QED BY <1>1, <1>3, <1>4, <1>6

\* A statement of a request keeps committed rows with finished requests that were
\* not refused, and event ids distinct.
LEMMA RequestKeepsRequestInv ==
    ASSUME IInv, NEW r \in Requests, Request(r)
    PROVE  RequestInv'
<1> USE DEF Request, BeginTx, InsertGoal, InsertEvent, CommitTx, RollbackTx
<1>0. tx \in [Requests -> TxStates] /\ r \notin goals
  BY RequestFrame DEF IInv, TypeOK, RequestTypeOK
<1>1. nextId' > 0
  <2>1. nextId \in Nat /\ nextId > 0
    BY DEF IInv, TypeOK, RequestTypeOK, RequestInv
  <2>2. nextId' = nextId \/ nextId' = nextId + 1
    OBVIOUS
  <2> QED BY ONLY <2>1, <2>2
<1>2. outbox' \subseteq goals'
  BY DEF IInv, RequestInv
<1>3. \A q \in goals' : tx'[q] = "done" /\ reply'[q] # "error"
  <2> SUFFICES ASSUME NEW q \in goals' PROVE tx'[q] = "done" /\ reply'[q] # "error"
    OBVIOUS
  <2>1. q \in Requests /\ reply \in [Requests -> {"none", "ok", "bad request", "error"}]
    BY DEF IInv, TypeOK, RequestTypeOK
  <2>2. CASE q = r
    <3>1. r \in goals' => /\ Step(r, "event", "done")
                          /\ reply' = [reply EXCEPT ![r] = "ok"]
      BY <1>0
    <3> QED BY <2>1, <2>2, <3>1, <1>0 DEF Step
  <2>3. CASE q # r
    <3>1. q \in goals
      BY <2>3
    <3>2. tx[q] = "done" /\ reply[q] # "error"
      BY <3>1 DEF IInv, RequestInv
    <3>3. tx'[q] = tx[q]
      BY <2>1, <2>3, <1>0 DEF Step
    <3>4. reply'[q] = reply[q]
      BY <2>1, <2>3
    <3> QED BY <3>2, <3>3, <3>4
  <2> QED BY <2>2, <2>3
<1>4. \A q \in Requests : q \in outbox' \/ tx'[q] = "event" => eventId'[q] > 0
  <2> SUFFICES ASSUME NEW q \in Requests, q \in outbox' \/ tx'[q] = "event"
               PROVE  eventId'[q] > 0
    OBVIOUS
  <2>1. eventId \in [Requests -> Nat] /\ nextId > 0
    BY DEF IInv, TypeOK, RequestTypeOK, RequestInv
  <2>2. CASE q = r
    <3>1. CASE InsertEvent(r) /\ tx'[r] = "event"
      <4>1. eventId' = [eventId EXCEPT ![r] = nextId]
        BY <3>1, <1>0 DEF Step
      <4> QED BY <2>1, <2>2, <4>1
    <3>2. CASE CommitTx(r)
      BY <2>2, <3>2, <1>0 DEF Step, IInv, RequestInv
    <3>3. CASE ~CommitTx(r) /\ outbox' = outbox /\ r \notin outbox
      BY <2>2, <3>3, <3>1, <1>0 DEF Step
    <3>4. r \notin outbox
      BY <1>0 DEF IInv, RequestInv
    <3>5. CommitTx(r) \/ outbox' = outbox
      OBVIOUS
    <3> QED BY <3>2, <3>3, <3>4, <3>5
  <2>3. CASE q # r
    <3>1. tx'[q] = tx[q] /\ eventId'[q] = eventId[q] /\ (q \in outbox' => q \in outbox)
      BY <2>3, <2>1, <1>0 DEF Step
    <3> QED BY <3>1 DEF IInv, RequestInv
  <2> QED BY <2>2, <2>3
<1>5. \A p, q \in Requests : eventId'[p] = eventId'[q] /\ eventId'[p] > 0 => p = q
  <2>1. eventId' = eventId \/ eventId' = [eventId EXCEPT ![r] = nextId]
    OBVIOUS
  <2>2. /\ eventId \in [Requests -> Nat]
        /\ \A q \in Requests : eventId[q] # nextId
    <3>1. \A q \in Requests : eventId[q] \in Nat /\ eventId[q] < nextId
      BY DEF IInv, TypeOK, RequestTypeOK
    <3>2. eventId \in [Requests -> Nat] /\ nextId \in Nat
      BY DEF IInv, TypeOK, RequestTypeOK
    <3> QED BY ONLY <3>1, <3>2
  <2>3. \A p, q \in Requests : eventId[p] = eventId[q] /\ eventId[p] > 0 => p = q
    BY DEF IInv, RequestInv
  <2> QED BY <2>1, <2>2, <2>3
<1> QED BY <1>1, <1>2, <1>3, <1>4, <1>5 DEF RequestInv

\* What a relay holds, marks or has delivered was committed, and stays so.
LEMMA RequestKeepsRelayInv ==
    ASSUME IInv, NEW r \in Requests, Request(r)
    PROVE  RelayInv'
<1>1. /\ UNCHANGED relayVars
      /\ outbox \subseteq outbox'
      /\ \A q \in outbox : eventId'[q] = eventId[q]
  BY RequestFrame
<1>2. \A g \in Gateways, q \in Requests :
         First(q, batch[g])' => First(q, batch[g])
  BY <1>1 DEF First, IInv, RelayInv, relayVars
<1> QED BY <1>1, <1>2 DEF IInv, RelayInv, relayVars

\* The SELECT of a drain hands a relay committed rows only.
LEMMA SelectKeepsRelayInv ==
    ASSUME IInv, NEW g \in Gateways, Select(g)
    PROVE  RelayInv'
<1>1. PICK B \in SUBSET Unpublished : batch' = [batch EXCEPT ![g] = B]
  BY DEF Select
<1>2. /\ pc' = [pc EXCEPT ![g] = "write"]
      /\ UNCHANGED <<published, copies, outbox, eventId>>
  BY DEF Select, requestVars
<1>3. /\ batch \in [Gateways -> SUBSET Requests]
      /\ pc \in [Gateways -> {"idle", "write", "mark"}]
  BY DEF IInv, TypeOK, RelayTypeOK
<1>4. \A h \in Gateways : batch'[h] \subseteq outbox
  BY <1>1, <1>3 DEF Unpublished, IInv, RelayInv
<1>5. \A h \in Gateways : pc'[h] = "idle" => batch'[h] = {}
  BY <1>1, <1>2, <1>3 DEF IInv, RelayInv
<1>6. \A h \in Gateways, q \in Requests :
         pc'[h] = "mark" /\ First(q, batch[h])' => copies[q] > 0 \/ q \in Lossy
  BY <1>1, <1>2, <1>3 DEF First, IInv, RelayInv
<1> QED BY <1>2, <1>4, <1>5, <1>6 DEF IInv, RelayInv

\* Distinct ids: a batch has at most one first row.
LEMMA FirstUnique ==
    ASSUME IInv, NEW S \in SUBSET outbox, NEW r, NEW q, First(r, S), First(q, S)
    PROVE  r = q
<1>1. r \in Requests /\ q \in Requests /\ r \in outbox
  BY DEF First, IInv, TypeOK, RequestTypeOK
<1>2. eventId[r] <= eventId[q] /\ eventId[q] <= eventId[r]
  BY DEF First
<1>3. eventId[r] \in Nat /\ eventId[q] \in Nat
  BY <1>1 DEF IInv, TypeOK, RequestTypeOK
<1>4. eventId[r] = eventId[q]
  BY ONLY <1>2, <1>3
<1> QED BY <1>1, <1>4 DEF IInv, RequestInv

\* A write to Kafka, whatever it answers, adds copies of committed events only and
\* lets a relay go on to mark only what it has written.
LEMMA WriteKeepsRelayInv ==
    ASSUME IInv, NEW g \in Gateways, Write(g)
    PROVE  RelayInv'
<1>1. PICK r \in batch[g] :
         /\ First(r, batch[g])
         /\ WriteOk(g, r) \/ WriteRetry(g, r) \/ WriteFails(g, r)
  BY DEF Write
<1>2. /\ UNCHANGED <<published, outbox, eventId>> /\ pc[g] = "write"
  BY DEF Write, requestVars
<1>3. /\ batch \in [Gateways -> SUBSET Requests]
      /\ pc \in [Gateways -> {"idle", "write", "mark"}]
      /\ copies \in [Requests -> Nat]
  BY DEF IInv, TypeOK, RelayTypeOK
<1>4. r \in outbox /\ r \in Requests
  BY <1>3 DEF IInv, RelayInv
<1>5. AddCopy(r) \/ copies' = copies
  BY <1>1 DEF WriteOk, WriteRetry, WriteFails
<1>6. \A q \in Requests : copies[q] > 0 => copies'[q] > 0
  BY <1>3, <1>4, <1>5 DEF AddCopy
<1>7. \A q \in Requests : copies'[q] > 0 => q \in outbox
  BY <1>3, <1>4, <1>5 DEF AddCopy, IInv, RelayInv
<1>8. (batch' = batch /\ pc' = pc) \/ Abandon(g)
         \/ (batch' = batch /\ pc' = [pc EXCEPT ![g] = "mark"])
  BY <1>1 DEF WriteOk, WriteRetry, WriteFails
<1>9. /\ \A h \in Gateways : batch'[h] \subseteq outbox
      /\ \A h \in Gateways : pc'[h] = "idle" => batch'[h] = {}
  BY <1>1, <1>3, <1>8 DEF Abandon, IInv, RelayInv
<1>10. ASSUME NEW h \in Gateways, NEW q \in Requests,
              pc'[h] = "mark", First(q, batch[h])'
       PROVE  copies'[q] > 0 \/ q \in Lossy
  <2>1. CASE h = g
    <3>1. WriteOk(g, r) /\ batch'[g] = batch[g]
      BY <1>1, <1>2, <1>3, <1>10, <2>1 DEF WriteOk, WriteRetry, WriteFails, Abandon
    <3>2. First(q, batch[g])
      BY <1>2, <1>10, <2>1, <3>1 DEF First
    <3>3. q = r
      BY <1>1, <3>2, FirstUnique DEF IInv, RelayInv
    <3>4. AddCopy(r) => copies'[r] > 0
      <4>1. copies[r] \in Nat
        BY <1>3, <1>4
      <4>2. AddCopy(r) => copies'[r] = copies[r] + 1
        BY <1>3, <1>4 DEF AddCopy
      <4> QED BY ONLY <4>1, <4>2
    <3> QED BY <3>1, <3>3, <3>4 DEF WriteOk
  <2>2. CASE h # g
    <3>1. pc[h] = "mark" /\ First(q, batch[h])
      BY <1>2, <1>3, <1>8, <1>10, <2>2 DEF Abandon, First
    <3> QED BY <3>1, <1>6 DEF IInv, RelayInv
  <2> QED BY <2>1, <2>2
<1>11. /\ published' \subseteq outbox'
       /\ \A q \in published' : copies'[q] > 0 \/ q \in Lossy
  BY <1>2, <1>6 DEF IInv, RelayInv, TypeOK, RelayTypeOK
<1> QED BY <1>2, <1>7, <1>9, <1>10, <1>11 DEF RelayInv

\* The UPDATE of published_at touches the row that was written, and no other.
LEMMA MarkKeepsRelayInv ==
    ASSUME IInv, NEW g \in Gateways, Mark(g)
    PROVE  RelayInv'
<1>1. PICK r \in batch[g] : First(r, batch[g]) /\ (MarkOk(g, r) \/ MarkFails(g, r))
  BY DEF Mark
<1>2. UNCHANGED <<outbox, eventId, copies>> /\ pc[g] = "mark"
  BY <1>1 DEF Mark, requestVars, MarkOk, MarkFails
<1>3. /\ batch \in [Gateways -> SUBSET Requests]
      /\ pc \in [Gateways -> {"idle", "write", "mark"}]
  BY DEF IInv, TypeOK, RelayTypeOK
<1>4. r \in outbox /\ r \in Requests /\ (copies[r] > 0 \/ r \in Lossy)
  BY <1>1, <1>2, <1>3 DEF IInv, RelayInv
<1>5. published' \subseteq published \cup {r}
  BY <1>1 DEF MarkOk, MarkFails
<1>6. /\ published' \subseteq outbox'
      /\ \A q \in published' : copies'[q] > 0 \/ q \in Lossy
  BY <1>2, <1>4, <1>5 DEF IInv, RelayInv
<1>7. /\ \A h \in Gateways : batch'[h] \subseteq outbox'
      /\ \A h \in Gateways : pc'[h] = "idle" => batch'[h] = {}
  <2>1. CASE MarkOk(g, r)
    BY <2>1, <1>2, <1>3 DEF MarkOk, IInv, RelayInv
  <2>2. CASE MarkFails(g, r)
    BY <2>2, <1>2, <1>3 DEF MarkFails, Abandon, IInv, RelayInv
  <2> QED BY <1>1, <2>1, <2>2
<1>8. \A h \in Gateways : pc'[h] = "mark" => pc[h] = "mark" /\ batch'[h] = batch[h]
  BY <1>1, <1>3 DEF MarkOk, MarkFails, Abandon
<1>9. \A h \in Gateways, q \in Requests :
         pc'[h] = "mark" /\ First(q, batch[h])' => copies'[q] > 0 \/ q \in Lossy
  BY <1>2, <1>8 DEF First, IInv, RelayInv
<1> QED BY <1>2, <1>6, <1>7, <1>9 DEF IInv, RelayInv

\* A crash undoes nothing that was committed and empties the relay's hands.
LEMMA CrashKeepsIInv ==
    ASSUME IInv, NEW g \in Gateways, Crash(g)
    PROVE  RequestInv' /\ RelayInv'
<1>1. /\ batch \in [Gateways -> SUBSET Requests]
      /\ pc \in [Gateways -> {"idle", "write", "mark"}]
      /\ tx \in [Requests -> TxStates] /\ goals \subseteq Requests
  BY DEF IInv, TypeOK, RequestTypeOK, RelayTypeOK
<1>2. \A r \in Requests : tx'[r] = tx[r] \/ tx'[r] = "done"
  BY <1>1 DEF Crash
<1>3. RequestInv'
  <2>1. UNCHANGED <<nextId, eventId, goals, outbox, reply>>
    BY DEF Crash
  <2>2. \A r \in goals : tx'[r] = "done"
    BY <1>1, <1>2 DEF IInv, RequestInv
  <2>3. \A r \in Requests : tx'[r] = "event" => tx[r] = "event"
    BY <1>2
  <2> QED BY <2>1, <2>2, <2>3 DEF IInv, RequestInv
<1>4. \A h \in Gateways : \/ batch'[h] = {} /\ pc'[h] = "idle"
                          \/ batch'[h] = batch[h] /\ pc'[h] = pc[h]
  BY <1>1 DEF Crash, Abandon
<1>5. UNCHANGED <<outbox, eventId, copies, published>>
  BY DEF Crash
<1>6. \A h \in Gateways, q \in Requests :
         pc'[h] = "mark" /\ First(q, batch[h])' => copies'[q] > 0 \/ q \in Lossy
  BY <1>4, <1>5 DEF First, IInv, RelayInv
<1>7. RelayInv'
  BY <1>4, <1>5, <1>6 DEF IInv, RelayInv
<1> QED BY <1>3, <1>7

-----------------------------------------------------------------------------
\* Every step of the gateways keeps the invariant.
LEMMA Inductive == IInv /\ TypeOK' /\ [Next]_vars => IInv'
<1> SUFFICES ASSUME IInv, TypeOK', [Next]_vars PROVE IInv'
  OBVIOUS
<1>1. ASSUME NEW r \in Requests, Request(r) PROVE IInv'
  BY <1>1, RequestKeepsRequestInv, RequestKeepsRelayInv DEF IInv
<1>2. ASSUME NEW g \in Gateways, Relay(g) PROVE RequestInv'
  <2>1. UNCHANGED requestVars
    BY <1>2 DEF Relay, Select, Write, Mark
  <2> QED BY <2>1 DEF requestVars, IInv, RequestInv
<1>3. ASSUME NEW g \in Gateways, Relay(g) PROVE RelayInv'
  BY <1>3, SelectKeepsRelayInv, WriteKeepsRelayInv, MarkKeepsRelayInv DEF Relay
<1>4. ASSUME NEW g \in Gateways, Crash(g) PROVE IInv'
  BY <1>4, CrashKeepsIInv DEF IInv
<1>5. CASE UNCHANGED vars
  BY <1>5 DEF vars, IInv, TypeOK, RequestTypeOK, RelayTypeOK, RequestInv,
              RelayInv, First
<1> QED BY <1>1, <1>2, <1>3, <1>4, <1>5 DEF Next, IInv

\* The inductive invariant holds throughout: what relays hold, mark and deliver was
\* committed by a request that was not told of a failure.
THEOREM Invariance == Spec => []IInv
<1>1. Spec => []TypeOK
  BY TypeCorrect
<1> QED BY <1>1, InitIInv, Inductive, PTL DEF Spec

\* Kafka never carries an event of a transaction that was rolled back.
THEOREM NoPhantomHolds == Spec => []NoPhantom
<1>1. IInv => NoPhantom
  BY DEF IInv, RequestInv, RelayInv, NoPhantom
<1> QED BY <1>1, Invariance, PTL

\* The relay marks nothing that is not in Kafka, unacknowledged losses aside.
THEOREM MarkedReachedTopicHolds == Spec => []MarkedReachedTopic
<1>1. IInv => MarkedReachedTopic
  BY DEF IInv, RelayInv, MarkedReachedTopic
<1> QED BY <1>1, Invariance, PTL
-----------------------------------------------------------------------------
(* Duplicates: every copy but the first of each instance is paid by a failure. *)

\* What a step can do to one event: nothing, or a failure that puts it back in a
\* relay's hands or adds a copy, or a first copy by a relay that then goes on to
\* mark it.
DuplicateStep(r) ==
    \/ /\ copies'[r] = copies[r] /\ faults' = faults
       /\ MayWrite(r)' \subseteq MayWrite(r)
    \/ /\ copies'[r] = copies[r] /\ faults' = faults + 1
       /\ \E g \in Gateways : MayWrite(r)' \subseteq MayWrite(r) \cup {g}
    \/ /\ copies'[r] = copies[r] + 1 /\ faults' = faults + 1
       /\ MayWrite(r)' \subseteq MayWrite(r)
    \/ /\ copies'[r] = copies[r] + 1 /\ faults' = faults
       /\ \E g \in MayWrite(r) : MayWrite(r)' \subseteq MayWrite(r) \ {g}

\* A request commits events with fresh ids and reorders no relay's batch.
LEMMA RequestDuplicates ==
    ASSUME IInv, NEW q \in Requests, Request(q), NEW r \in Requests
    PROVE  DuplicateStep(r)
<1>1. UNCHANGED relayVars /\ \A p \in outbox : eventId'[p] = eventId[p]
  BY RequestFrame
<1>2. \A g \in Gateways : First(r, batch[g])' <=> First(r, batch[g])
  BY <1>1 DEF First, IInv, RelayInv, relayVars
<1>3. MayWrite(r)' = MayWrite(r)
  BY <1>1, <1>2 DEF MayWrite, relayVars
<1> QED BY <1>1, <1>3 DEF DuplicateStep, relayVars

\* The relay that selects an unpublished row could have written it all along.
LEMMA SelectDuplicates ==
    ASSUME IInv, NEW g \in Gateways, Select(g), NEW r \in Requests
    PROVE  DuplicateStep(r)
<1>1. /\ UNCHANGED <<published, copies, faults, eventId>> /\ pc[g] = "idle"
      /\ pc' = [pc EXCEPT ![g] = "write"]
      /\ \E B \in SUBSET Unpublished : batch' = [batch EXCEPT ![g] = B]
  BY DEF Select, requestVars
<1>2. \A h \in Gateways : h # g => batch'[h] = batch[h] /\ pc'[h] = pc[h]
  BY <1>1 DEF IInv, TypeOK, RelayTypeOK
<1>3. batch'[g] \subseteq Unpublished
  BY <1>1 DEF IInv, TypeOK, RelayTypeOK
<1>4. \A h \in Gateways : h # g => (First(r, batch[h])' <=> First(r, batch[h]))
  BY <1>1, <1>2 DEF First
<1>5. g \in MayWrite(r)' => g \in MayWrite(r)
  BY <1>1, <1>3 DEF MayWrite, Unpublished
<1>6. MayWrite(r)' \subseteq MayWrite(r)
  BY <1>1, <1>2, <1>4, <1>5 DEF MayWrite
<1> QED BY <1>1, <1>6 DEF DuplicateStep

\* A relay that changes nothing but its own step and batch makes no other relay a
\* writer, as long as no row comes back to the unpublished.
LEMMA OtherWriters ==
    ASSUME IInv, NEW g \in Gateways, published \subseteq published',
           eventId' = eventId,
           \A h \in Gateways : h # g => batch'[h] = batch[h] /\ pc'[h] = pc[h],
           NEW r \in Requests
    PROVE  MayWrite(r)' \subseteq MayWrite(r) \cup {g}
<1>1. \A h \in Gateways : h # g => (First(r, batch[h])' <=> First(r, batch[h]))
  BY DEF First
<1> QED BY <1>1 DEF MayWrite

\* A write that succeeds is the relay's one copy; any other is a failure.
LEMMA WriteDuplicates ==
    ASSUME IInv, NEW g \in Gateways, Write(g), NEW r \in Requests
    PROVE  DuplicateStep(r)
<1>0. /\ pc \in [Gateways -> {"idle", "write", "mark"}]
      /\ batch \in [Gateways -> SUBSET Requests]
      /\ copies \in [Requests -> Nat]
  BY DEF IInv, TypeOK, RelayTypeOK
<1>1. PICK q \in batch[g] :
         /\ First(q, batch[g])
         /\ WriteOk(g, q) \/ WriteRetry(g, q) \/ WriteFails(g, q)
  BY DEF Write
<1>2. UNCHANGED <<published, eventId>> /\ pc[g] = "write"
  BY DEF Write, requestVars
<1>3. \A h \in Gateways : h # g => batch'[h] = batch[h] /\ pc'[h] = pc[h]
  BY <1>0, <1>1 DEF WriteOk, WriteRetry, WriteFails, Abandon
<1>4. batch'[g] \subseteq batch[g]
  BY <1>0, <1>1 DEF WriteOk, WriteRetry, WriteFails, Abandon
<1>5. MayWrite(r)' \subseteq MayWrite(r)
  <2>1. g \in MayWrite(r)' => g \in MayWrite(r)
    BY <1>2, <1>4 DEF MayWrite
  <2> QED BY <1>2, <1>3, <2>1, OtherWriters
<1>6. copies'[r] = copies[r] \/ (copies'[r] = copies[r] + 1 /\ r = q)
  BY <1>0, <1>1 DEF WriteOk, WriteRetry, WriteFails, AddCopy
<1>7. CASE faults' = faults + 1
  <2>1. \E h \in Gateways : MayWrite(r)' \subseteq MayWrite(r) \cup {h}
    BY <1>5
  <2> QED BY <1>5, <1>6, <1>7, <2>1 DEF DuplicateStep
<1>8. CASE faults' = faults /\ copies'[r] = copies[r]
  BY <1>5, <1>8 DEF DuplicateStep
<1>9. CASE WriteOk(g, q) /\ r = q /\ copies'[r] = copies[r] + 1
  <2>1. batch' = batch /\ pc' = [pc EXCEPT ![g] = "mark"] /\ faults' = faults
    BY <1>9 DEF WriteOk
  <2>2. First(r, batch[g])' /\ pc'[g] = "mark"
    BY <1>0, <1>1, <1>2, <1>9, <2>1 DEF First
  <2>3. g \in MayWrite(r) /\ g \notin MayWrite(r)'
    BY <1>1, <1>2, <1>9, <2>2 DEF MayWrite
  <2> QED BY <1>5, <1>9, <2>1, <2>3 DEF DuplicateStep
<1>10. \/ faults' = faults + 1
       \/ faults' = faults /\ copies' = copies
       \/ faults' = faults /\ WriteOk(g, q)
  BY <1>1 DEF WriteOk, WriteRetry, WriteFails, Fault
<1> QED BY <1>6, <1>7, <1>8, <1>9, <1>10

\* Marking takes the row out of every relay's reach but of those that hold it.
LEMMA MarkDuplicates ==
    ASSUME IInv, NEW g \in Gateways, Mark(g), NEW r \in Requests
    PROVE  DuplicateStep(r)
<1>0. /\ pc \in [Gateways -> {"idle", "write", "mark"}]
      /\ batch \in [Gateways -> SUBSET Requests]
  BY DEF IInv, TypeOK, RelayTypeOK
<1>1. PICK q \in batch[g] : First(q, batch[g]) /\ (MarkOk(g, q) \/ MarkFails(g, q))
  BY DEF Mark
<1>2. /\ UNCHANGED <<eventId, copies>> /\ pc[g] = "mark"
      /\ published \subseteq published'
  BY <1>1 DEF Mark, requestVars, MarkOk, MarkFails
<1>3. \A h \in Gateways : h # g => batch'[h] = batch[h] /\ pc'[h] = pc[h]
  BY <1>0, <1>1 DEF MarkOk, MarkFails, Abandon
<1>4. MayWrite(r)' \subseteq MayWrite(r) \cup {g}
  BY <1>2, <1>3, OtherWriters
<1>5. CASE MarkFails(g, q)
  BY <1>2, <1>4, <1>5 DEF MarkFails, Fault, DuplicateStep
<1>6. CASE MarkOk(g, q)
  <2>1. batch'[g] = batch[g] \ {q} /\ q \in published' /\ faults' = faults
    BY <1>0, <1>6 DEF MarkOk
  <2>2. First(r, batch[g]) => r = q
    BY <1>1, FirstUnique DEF IInv, RelayInv
  <2>3. g \in MayWrite(r)' => g \in MayWrite(r)
    BY <1>2, <2>1, <2>2 DEF MayWrite
  <2> QED BY <1>2, <1>4, <2>1, <2>3 DEF DuplicateStep
<1> QED BY <1>1, <1>5, <1>6

\* A crash gives one relay its rows to write again, and is itself a failure.
LEMMA CrashDuplicates ==
    ASSUME IInv, NEW g \in Gateways, Crash(g), NEW r \in Requests
    PROVE  DuplicateStep(r)
<1>1. UNCHANGED <<published, eventId, copies>> /\ faults' = faults + 1
  BY DEF Crash, Fault
<1>2. \A h \in Gateways : h # g => batch'[h] = batch[h] /\ pc'[h] = pc[h]
  BY DEF Crash, Abandon, IInv, TypeOK, RelayTypeOK
<1>3. MayWrite(r)' \subseteq MayWrite(r) \cup {g}
  BY <1>1, <1>2, OtherWriters
<1> QED BY <1>1, <1>3 DEF DuplicateStep

\* The account balances after every step.
LEMMA DuplicateKept ==
    ASSUME IInv, DuplicateInv, [Next]_vars
    PROVE  DuplicateInv'
<1> SUFFICES ASSUME NEW r \in Requests
             PROVE  copies'[r] + Cardinality(MayWrite(r)')
                       <= Cardinality(Gateways) + faults'
  BY DEF DuplicateInv
<1> DEFINE W == MayWrite(r)
           V == MayWrite(r)'
<1>1. DuplicateStep(r)
  <2>1. CASE UNCHANGED vars
    BY <2>1 DEF vars, DuplicateStep, MayWrite, First
  <2> QED BY <2>1, RequestDuplicates, SelectDuplicates, WriteDuplicates,
             MarkDuplicates, CrashDuplicates DEF Next, Relay
<1>2. IsFiniteSet(Gateways) /\ IsFiniteSet(W) /\ IsFiniteSet(V)
  <2>1. W \subseteq Gateways /\ V \subseteq Gateways
    BY DEF MayWrite
  <2> QED BY <2>1, OutboxAssumption, FS_Subset DEF OutboxAssumption
<1>3. /\ Cardinality(Gateways) \in Nat /\ Cardinality(W) \in Nat
      /\ Cardinality(V) \in Nat
  BY <1>2, FS_CardinalityType
<1>4. copies[r] \in Nat /\ faults \in Nat
  BY DEF IInv, TypeOK, RelayTypeOK
<1>5. copies[r] + Cardinality(W) <= Cardinality(Gateways) + faults
  BY DEF DuplicateInv
<1>6. V \subseteq W => Cardinality(V) <= Cardinality(W)
  BY <1>2, FS_Subset
<1>7. \A g \in Gateways : V \subseteq W \cup {g} => Cardinality(V) <= Cardinality(W) + 1
  <2> SUFFICES ASSUME NEW g \in Gateways, V \subseteq W \cup {g}
               PROVE  Cardinality(V) <= Cardinality(W) + 1
    OBVIOUS
  <2>1. /\ IsFiniteSet(W \cup {g})
        /\ Cardinality(W \cup {g})
              = IF g \in W THEN Cardinality(W) ELSE Cardinality(W) + 1
    BY <1>2, FS_AddElement
  <2>2. Cardinality(V) <= Cardinality(W \cup {g})
    BY <2>1, FS_Subset
  <2> QED BY <1>3, <2>1, <2>2
<1>8. \A g \in W : V \subseteq W \ {g} => Cardinality(V) <= Cardinality(W) - 1
  <2> SUFFICES ASSUME NEW g \in W, V \subseteq W \ {g}
               PROVE  Cardinality(V) <= Cardinality(W) - 1
    OBVIOUS
  <2>1. IsFiniteSet(W \ {g}) /\ Cardinality(W \ {g}) = Cardinality(W) - 1
    BY <1>2, FS_RemoveElement
  <2>2. Cardinality(V) <= Cardinality(W \ {g})
    BY <2>1, FS_Subset
  <2> QED BY <2>1, <2>2
<1> HIDE DEF W, V
<1>9. copies'[r] + Cardinality(V) <= Cardinality(Gateways) + faults'
  BY <1>1, <1>3, <1>4, <1>5, <1>6, <1>7, <1>8 DEF DuplicateStep, W, V
<1> QED BY <1>9 DEF V

\* An event is sent at most once by each instance and once more for each failure,
\* however many relays hold the same row at once.
THEOREM DuplicatesBoundedHolds == Spec => []DuplicatesBounded
<1>1. Init => DuplicateInv
  <2> SUFFICES ASSUME Init, NEW r \in Requests
               PROVE  copies[r] + Cardinality(MayWrite(r))
                         <= Cardinality(Gateways) + faults
    BY DEF DuplicateInv
  <2>1. MayWrite(r) = Gateways /\ copies[r] = 0 /\ faults = 0
    BY DEF Init, MayWrite
  <2>2. Cardinality(Gateways) \in Nat
    BY OutboxAssumption, FS_CardinalityType DEF OutboxAssumption
  <2> QED BY <2>1, <2>2
<1>2. IInv /\ DuplicateInv /\ [Next]_vars => DuplicateInv'
  BY DuplicateKept
<1>3. IInv /\ DuplicateInv => DuplicatesBounded
  <2> SUFFICES ASSUME IInv, DuplicateInv, NEW r \in Requests
               PROVE  copies[r] <= Cardinality(Gateways) + faults
    BY DEF DuplicatesBounded
  <2>1. IsFiniteSet(Gateways) /\ IsFiniteSet(MayWrite(r))
    <3>1. MayWrite(r) \subseteq Gateways
      BY DEF MayWrite
    <3> QED BY <3>1, OutboxAssumption, FS_Subset DEF OutboxAssumption
  <2>2. Cardinality(MayWrite(r)) \in Nat /\ Cardinality(Gateways) \in Nat
    BY <2>1, FS_CardinalityType
  <2>3. copies[r] \in Nat /\ faults \in Nat
    BY DEF IInv, TypeOK, RelayTypeOK
  <2> QED BY <2>2, <2>3 DEF DuplicateInv
<1> QED BY <1>1, <1>2, <1>3, Invariance, PTL DEF Spec
-----------------------------------------------------------------------------
(* Refinement: the outbox implements the at-least-once feed. *)

\* The events Kafka has.
InTopic == {r \in Requests : copies[r] > 0}

\* Seen from the feed, a request stores its event or does nothing.
LEMMA CommitIsStore ==
    ASSUME IInv, NEW r \in Requests, Request(r)
    PROVE  Feed!Store(r) \/ UNCHANGED <<outbox, InTopic, published>>
<1>1. UNCHANGED relayVars /\ r \notin outbox
  BY RequestFrame DEF IInv, RequestInv
<1>2. outbox' = outbox \/ outbox' = outbox \cup {r}
  BY DEF Request, BeginTx, InsertGoal, InsertEvent, CommitTx, RollbackTx
<1> QED BY <1>1, <1>2 DEF Feed!Store, InTopic, relayVars

\* Seen from the feed, a write delivers a stored event or does nothing.
LEMMA WriteIsDeliver ==
    ASSUME IInv, NEW g \in Gateways, Write(g)
    PROVE  \/ \E r \in Requests : Feed!Deliver(r)
           \/ UNCHANGED <<outbox, InTopic, published>>
<1>1. PICK r \in batch[g] : WriteOk(g, r) \/ WriteRetry(g, r) \/ WriteFails(g, r)
  BY DEF Write
<1>2. UNCHANGED <<published, outbox>>
  BY DEF Write, requestVars
<1>3. copies \in [Requests -> Nat] /\ r \in Requests /\ r \in outbox
  BY DEF IInv, TypeOK, RequestTypeOK, RelayTypeOK, RelayInv
<1>4. AddCopy(r) \/ copies' = copies
  BY <1>1 DEF WriteOk, WriteRetry, WriteFails
<1>5. CASE AddCopy(r)
  <2>1. \A q \in Requests : copies'[q] > 0 <=> copies[q] > 0 \/ q = r
    BY <1>3, <1>5 DEF AddCopy
  <2>2. InTopic' = InTopic \cup {r}
    BY <1>3, <2>1 DEF InTopic
  <2> QED BY <1>2, <1>3, <2>2 DEF Feed!Deliver, InTopic
<1>6. CASE copies' = copies
  BY <1>2, <1>6 DEF InTopic
<1> QED BY <1>4, <1>5, <1>6

\* Seen from the feed, a mark settles a delivered or excused event or does nothing.
LEMMA MarkIsSettle ==
    ASSUME IInv, NEW g \in Gateways, Mark(g)
    PROVE  \/ \E r \in Requests : Feed!Settle(r)
           \/ UNCHANGED <<outbox, InTopic, published>>
<1>1. PICK r \in batch[g] : First(r, batch[g]) /\ (MarkOk(g, r) \/ MarkFails(g, r))
  BY DEF Mark
<1>2. UNCHANGED <<outbox, copies>> /\ pc[g] = "mark"
  BY <1>1 DEF Mark, requestVars, MarkOk, MarkFails
<1>3. r \in outbox /\ r \in Requests
  BY DEF IInv, TypeOK, RequestTypeOK, RelayInv
<1>4. r \in InTopic \cup Lossy
  BY <1>1, <1>2, <1>3 DEF IInv, RelayInv, InTopic
<1>5. published' = published \/ published' = published \cup {r}
  BY <1>1 DEF MarkOk, MarkFails
<1> QED BY <1>2, <1>3, <1>4, <1>5 DEF Feed!Settle, InTopic

\* Every behaviour of the outbox is one of the feed it promises: events appear
\* with their commit, only committed ones are delivered, and none is taken off
\* the list undelivered unless the broker dropped it.
THEOREM Refinement == Spec => ImplementsFeed
<1>1. Init => Feed!FeedInit
  BY DEF Init, Feed!FeedInit
<1>2. IInv /\ [Next]_vars => [Feed!FeedNext]_(Feed!feedVars)
  <2> SUFFICES ASSUME IInv, [Next]_vars
               PROVE  \/ Feed!FeedNext
                      \/ UNCHANGED <<outbox, InTopic, published>>
    BY DEF Feed!feedVars, InTopic
  <2>1. ASSUME NEW r \in Requests, Request(r)
        PROVE  Feed!FeedNext \/ UNCHANGED <<outbox, InTopic, published>>
    BY <2>1, CommitIsStore DEF Feed!FeedNext
  <2>2. ASSUME NEW g \in Gateways, Relay(g)
        PROVE  Feed!FeedNext \/ UNCHANGED <<outbox, InTopic, published>>
    <3>1. CASE Select(g)
      BY <3>1 DEF Select, requestVars, InTopic
    <3>2. CASE Write(g) \/ Mark(g)
      BY <3>2, WriteIsDeliver, MarkIsSettle DEF Feed!FeedNext
    <3> QED BY <2>2, <3>1, <3>2 DEF Relay
  <2>3. ASSUME NEW g \in Gateways, Crash(g)
        PROVE  UNCHANGED <<outbox, InTopic, published>>
    BY <2>3 DEF Crash, InTopic
  <2>4. CASE UNCHANGED vars
    BY <2>4 DEF vars, InTopic
  <2> QED BY <2>1, <2>2, <2>3, <2>4 DEF Next
<1> QED BY <1>1, <1>2, Invariance, PTL DEF Spec, ImplementsFeed, Feed!FeedSpec
=============================================================================

--------------------------- MODULE WorkflowProofs ---------------------------
(***************************************************************************)
(* Proofs about Workflow for any number of instances, goals, deliveries and *)
(* entities, and any bound on failures.                                     *)
(***************************************************************************)
EXTENDS Workflow, FiniteSetTheorems, TLAPS

-----------------------------------------------------------------------------
\* The offsets are the indices of the partition, and each delivers a goal.
LEMMA OffsetsAreNumbers ==
    /\ Len(Topic) \in Nat /\ Offsets = 1 .. Len(Topic)
    /\ \A o \in Offsets : o \in Nat /\ Topic[o] \in Goals
BY WorkflowAssumption DEF WorkflowAssumption, Offsets

\* A goal's entities are numbered from one.
LEMMA EntitiesAreNumbered ==
    \A g \in Goals : /\ Len(Entities[g]) \in Nat
                     /\ DOMAIN Entities[g] = 1 .. Len(Entities[g])
                     /\ Entities[g] # <<>> => 1 \in DOMAIN Entities[g]
<1> SUFFICES ASSUME NEW g \in Goals
             PROVE  /\ Len(Entities[g]) \in Nat
                    /\ DOMAIN Entities[g] = 1 .. Len(Entities[g])
                    /\ Entities[g] # <<>> => 1 \in DOMAIN Entities[g]
  OBVIOUS
<1> DEFINE S == {Entities[g][k] : k \in DOMAIN Entities[g]}
<1>1. Entities[g] \in Seq(S)
  BY WorkflowAssumption DEF WorkflowAssumption
<1> HIDE DEF S
<1> QED BY <1>1

\* No element, or two, make a sequence.
LEMMA PairIsSeq ==
    ASSUME NEW S, NEW a \in S, NEW b \in S
    PROVE  <<>> \in Seq(S) /\ <<a, b>> \in Seq(S)
OBVIOUS

\* An entity takes one gateway call at least, and its calls are numbered from one.
LEMMA CallsAreNumbered ==
    ASSUME NEW e
    PROVE  /\ Len(CallsFor(e)) \in Nat \ {0}
           /\ DOMAIN CallsFor(e) = 1 .. Len(CallsFor(e))
<1> DEFINE C == {[op |-> IF e.known THEN "enable" ELSE "create", on |-> e.code],
                 [op |-> "enable", on |-> e.price], [op |-> "link", on |-> e.price],
                 [op |-> "enable", on |-> e.spread], [op |-> "link", on |-> e.spread]}
           F == <<[op |-> IF e.known THEN "enable" ELSE "create", on |-> e.code]>>
<1>1. F \in Seq(C) /\ Len(F) = 1
  OBVIOUS
<1>2. IndicatorCalls(e.price) \in Seq(C) /\ IndicatorCalls(e.spread) \in Seq(C)
  <2>1. ASSUME NEW i, [op |-> "enable", on |-> i] \in C, [op |-> "link", on |-> i] \in C
        PROVE  IndicatorCalls(i) \in Seq(C)
    BY <2>1, PairIsSeq DEF IndicatorCalls
  <2> QED BY <2>1
<1>3. CallsFor(e) = F \o IndicatorCalls(e.price) \o IndicatorCalls(e.spread)
  BY DEF CallsFor
<1> HIDE DEF C, F
<1>4. CallsFor(e) \in Seq(C) /\ Len(CallsFor(e)) >= 1
  BY <1>1, <1>2, <1>3
<1> QED BY <1>4

-----------------------------------------------------------------------------
\* Every run is a row.
LEMMA RunsAreRows ==
    ASSUME TypeOK
    PROVE  /\ Len(runs) \in Nat /\ DOMAIN runs = 1 .. Len(runs)
           /\ \A i \in DOMAIN runs : /\ runs[i] \in Rows
                                     /\ runs[i].step <= Len(Entities[runs[i].goal])
BY DEF TypeOK

\* The goal in hand and the row of a saga, as far as their types tell.
LEMMA SagaTypes ==
    ASSUME TypeOK, RunInv, NEW w \in Workers
    PROVE  /\ pc[w] # "poll" => GoalOf(w) \in Goals /\ GoalOf(w) = Topic[at[w]]
           /\ Working(w) => /\ run[w] \in DOMAIN runs
                            /\ runs[run[w]].goal = GoalOf(w)
                            /\ runs[run[w]].step \in 0 .. Len(Entities[GoalOf(w)])
           /\ pc[w] = "step" => ent[w] \in 0 .. Len(Entities[GoalOf(w)])
<1>1. pc[w] # "poll" => GoalOf(w) \in Goals
  BY OffsetsAreNumbers DEF TypeOK, GoalOf
<1>2. Working(w) => /\ run[w] \in DOMAIN runs
                    /\ runs[run[w]].goal = GoalOf(w)
                    /\ runs[run[w]].step \in 0 .. Len(Entities[GoalOf(w)])
  <2> SUFFICES ASSUME Working(w)
               PROVE  /\ run[w] \in DOMAIN runs
                      /\ runs[run[w]].goal = GoalOf(w)
                      /\ runs[run[w]].step \in 0 .. Len(Entities[GoalOf(w)])
    OBVIOUS
  <2>1. run[w] \in DOMAIN runs /\ runs[run[w]].goal = GoalOf(w)
    BY DEF TypeOK, RunInv, SagaOK
  <2>2. runs[run[w]].step \in Nat /\ runs[run[w]].step <= Len(Entities[GoalOf(w)])
    BY <2>1, RunsAreRows DEF Rows
  <2>3. Len(Entities[GoalOf(w)]) \in Nat
    BY <1>1, EntitiesAreNumbered DEF Working
  <2> QED BY <2>1, <2>2, <2>3
<1>3. pc[w] = "step" => ent[w] \in 0 .. Len(Entities[GoalOf(w)])
  BY <1>1, EntitiesAreNumbered DEF RunInv, SagaOK
<1> QED BY <1>1, <1>2, <1>3 DEF GoalOf

\* The rows a saga may leave its own in.
RowsFor(g) == {r \in Rows : r.goal = g /\ r.step <= Len(Entities[g])}

\* A saga opens a row, or writes its own while its connection is whole and the row
\* is not yet closed, or leaves workflow_runs alone.
LEMMA RunsStep ==
    ASSUME TypeOK, RunInv, NEW w \in Workers, Work(w)
    PROVE  \/ runs' = runs
           \/ /\ pc[w] = "create"
              /\ \E r \in RowsFor(GoalOf(w)) : r.state = "planning" /\ runs' = Append(runs, r)
           \/ /\ db[w] = "ok" /\ Working(w) /\ pc[w] # "commit"
              /\ \E r \in RowsFor(GoalOf(w)) : runs' = [runs EXCEPT ![run[w]] = r]
<1>1. CASE CreateRun(w)
  <2>1. pc[w] = "create"
    BY <1>1 DEF CreateRun
  <2>2. Len(Entities[GoalOf(w)]) \in Nat
    BY <2>1, SagaTypes, EntitiesAreNumbered
  <2>3. [goal |-> GoalOf(w), state |-> "planning", step |-> 0] \in RowsFor(GoalOf(w))
    BY <2>1, <2>2, SagaTypes DEF RowsFor, Rows
  <2>4. \/ runs' = runs
        \/ runs' = Append(runs, [goal |-> GoalOf(w), state |-> "planning", step |-> 0])
    BY <1>1 DEF CreateRun, Execute
  <2> QED BY <2>1, <2>3, <2>4
<1>2. ASSUME NEW st \in {"running"} \cup Final, Working(w),
             runs' = SetRun(w, st)
      PROVE  \E r \in RowsFor(GoalOf(w)) : runs' = [runs EXCEPT ![run[w]] = r]
  <2>1. /\ run[w] \in DOMAIN runs /\ runs[run[w]].goal = GoalOf(w)
        /\ runs[run[w]].step \in 0 .. Len(Entities[GoalOf(w)])
    BY <1>2, SagaTypes
  <2>2. runs[run[w]] \in Rows
    BY <2>1, RunsAreRows
  <2>3. runs' = [runs EXCEPT ![run[w]] = [runs[run[w]] EXCEPT !.state = st]]
    BY <1>2 DEF SetRun
  <2>4. [runs[run[w]] EXCEPT !.state = st] \in RowsFor(GoalOf(w))
    BY <2>1, <2>2 DEF RowsFor, Rows
  <2> QED BY <2>3, <2>4
<1>3. CASE MarkRunning(w) \/ Finish(w) \/ MarkFailed(w)
  <2>1. Working(w) /\ pc[w] # "commit"
    BY <1>3 DEF MarkRunning, Finish, MarkFailed, Working
  <2>2. \/ runs' = runs
        \/ db[w] = "ok" /\ \E st \in {"running"} \cup Final : runs' = SetRun(w, st)
    BY <1>3 DEF MarkRunning, Finish, MarkFailed, Execute, Final
  <2> QED BY <2>1, <2>2, <1>2
<1>4. CASE LogStep(w)
  <2>1. Working(w) /\ pc[w] = "step"
    BY <1>4 DEF LogStep, Working
  <2>2. /\ run[w] \in DOMAIN runs /\ runs[run[w]].goal = GoalOf(w)
        /\ ent[w] \in 0 .. Len(Entities[GoalOf(w)])
    BY <2>1, SagaTypes
  <2>3. runs[run[w]] \in Rows
    BY <2>2, RunsAreRows
  <2>4. \/ runs' = runs
        \/ db[w] = "ok" /\ runs' = [runs EXCEPT ![run[w]] = [runs[run[w]] EXCEPT !.step = ent[w]]]
    BY <1>4 DEF LogStep, Execute
  <2>5. [runs[run[w]] EXCEPT !.step = ent[w]] \in RowsFor(GoalOf(w))
    BY <2>2, <2>3 DEF RowsFor, Rows
  <2> QED BY <2>1, <2>4, <2>5
<1>5. CASE Poll(w) \/ FetchCatalog(w) \/ CallGateway(w) \/ Brief(w) \/ CommitOffset(w)
  BY <1>5 DEF Poll, FetchCatalog, CallGateway, Brief, CommitOffset
<1> QED BY <1>1, <1>3, <1>4, <1>5 DEF Work

\* Rows are added at the end and rewritten by the saga that opened them only.
LEMMA RunsFrame ==
    ASSUME TypeOK, RunInv, NEW w \in Workers, Work(w)
    PROVE  /\ runs' \in Seq(Rows)
           /\ \A i \in DOMAIN runs' : runs'[i].step <= Len(Entities[runs'[i].goal])
           /\ DOMAIN runs \subseteq DOMAIN runs'
           /\ \A i \in DOMAIN runs :
                 \/ runs'[i] = runs[i]
                 \/ /\ i = run[w] /\ db[w] = "ok" /\ Working(w) /\ pc[w] # "commit"
                    /\ runs'[i].goal = runs[i].goal
<1>0. Len(runs) \in Nat /\ runs \in Seq(Rows) /\ DOMAIN runs = 1 .. Len(runs)
  BY RunsAreRows DEF TypeOK
<1>1. CASE runs' = runs
  BY <1>1, <1>0, RunsAreRows
<1>2. ASSUME pc[w] = "create", NEW r \in RowsFor(GoalOf(w)), runs' = Append(runs, r)
      PROVE  /\ runs' \in Seq(Rows)
             /\ \A i \in DOMAIN runs' : runs'[i].step <= Len(Entities[runs'[i].goal])
             /\ DOMAIN runs \subseteq DOMAIN runs'
             /\ \A i \in DOMAIN runs : runs'[i] = runs[i]
  <2>1. r \in Rows /\ r.step <= Len(Entities[r.goal])
    BY <1>2 DEF RowsFor
  <2>2. /\ runs' \in Seq(Rows) /\ DOMAIN runs' = 1 .. (Len(runs) + 1)
        /\ \A i \in 1 .. Len(runs) : runs'[i] = runs[i]
        /\ runs'[Len(runs) + 1] = r
    BY <1>0, <1>2, <2>1
  <2> QED BY <1>0, <2>1, <2>2, RunsAreRows
<1>3. ASSUME db[w] = "ok", Working(w), pc[w] # "commit",
             NEW r \in RowsFor(GoalOf(w)), runs' = [runs EXCEPT ![run[w]] = r]
      PROVE  /\ runs' \in Seq(Rows)
             /\ \A i \in DOMAIN runs' : runs'[i].step <= Len(Entities[runs'[i].goal])
             /\ DOMAIN runs \subseteq DOMAIN runs'
             /\ \A i \in DOMAIN runs :
                   runs'[i] = runs[i] \/ (i = run[w] /\ runs'[i].goal = runs[i].goal)
  <2>1. r \in Rows /\ r.step <= Len(Entities[r.goal]) /\ r.goal = GoalOf(w)
    BY <1>3 DEF RowsFor
  <2>2. run[w] \in DOMAIN runs /\ runs[run[w]].goal = GoalOf(w)
    BY <1>3, SagaTypes
  <2>3. /\ runs' \in Seq(Rows) /\ DOMAIN runs' = DOMAIN runs
        /\ \A i \in DOMAIN runs : runs'[i] = IF i = run[w] THEN r ELSE runs[i]
    BY <1>0, <1>3, <2>1, <2>2
  <2> QED BY <2>1, <2>2, <2>3, RunsAreRows
<1> QED BY <1>1, <1>2, <1>3, RunsStep

\* What one instance does leaves every other instance where it was.
LEMMA OthersUntouched ==
    ASSUME TypeOK, NEW w \in Workers, Work(w) \/ Rebalance(w) \/ Restart(w),
           NEW v \in Workers, v # w
    PROVE  /\ pc'[v] = pc[v] /\ db'[v] = db[v]
           /\ at'[v] = at[v] /\ run'[v] = run[v]
           /\ ent'[v] = ent[v] /\ call'[v] = call[v] /\ attached'[v] = attached[v]
<1> USE DEF TypeOK, Goto, sagaVars
<1>1. pc'[v] = pc[v] /\ db'[v] = db[v]
  BY DEF Work, Poll, CreateRun, MarkRunning, FetchCatalog, CallGateway, Advance,
         StepError, LogStep, Brief, Finish, MarkFailed, CommitOffset, Rebalance,
         Restart, Execute
<1>2. at'[v] = at[v] /\ run'[v] = run[v]
  BY DEF Work, Poll, CreateRun, MarkRunning, FetchCatalog, CallGateway,
         LogStep, Brief, Finish, MarkFailed, CommitOffset, Rebalance, Restart
<1>3. ent'[v] = ent[v] /\ call'[v] = call[v] /\ attached'[v] = attached[v]
  BY DEF Work, Poll, CreateRun, MarkRunning, FetchCatalog, CallGateway, Advance,
         StepError, LogStep, Brief, Finish, MarkFailed, CommitOffset, Rebalance,
         Restart
<1> QED BY <1>1, <1>2, <1>3

\* A call of the plan is about one of the indicators.
LEMMA CallIsIndicator ==
    ASSUME TypeOK, RunInv, NEW w \in Workers, pc[w] = "call"
    PROVE  CallsFor(EntityOf(w))[call[w]].on \in Indicators
<1>1. /\ GoalOf(w) \in Goals /\ ent[w] \in DOMAIN Entities[GoalOf(w)]
      /\ call[w] \in DOMAIN CallsFor(EntityOf(w))
  BY SagaTypes DEF RunInv, SagaOK
<1>2. CallsFor(EntityOf(w))[call[w]] \in CallsAt(GoalOf(w), ent[w])
  BY <1>1 DEF CallsAt, EntityOf
<1> QED BY <1>1, <1>2 DEF Indicators

\* The consumer's own statements keep the group's and the instance's offsets within
\* the partition.
LEMMA KafkaType ==
    ASSUME TypeOK, RunInv, NEW w \in Workers, Work(w) \/ Rebalance(w) \/ Restart(w)
    PROVE  /\ owner' \in Workers
           /\ committed' \in 1 .. (Len(Topic) + 1)
           /\ position' \in [Workers -> 1 .. (Len(Topic) + 1)]
<1> USE OffsetsAreNumbers DEF TypeOK, kafkaVars
<1>1. CASE Poll(w)
  <2>1. position[w] \in Offsets /\ position' = [position EXCEPT ![w] = position[w] + 1]
    BY <1>1 DEF Poll
  <2>2. position[w] + 1 \in 1 .. (Len(Topic) + 1)
    BY <2>1
  <2> QED BY <1>1, <2>1, <2>2 DEF Poll
<1>2. CASE CommitOffset(w)
  <2>1. at[w] \in Offsets
    BY <1>2 DEF CommitOffset
  <2>2. at[w] + 1 \in 1 .. (Len(Topic) + 1)
    BY <2>1
  <2> QED BY <1>2, <2>2 DEF CommitOffset
<1>3. CASE Rebalance(w) \/ Restart(w)
  BY <1>3 DEF Rebalance, Restart, Assign
<1>4. CASE UNCHANGED kafkaVars
  BY <1>4
<1> QED BY <1>1, <1>2, <1>3, <1>4 DEF Work, CreateRun, MarkRunning, FetchCatalog,
           CallGateway, LogStep, Brief, Finish, MarkFailed

\* Failures are counted, and a commit the gateway did not make good is one of them.
LEMMA FaultsType ==
    ASSUME TypeOK, NEW w \in Workers, Work(w) \/ Rebalance(w) \/ Restart(w)
    PROVE  faults' \in 0 .. MaxFaults /\ voided' \in 0 .. faults'
<1>0. MaxFaults \in Nat /\ faults \in 0 .. MaxFaults /\ voided \in 0 .. faults
  BY WorkflowAssumption DEF WorkflowAssumption, TypeOK
<1>1. \/ faults' = faults /\ voided' = voided
      \/ Fault /\ voided' \in {voided, voided + 1}
  BY DEF Work, Poll, CreateRun, MarkRunning, FetchCatalog, CallGateway, LogStep,
         Brief, Finish, MarkFailed, CommitOffset, Rebalance, Restart, Execute,
         tenantVars
<1> QED BY <1>0, <1>1 DEF Fault

\* A number, the first one and the next one.
LEMMA NextNumber == \A e \in Nat \ {0} : \A m \in {e, 1, e + 1} : m \in Nat \ {0}
OBVIOUS

\* The saga's own variables keep their types, statement by statement.
LEMMA SagaVarsType ==
    ASSUME TypeOK, RunInv, NEW w \in Workers, Work(w) \/ Rebalance(w) \/ Restart(w)
    PROVE  /\ pc' \in [Workers -> {"poll", "create", "plan", "fetch", "call", "step",
                                   "brief", "finish", "fail", "commit"}]
           /\ db' \in [Workers -> {"ok", "broken"}]
           /\ at' \in [Workers -> 0 .. Len(Topic)]
           /\ run' \in [Workers -> Nat]
           /\ ent' \in [Workers -> Nat \ {0}]
           /\ call' \in [Workers -> Nat \ {0}]
           /\ attached' \in [Workers -> SUBSET Indicators]
<1> USE DEF TypeOK, Goto, sagaVars
<1>1. pc' \in [Workers -> {"poll", "create", "plan", "fetch", "call", "step",
                           "brief", "finish", "fail", "commit"}]
  BY DEF Work, Poll, CreateRun, MarkRunning, FetchCatalog, CallGateway, Advance,
         StepError, LogStep, Brief, Finish, MarkFailed, CommitOffset, Rebalance,
         Restart, Execute
<1>2. db' \in [Workers -> {"ok", "broken"}]
  BY DEF Work, Poll, CreateRun, MarkRunning, FetchCatalog, CallGateway,
         LogStep, Brief, Finish, MarkFailed, CommitOffset, Rebalance,
         Restart, Execute
<1>3. at' \in [Workers -> 0 .. Len(Topic)] /\ run' \in [Workers -> Nat]
  <2>1. at' = at \/ (position[w] \in Offsets /\ at' = [at EXCEPT ![w] = position[w]])
    BY DEF Work, Poll, CreateRun, MarkRunning, FetchCatalog, CallGateway,
           LogStep, Brief, Finish, MarkFailed, CommitOffset, Rebalance, Restart
  <2>2. \E n \in {run[w], 0, Len(runs) + 1} : run' = [run EXCEPT ![w] = n]
    BY DEF Work, Poll, CreateRun, MarkRunning, FetchCatalog, CallGateway,
           LogStep, Brief, Finish, MarkFailed, CommitOffset, Rebalance, Restart
  <2>3. PICK n \in {run[w], 0, Len(runs) + 1} : run' = [run EXCEPT ![w] = n]
    BY <2>2
  <2>4. n \in Nat
    BY RunsAreRows
  <2>5. run' \in [Workers -> Nat]
    BY <2>3, <2>4
  <2>6. at' \in [Workers -> 0 .. Len(Topic)]
    <3>1. CASE at' = at
      BY <3>1
    <3>2. CASE position[w] \in Offsets /\ at' = [at EXCEPT ![w] = position[w]]
      <4>1. position[w] \in 0 .. Len(Topic)
        BY <3>2, OffsetsAreNumbers
      <4> QED BY <3>2, <4>1
    <3> QED BY <2>1, <3>1, <3>2
  <2> QED BY <2>5, <2>6
<1>4. ent' \in [Workers -> Nat \ {0}] /\ call' \in [Workers -> Nat \ {0}]
  <2>1. \E n \in {ent[w], 1, ent[w] + 1} : ent' = [ent EXCEPT ![w] = n]
    BY DEF Work, Poll, CreateRun, MarkRunning, FetchCatalog, CallGateway,
           LogStep, Brief, Finish, MarkFailed, CommitOffset, Rebalance, Restart
  <2>2. \E n \in {call[w], 1, call[w] + 1} : call' = [call EXCEPT ![w] = n]
    BY DEF Work, Poll, CreateRun, MarkRunning, FetchCatalog, CallGateway, Advance,
           StepError, LogStep, Brief, Finish, MarkFailed, CommitOffset, Rebalance,
           Restart
  <2>3. PICK m \in {ent[w], 1, ent[w] + 1} : ent' = [ent EXCEPT ![w] = m]
    BY <2>1
  <2>4. PICK n \in {call[w], 1, call[w] + 1} : call' = [call EXCEPT ![w] = n]
    BY <2>2
  <2>5. m \in Nat \ {0} /\ n \in Nat \ {0}
    <3>1. ent[w] \in Nat \ {0} /\ call[w] \in Nat \ {0}
      OBVIOUS
    <3> QED BY <2>3, <2>4, <3>1, NextNumber, Zenon
  <2>6. ent' \in [Workers -> Nat \ {0}]
    BY <2>3, <2>5
  <2>7. call' \in [Workers -> Nat \ {0}]
    BY <2>4, <2>5
  <2> QED BY <2>6, <2>7
<1>5. attached' \in [Workers -> SUBSET Indicators]
  <2>1. CASE CallGateway(w)
    <3>1. CallsFor(EntityOf(w))[call[w]].on \in Indicators
      BY <2>1, CallIsIndicator DEF CallGateway
    <3>2. \/ attached' = attached
          \/ Advance(w, CallsFor(EntityOf(w))[call[w]])
      BY <2>1 DEF CallGateway, StepError
    <3>3. \E S \in {attached[w], attached[w] \cup {CallsFor(EntityOf(w))[call[w]].on}} :
             attached' = [attached EXCEPT ![w] = S]
      BY <3>2 DEF Advance
    <3>4. PICK S \in {attached[w], attached[w] \cup {CallsFor(EntityOf(w))[call[w]].on}} :
             attached' = [attached EXCEPT ![w] = S]
      BY <3>3
    <3>5. S \in SUBSET Indicators
      BY <3>1
    <3> QED BY <3>4, <3>5
  <2>2. CASE attached' = attached \/ attached' = [attached EXCEPT ![w] = {}]
    BY <2>2
  <2> QED BY <2>1, <2>2 DEF Work, Poll, CreateRun, MarkRunning, FetchCatalog,
             LogStep, Brief, Finish, MarkFailed, CommitOffset, Rebalance, Restart
<1> QED BY <1>1, <1>2, <1>3, <1>4, <1>5

\* The saga of another instance stays as it should be, its row included.
LEMMA OthersSagaOK ==
    ASSUME TypeOK, RunInv, NEW w \in Workers, Work(w) \/ Rebalance(w) \/ Restart(w),
           NEW v \in Workers, v # w
    PROVE  /\ SagaOK(v)'
           /\ Working(v)' => Working(v) /\ run[v] \in DOMAIN runs'
<1>1. /\ pc'[v] = pc[v] /\ db'[v] = db[v] /\ at'[v] = at[v] /\ run'[v] = run[v]
      /\ ent'[v] = ent[v] /\ call'[v] = call[v]
  BY OthersUntouched
<1>2. Working(v) => run[v] \in DOMAIN runs' /\ runs'[run[v]] = runs[run[v]]
  <2>1. CASE Work(w)
    <3>1. Working(v) => run[v] \in DOMAIN runs /\ (Working(w) => run[v] # run[w])
      BY DEF TypeOK, RunInv
    <3> QED BY <2>1, <3>1, RunsFrame
  <2>2. CASE runs' = runs
    BY <2>2 DEF TypeOK
  <2> QED BY <2>1, <2>2 DEF Rebalance, Restart
<1>3. SagaOK(v)
  BY DEF RunInv
<1>4. SagaOK(v)'
  BY <1>1, <1>2, <1>3 DEF SagaOK, Working, GoalOf, EntityOf
<1> QED BY <1>1, <1>2, <1>4 DEF Working

\* What a saga finds in its row after one of its own updates.
LEMMA OwnRow ==
    ASSUME TypeOK, RunInv, NEW w \in Workers, Work(w), Working(w), run' = run, at' = at
    PROVE  /\ run'[w] \in DOMAIN runs'
           /\ runs'[run'[w]].goal = GoalOf(w)'
           /\ \A st : runs' = SetRun(w, st) => runs'[run'[w]].state = st
<1>1. run[w] \in DOMAIN runs /\ runs[run[w]].goal = GoalOf(w)
  BY SagaTypes
<1>2. run[w] \in DOMAIN runs' /\ runs'[run[w]].goal = runs[run[w]].goal
  BY <1>1, RunsFrame
<1>3. runs[run[w]] \in Rows
  BY <1>1, RunsAreRows
<1>4. \A st : runs' = SetRun(w, st) => runs'[run[w]].state = st
  BY <1>1, <1>3 DEF SetRun, Rows
<1> QED BY <1>1, <1>2, <1>4 DEF GoalOf

\* A statement of a saga leaves that saga as it should be.
LEMMA OwnSagaOK ==
    ASSUME TypeOK, RunInv, NEW w \in Workers, Work(w)
    PROVE  /\ SagaOK(w)'
           /\ Working(w)' => run'[w] \in DOMAIN runs'
           /\ Working(w)' /\ ~Working(w) => run'[w] \notin DOMAIN runs
           /\ Working(w)' /\ Working(w) => run'[w] = run[w]
<1> USE DEF Goto, sagaVars
<1>0. /\ SagaOK(w)
      /\ pc \in [Workers -> {"poll", "create", "plan", "fetch", "call", "step",
                             "brief", "finish", "fail", "commit"}]
      /\ db \in [Workers -> {"ok", "broken"}]
  BY DEF RunInv, TypeOK
<1>1. CASE Poll(w)
  <2>1. pc'[w] = "create" /\ ent'[w] = 1 /\ call'[w] = 1
    BY <1>1, <1>0 DEF Poll, TypeOK
  <2> QED BY <2>1 DEF SagaOK, Working
<1>2. CASE CreateRun(w)
  <2>1. /\ UNCHANGED <<at, ent, call>> /\ pc[w] = "create"
        /\ run'[w] = Len(runs) + 1
    BY <1>2 DEF CreateRun, TypeOK
  <2>2. CASE pc'[w] = "plan" /\ db' = db
             /\ runs' = Append(runs, [goal |-> GoalOf(w), state |-> "planning", step |-> 0])
    <3>1. Len(runs) \in Nat /\ DOMAIN runs = 1 .. Len(runs)
      BY RunsAreRows
    <3>2. /\ DOMAIN runs' = 1 .. (Len(runs) + 1)
          /\ runs'[Len(runs) + 1] = [goal |-> GoalOf(w), state |-> "planning", step |-> 0]
      BY <2>2, <3>1 DEF TypeOK
    <3>3. run'[w] \in DOMAIN runs' /\ run'[w] \notin DOMAIN runs
      BY <2>1, <3>1, <3>2
    <3>4. runs'[run'[w]].goal = GoalOf(w)' /\ runs'[run'[w]].state = "planning"
      BY <2>1, <3>2 DEF GoalOf
    <3>5. ent'[w] = 1 /\ call'[w] = 1
      BY <1>0, <2>1 DEF SagaOK
    <3> QED BY <2>1, <2>2, <3>3, <3>4, <3>5 DEF SagaOK, Working, Final
  <2>3. CASE pc'[w] = "poll"
    BY <2>3 DEF SagaOK, Working
  <2>4. \/ pc'[w] = "poll"
        \/ /\ pc'[w] = "plan" /\ db' = db
           /\ runs' = Append(runs, [goal |-> GoalOf(w), state |-> "planning", step |-> 0])
    BY <1>0, <1>2 DEF CreateRun, Execute
  <2> QED BY <2>2, <2>3, <2>4
<1>3. CASE MarkRunning(w)
  <2>1. /\ UNCHANGED <<at, run, ent, call>> /\ pc[w] = "plan" /\ Working(w)
    BY <1>3 DEF MarkRunning, Working
  <2>2. \/ /\ db' = db /\ runs' = SetRun(w, "running")
           /\ pc'[w] = IF Entities[GoalOf(w)] = <<>> THEN "fail" ELSE "fetch"
        \/ db'[w] = "broken" /\ pc'[w] = "fail"
    BY <1>0, <1>3 DEF MarkRunning, Execute
  <2>3. /\ run'[w] \in DOMAIN runs' /\ runs'[run'[w]].goal = GoalOf(w)'
        /\ runs' = SetRun(w, "running") => runs'[run'[w]].state = "running"
    BY <1>3, <2>1, OwnRow DEF Work
  <2>4. pc'[w] = "fetch" => ent'[w] \in DOMAIN Entities[GoalOf(w)'] /\ call'[w] = 1
    <3>1. ent[w] = 1 /\ call[w] = 1 /\ GoalOf(w) \in Goals /\ GoalOf(w)' = GoalOf(w)
      BY <1>0, <2>1, SagaTypes DEF SagaOK, GoalOf
    <3>2. pc'[w] = "fetch" => Entities[GoalOf(w)] # <<>>
      BY <2>2
    <3> QED BY <2>1, <3>1, <3>2, EntitiesAreNumbered
  <2> QED BY <2>1, <2>2, <2>3, <2>4 DEF SagaOK, Working, Final
<1>4. CASE FetchCatalog(w)
  <2>1. /\ UNCHANGED <<at, run, ent, call, runs, db>> /\ pc[w] = "fetch"
        /\ pc'[w] \in {"call", "fail"}
    BY <1>0, <1>4 DEF FetchCatalog
  <2>2. Working(w) /\ Working(w)' /\ run[w] \in DOMAIN runs
    BY <2>1, SagaTypes DEF Working
  <2>3. call[w] = 1 /\ 1 \in DOMAIN CallsFor(EntityOf(w))
    <3>1. Len(CallsFor(EntityOf(w))) \in Nat \ {0}
          /\ DOMAIN CallsFor(EntityOf(w)) = 1 .. Len(CallsFor(EntityOf(w)))
      BY CallsAreNumbered
    <3> QED BY <1>0, <2>1, <3>1 DEF SagaOK
  <2> QED BY <1>0, <2>1, <2>2, <2>3 DEF SagaOK, Working, GoalOf, EntityOf
<1>5. CASE CallGateway(w)
  <2>1. /\ UNCHANGED <<at, run, ent, runs, db>> /\ pc[w] = "call"
    BY <1>5 DEF CallGateway
  <2>2. Working(w) /\ run[w] \in DOMAIN runs
    BY <2>1, SagaTypes DEF Working
  <2>3. \/ pc'[w] = "step"
        \/ /\ pc'[w] = "call" /\ call[w] # Len(CallsFor(EntityOf(w)))
           /\ call' = [call EXCEPT ![w] = call[w] + 1]
    BY <1>0, <1>5 DEF CallGateway, Advance, StepError
  <2>4. pc'[w] = "call" => call'[w] \in DOMAIN CallsFor(EntityOf(w))
    <3>1. /\ Len(CallsFor(EntityOf(w))) \in Nat \ {0}
          /\ DOMAIN CallsFor(EntityOf(w)) = 1 .. Len(CallsFor(EntityOf(w)))
      BY CallsAreNumbered
    <3>2. call[w] \in DOMAIN CallsFor(EntityOf(w))
      BY <1>0, <2>1 DEF SagaOK
    <3>3. pc'[w] = "call" => call'[w] = call[w] + 1 /\ call[w] # Len(CallsFor(EntityOf(w)))
      BY <2>3 DEF TypeOK
    <3> QED BY <3>1, <3>2, <3>3
  <2>5. pc'[w] \in {"call", "step"}
    BY <2>3
  <2> QED BY <1>0, <2>1, <2>2, <2>4, <2>5 DEF SagaOK, Working, GoalOf, EntityOf
<1>6. CASE LogStep(w)
  <2>1. /\ UNCHANGED <<at, run>> /\ pc[w] = "step" /\ Working(w)
        /\ ent' = [ent EXCEPT ![w] = ent[w] + 1] /\ call' = [call EXCEPT ![w] = 1]
    BY <1>6 DEF LogStep, Working
  <2>2. \/ /\ db' = db /\ runs' = [runs EXCEPT ![run[w]].step = ent[w]]
           /\ \/ pc'[w] = "call" /\ ent[w] < Len(Entities[GoalOf(w)])
              \/ pc'[w] \in {"brief", "finish"}
        \/ db'[w] = "broken" /\ pc'[w] = "fail"
    BY <1>0, <1>6 DEF LogStep, Execute
  <2>3. run'[w] \in DOMAIN runs' /\ runs'[run'[w]].goal = GoalOf(w)'
    BY <1>6, <2>1, OwnRow DEF Work
  <2>4. db'[w] = "ok" => runs'[run'[w]].state \notin Final
    <3>1. run[w] \in DOMAIN runs /\ runs[run[w]] \in Rows
      BY <2>1, SagaTypes, RunsAreRows
    <3>2. db[w] = "ok" => runs[run[w]].state \notin Final
      BY <1>0, <2>1 DEF SagaOK
    <3> QED BY <2>1, <2>2, <3>1, <3>2 DEF Rows
  <2>5. ent'[w] = ent[w] + 1 /\ call'[w] = 1
    BY <2>1 DEF TypeOK
  <2>6. pc'[w] = "call" => ent'[w] \in DOMAIN Entities[GoalOf(w)']
    <3>1. GoalOf(w)' = GoalOf(w) /\ GoalOf(w) \in Goals
      BY <2>1, SagaTypes DEF GoalOf
    <3>2. ent[w] \in DOMAIN Entities[GoalOf(w)]
      BY <1>0, <2>1 DEF SagaOK
    <3> QED BY <2>2, <2>5, <3>1, <3>2, EntitiesAreNumbered
  <2>7. 1 \in DOMAIN CallsFor(EntityOf(w)')
    BY CallsAreNumbered
  <2>8. pc'[w] \in {"call", "brief", "finish", "fail"}
    BY <2>2
  <2> QED BY <2>1, <2>3, <2>4, <2>5, <2>6, <2>7, <2>8 DEF SagaOK, Working
<1>7. CASE Brief(w)
  <2>1. /\ UNCHANGED <<at, run, ent, call, runs, db>> /\ pc[w] = "brief"
        /\ pc'[w] \in {"finish", "fail"}
    BY <1>0, <1>7 DEF Brief
  <2>2. Working(w) /\ run[w] \in DOMAIN runs
    BY <2>1, SagaTypes DEF Working
  <2> QED BY <1>0, <2>1, <2>2 DEF SagaOK, Working, GoalOf
<1>8. CASE Finish(w) \/ MarkFailed(w)
  <2>1. /\ UNCHANGED <<at, run, ent, call>> /\ pc[w] \in {"finish", "fail"} /\ Working(w)
    BY <1>8 DEF Finish, MarkFailed, Working
  <2>2. \/ /\ db' = db /\ db[w] = "ok" /\ pc'[w] = "commit"
           /\ \E st \in Final : runs' = SetRun(w, st)
        \/ db'[w] = "broken" /\ pc'[w] \in {"fail", "poll"}
    BY <1>0, <1>8 DEF Finish, MarkFailed, Execute, Final
  <2>3. /\ run'[w] \in DOMAIN runs' /\ runs'[run'[w]].goal = GoalOf(w)'
        /\ \A st : runs' = SetRun(w, st) => runs'[run'[w]].state = st
    BY <1>8, <2>1, OwnRow DEF Work
  <2> QED BY <2>1, <2>2, <2>3 DEF SagaOK, Working
<1>9. CASE CommitOffset(w)
  <2>1. pc'[w] = "poll"
    BY <1>0, <1>9 DEF CommitOffset
  <2> QED BY <2>1 DEF SagaOK, Working
<1> QED BY <1>1, <1>2, <1>3, <1>4, <1>5, <1>6, <1>7, <1>8, <1>9 DEF Work

\* An instance that restarts has nothing in hand; one that is given the partition
\* goes on with what it has in hand.
LEMMA GroupSagaOK ==
    ASSUME TypeOK, RunInv, NEW w \in Workers, Rebalance(w) \/ Restart(w)
    PROVE  SagaOK(w)' /\ (Working(w)' => Working(w) /\ run'[w] = run[w]) /\ runs' = runs
<1>1. CASE Rebalance(w)
  BY <1>1 DEF Rebalance, RunInv, SagaOK, Working, GoalOf, EntityOf, sagaVars
<1>2. CASE Restart(w)
  <2>1. pc'[w] = "poll" /\ runs' = runs
    BY <1>2 DEF Restart, Goto, TypeOK
  <2> QED BY <2>1 DEF SagaOK, Working
<1> QED BY <1>1, <1>2

\* Types and sagas together: a row's step is within the plan because the saga that
\* writes it is.
LEMMA RunKept ==
    ASSUME TypeOK, RunInv, NEW w \in Workers, Work(w) \/ Rebalance(w) \/ Restart(w)
    PROVE  TypeOK' /\ RunInv'
<1>1. /\ SagaOK(w)'
      /\ Working(w)' => run'[w] \in DOMAIN runs'
      /\ Working(w)' /\ ~Working(w) => run'[w] \notin DOMAIN runs
      /\ Working(w)' /\ Working(w) => run'[w] = run[w]
  <2>1. CASE Work(w)
    BY <2>1, OwnSagaOK
  <2>2. CASE Rebalance(w) \/ Restart(w)
    BY <2>2, GroupSagaOK DEF TypeOK
  <2> QED BY <2>1, <2>2
<1>2. \A v \in Workers : v # w =>
         /\ SagaOK(v)'
         /\ Working(v)' => Working(v) /\ run'[v] = run[v] /\ run[v] \in DOMAIN runs'
  BY OthersSagaOK, OthersUntouched
<1>3. \A v \in Workers : Working(v) => run[v] \in DOMAIN runs
  BY DEF TypeOK
<1>4. RunInv'
  BY <1>1, <1>2, <1>3 DEF RunInv
<1>5. \A v \in Workers : pc'[v] # "poll" => at'[v] \in Offsets
  <2>1. \A v \in Workers : v # w => pc'[v] = pc[v] /\ at'[v] = at[v]
    BY OthersUntouched
  <2>2. pc'[w] # "poll" => at'[w] \in Offsets
    <3>1. CASE Poll(w)
      BY <3>1 DEF Poll, TypeOK
    <3>2. CASE ~Poll(w)
      <4>1. at' = at /\ (pc'[w] # "poll" => pc[w] # "poll")
        BY <3>2 DEF Work, CreateRun, MarkRunning, FetchCatalog, CallGateway,
               LogStep, Brief, Finish, MarkFailed, CommitOffset, Rebalance,
               Restart, sagaVars, Goto, TypeOK
      <4> QED BY <4>1 DEF TypeOK
    <3> QED BY <3>1, <3>2
  <2> QED BY <2>1, <2>2 DEF TypeOK
<1>6. \A v \in Workers : Working(v)' => run'[v] \in DOMAIN runs'
  BY <1>1, <1>2
<1>7. /\ runs' \in Seq(Rows)
      /\ \A i \in DOMAIN runs' : runs'[i].step <= Len(Entities[runs'[i].goal])
  <2>1. CASE Work(w)
    BY <2>1, RunsFrame
  <2>2. CASE runs' = runs
    BY <2>2 DEF TypeOK
  <2> QED BY <2>1, <2>2, GroupSagaOK
<1>8. \A b \in insights' : b.goal \in Goals /\ b.cites \subseteq Indicators
  <2>1. CASE insights' = insights
    BY <2>1 DEF TypeOK
  <2>2. CASE Brief(w) /\ insights' = insights \cup {Briefing(w)}
    <3>1. GoalOf(w) \in Goals /\ attached[w] \subseteq Indicators
      BY <2>2, SagaTypes DEF Brief, TypeOK
    <3>2. Briefing(w).goal = GoalOf(w) /\ Briefing(w).cites = attached[w]
      BY DEF Briefing
    <3> QED BY <2>2, <3>1, <3>2 DEF TypeOK
  <2> QED BY <2>1, <2>2 DEF Work, Poll, CreateRun, MarkRunning, FetchCatalog,
             CallGateway, LogStep, Brief, Finish, MarkFailed, CommitOffset,
             Rebalance, Restart, tenantVars
<1>9. dropped' = dropped
  BY DEF Work, Poll, CreateRun, MarkRunning, FetchCatalog, CallGateway, LogStep, Brief,
         Finish, MarkFailed, CommitOffset, Rebalance, Restart, tenantVars
<1>10. TypeOK'
  BY <1>5, <1>6, <1>7, <1>8, <1>9, KafkaType, FaultsType, SagaVarsType DEF TypeOK
<1> QED BY <1>4, <1>10

\* Whoever runs what at the same time, sagas keep to their rows and to their plans.
LEMMA TypeAndRun == Spec => [](TypeOK /\ RunInv)
<1>1. Init => TypeOK /\ RunInv
  <2> SUFFICES ASSUME Init PROVE TypeOK /\ RunInv
    OBVIOUS
  <2>1. <<>> \in Seq(Rows) /\ DOMAIN runs = {}
    BY DEF Init
  <2>2. TypeOK
    BY <2>1, OffsetsAreNumbers, WorkflowAssumption
       DEF Init, TypeOK, WorkflowAssumption, Working
  <2>3. RunInv
    BY DEF Init, RunInv, SagaOK, Working
  <2> QED BY <2>2, <2>3
<1>2. TypeOK /\ RunInv /\ [Next]_vars => TypeOK' /\ RunInv'
  <2> SUFFICES ASSUME TypeOK, RunInv, [Next]_vars PROVE TypeOK' /\ RunInv'
    OBVIOUS
  <2>1. ASSUME NEW g \in Deletable, DeleteGoal(g) PROVE TypeOK' /\ RunInv'
    BY <2>1 DEF DeleteGoal, TypeOK, RunInv, SagaOK, Working, GoalOf, EntityOf, sagaVars
  <2>2. ASSUME NEW l \in Editable, Unlink(l) \/ Link(l) PROVE TypeOK' /\ RunInv'
    <3>1. dropped' \in [Editable -> 0 .. MaxUnlinks]
      <4>1. CASE Unlink(l)
        <5>1. dropped[l] + 1 \in 0 .. MaxUnlinks
          BY <4>1, WorkflowAssumption DEF Unlink, TypeOK, WorkflowAssumption
        <5> QED BY <4>1, <5>1 DEF Unlink, TypeOK
      <4>2. CASE Link(l)
        BY <4>2 DEF Link, TypeOK
      <4> QED BY <2>2, <4>1, <4>2
    <3>2. /\ UNCHANGED <<owner, committed, pc, db, position, runs, insights, faults>>
          /\ UNCHANGED <<at, run, ent, call, attached, voided>>
      BY <2>2 DEF Unlink, Link, sagaVars
    <3>3. TypeOK'
      BY <3>1, <3>2 DEF TypeOK, Working
    <3>4. RunInv'
      BY <3>2 DEF RunInv, SagaOK, Working, GoalOf, EntityOf
    <3> QED BY <3>3, <3>4
  <2>3. CASE UNCHANGED vars
    BY <2>3 DEF vars, TypeOK, RunInv, SagaOK, Working, GoalOf, EntityOf
  <2> QED BY <2>1, <2>2, <2>3, RunKept DEF Next
<1> QED BY <1>1, <1>2, PTL DEF Spec

\* Every variable keeps its type, however the group moves the partition.
THEOREM TypeCorrect == Spec => []TypeOK
BY TypeAndRun, PTL

\* A closed run is left alone: its saga has only the offset left to commit, and no
\* other saga has that row.
THEOREM ClosedStaysClosedHolds == Spec => ClosedStaysClosed
<1>1. ASSUME TypeOK, RunInv, [Next]_vars, NEW i \in DOMAIN runs, runs[i].state \in Final
      PROVE  runs'[i] = runs[i]
  <2>1. ASSUME NEW w \in Workers, Work(w) PROVE runs'[i] = runs[i]
    <3>1. \/ runs'[i] = runs[i]
          \/ i = run[w] /\ db[w] = "ok" /\ Working(w) /\ pc[w] # "commit"
      BY <1>1, <2>1, RunsFrame
    <3> QED BY <1>1, <3>1 DEF RunInv, SagaOK
  <2>2. ASSUME \/ \E w \in Workers : Rebalance(w) \/ Restart(w)
               \/ \E g \in Deletable : DeleteGoal(g)
               \/ \E l \in Editable : Unlink(l) \/ Link(l)
               \/ UNCHANGED vars
        PROVE  runs' = runs
    BY <2>2 DEF Rebalance, Restart, DeleteGoal, Unlink, Link, vars
  <2> QED BY <1>1, <2>1, <2>2 DEF Next
<1>2. TypeOK /\ RunInv /\ [Next]_vars
        => [\A i \in DOMAIN runs : runs[i].state \in Final => runs'[i] = runs[i]]_vars
  BY <1>1
<1> QED BY <1>2, TypeAndRun, PTL DEF Spec, ClosedStaysClosed
-----------------------------------------------------------------------------
\* An event that has been run stays so.
LEMMA RanStays ==
    ASSUME TypeOK, RunInv, [Next]_vars, NEW o \in Offsets, Ran(o)
    PROVE  Ran(o)'
<1>1. PICK i \in DOMAIN runs : runs[i].goal = Topic[o] /\ runs[i].state \in Final
  BY DEF Ran
<1>2. ASSUME NEW w \in Workers, Work(w) PROVE i \in DOMAIN runs' /\ runs'[i] = runs[i]
  <2>1. /\ i \in DOMAIN runs'
        /\ \/ runs'[i] = runs[i]
           \/ i = run[w] /\ db[w] = "ok" /\ Working(w) /\ pc[w] # "commit"
    BY <1>2, RunsFrame
  <2> QED BY <1>1, <2>1 DEF RunInv, SagaOK
<1>3. ASSUME \/ \E w \in Workers : Rebalance(w) \/ Restart(w)
             \/ \E g \in Deletable : DeleteGoal(g)
             \/ \E l \in Editable : Unlink(l) \/ Link(l)
             \/ UNCHANGED vars
      PROVE  runs' = runs
  BY <1>3 DEF Rebalance, Restart, DeleteGoal, Unlink, Link, vars
<1>4. i \in DOMAIN runs' /\ runs'[i] = runs[i]
  BY <1>2, <1>3 DEF Next
<1> QED BY <1>1, <1>4 DEF Ran

\* The saga whose offset is to be committed has been run.
LEMMA CommitRan ==
    ASSUME TypeOK, RunInv, NEW w \in Workers, pc[w] = "commit"
    PROVE  db[w] = "ok" /\ at[w] \in Offsets /\ Ran(at[w])
<1>1. Working(w) /\ db[w] = "ok" /\ at[w] \in Offsets
  BY DEF RunInv, SagaOK, Working, TypeOK
<1>2. runs[run[w]].goal = Topic[at[w]] /\ runs[run[w]].state \in Final
  BY <1>1 DEF RunInv, SagaOK, GoalOf
<1>3. run[w] \in DOMAIN runs
  BY <1>1 DEF TypeOK
<1> QED BY <1>1, <1>2, <1>3 DEF Ran

\* An instance passes over an event only by running it, or by losing the
\* connection it would commit with.
LEMMA OffsetKept ==
    ASSUME TypeOK, RunInv, OffsetInv, [Next]_vars
    PROVE  OffsetInv'
<1> USE OffsetsAreNumbers
<1>0. \A o \in Offsets : Ran(o) => Ran(o)'
  BY RanStays
<1>1. ASSUME NEW w \in Workers, Poll(w) PROVE OffsetInv'
  <2>1. /\ pc[w] = "poll" /\ owner = w /\ position[w] \in Offsets
        /\ UNCHANGED <<owner, committed, db>> /\ pc'[w] # "poll"
        /\ at'[w] = position[w] /\ position'[w] = position[w] + 1
    BY <1>1 DEF Poll, Goto, TypeOK
  <2>2. \A v \in Workers : v # w =>
           at'[v] = at[v] /\ pc'[v] = pc[v] /\ position'[v] = position[v]
    BY <1>1 DEF Poll, Goto, TypeOK
  <2>3. \A o \in Offsets : db[w] = "ok" /\ o < position[w] => Ran(o)
    BY <2>1 DEF OffsetInv
  <2>4. \A o \in Offsets : o < position'[w] /\ o # at'[w] => o < position[w]
    BY <2>1
  <2>5. CommittedRan'
    BY <1>0, <2>1 DEF OffsetInv, CommittedRan
  <2>6. \A v \in Workers : \A o \in Offsets :
           db'[v] = "ok" /\ pc'[v] # "poll" /\ o < at'[v] => Ran(o)'
    BY <1>0, <2>1, <2>2, <2>3 DEF OffsetInv
  <2>7. \A v \in Workers : \A o \in Offsets :
           /\ db'[v] = "ok" /\ owner' = v /\ o < position'[v]
           /\ ~(pc'[v] # "poll" /\ o = at'[v])
           => Ran(o)'
    BY <1>0, <2>1, <2>2, <2>3, <2>4 DEF OffsetInv
  <2> QED BY <2>5, <2>6, <2>7 DEF OffsetInv
<1>2. ASSUME NEW w \in Workers, Work(w), ~Poll(w), ~CommitOffset(w) PROVE OffsetInv'
  <2>1. UNCHANGED <<owner, committed, position, at>> /\ pc[w] # "poll"
    BY <1>2 DEF Work, CreateRun, MarkRunning, FetchCatalog, CallGateway,
           LogStep, Brief, Finish, MarkFailed, kafkaVars, sagaVars
  <2>2. /\ db'[w] = "ok" => db[w] = "ok"
        /\ pc'[w] # "poll" \/ db'[w] # "ok"
    BY <1>2 DEF Work, CreateRun, MarkRunning, FetchCatalog, CallGateway, Advance,
           StepError, LogStep, Brief, Finish, MarkFailed, Execute, Goto, TypeOK
  <2>3. \A v \in Workers : v # w => db'[v] = db[v] /\ pc'[v] = pc[v]
    BY <1>2, OthersUntouched
  <2> QED BY <1>0, <2>1, <2>2, <2>3 DEF OffsetInv, CommittedRan
<1>3. ASSUME NEW w \in Workers, CommitOffset(w) PROVE OffsetInv'
  <2>1. db[w] = "ok" /\ at[w] \in Offsets /\ Ran(at[w]) /\ pc[w] = "commit"
    BY <1>3, CommitRan DEF CommitOffset
  <2>2. /\ UNCHANGED <<owner, position, db, at>>
        /\ committed' = committed \/ committed' = at[w] + 1
        /\ pc'[w] = "poll" /\ \A v \in Workers : v # w => pc'[v] = pc[v]
    BY <1>3 DEF CommitOffset, Goto, sagaVars, TypeOK
  <2>3. \A o \in Offsets : o < at[w] + 1 => o < at[w] \/ o = at[w]
    BY <2>1
  <2>4. CommittedRan'
    BY <1>0, <2>1, <2>2, <2>3 DEF OffsetInv, CommittedRan
  <2>5. \A v \in Workers : \A o \in Offsets :
           /\ db'[v] = "ok" /\ owner' = v /\ o < position'[v]
           /\ ~(pc'[v] # "poll" /\ o = at'[v])
           => Ran(o)'
    BY <1>0, <2>1, <2>2 DEF OffsetInv
  <2>6. \A v \in Workers : \A o \in Offsets :
           db'[v] = "ok" /\ pc'[v] # "poll" /\ o < at'[v] => Ran(o)'
    BY <1>0, <2>2 DEF OffsetInv
  <2> QED BY <2>4, <2>5, <2>6 DEF OffsetInv
<1>4. ASSUME NEW w \in Workers, Rebalance(w) \/ Restart(w) PROVE OffsetInv'
  <2>1. /\ UNCHANGED <<committed, at>>
        /\ pc'[w] = "poll" \/ (pc'[w] = pc[w] /\ db'[w] = db[w])
    BY <1>4 DEF Rebalance, Restart, Goto, sagaVars, TypeOK
  <2>2. \A v \in Workers : v # w => db'[v] = db[v] /\ pc'[v] = pc[v]
    BY <1>4, OthersUntouched
  <2>3. \/ \E v \in Workers : Assign(v)
        \/ owner # w /\ UNCHANGED <<owner, position>>
    BY <1>4 DEF Rebalance, Restart
  <2>4. CommittedRan'
    BY <1>0, <2>1 DEF OffsetInv, CommittedRan
  <2>5. \A v \in Workers : \A o \in Offsets :
           db'[v] = "ok" /\ pc'[v] # "poll" /\ o < at'[v] => Ran(o)'
    BY <1>0, <2>1, <2>2 DEF OffsetInv
  <2>6. ASSUME NEW v \in Workers, NEW o \in Offsets,
               db'[v] = "ok", owner' = v, o < position'[v],
               ~(pc'[v] # "poll" /\ o = at'[v])
        PROVE  Ran(o)'
    <3>1. CASE \E x \in Workers : Assign(x)
      <4>1. position'[v] = committed
        BY <2>6, <3>1 DEF Assign, TypeOK
      <4> QED BY <1>0, <2>6, <4>1 DEF OffsetInv, CommittedRan
    <3>2. CASE owner # w /\ UNCHANGED <<owner, position>>
      BY <1>0, <2>1, <2>2, <2>6, <3>2 DEF OffsetInv
    <3> QED BY <2>3, <3>1, <3>2
  <2> QED BY <2>4, <2>5, <2>6 DEF OffsetInv
<1>5. ASSUME NEW g \in Deletable, DeleteGoal(g) PROVE OffsetInv'
  BY <1>0, <1>5 DEF DeleteGoal, OffsetInv, CommittedRan, sagaVars
<1>6. ASSUME NEW l \in Editable, Unlink(l) \/ Link(l) PROVE OffsetInv'
  BY <1>0, <1>6 DEF Unlink, Link, OffsetInv, CommittedRan, sagaVars
<1>7. CASE UNCHANGED vars
  BY <1>0, <1>7 DEF vars, OffsetInv, CommittedRan
<1> QED BY <1>1, <1>2, <1>3, <1>4, <1>5, <1>6, <1>7 DEF Next, Work

\* The group's offset, which a commit moves past every earlier event at once,
\* passes none whose saga did not come to an end.
THEOREM CommittedRanHolds == Spec => []CommittedRan
<1>1. Init => OffsetInv
  BY OffsetsAreNumbers DEF Init, OffsetInv, CommittedRan
<1>2. TypeOK /\ RunInv /\ OffsetInv /\ [Next]_vars => OffsetInv'
  BY OffsetKept
<1>3. OffsetInv => CommittedRan
  BY DEF OffsetInv
<1> QED BY <1>1, <1>2, <1>3, TypeAndRun, PTL DEF Spec
-----------------------------------------------------------------------------
(* Briefings. *)

\* What a step can do to an indicator of a goal: link it for a saga that will cite
\* it, let a saga believe it did, have it cited, or none of these; or its user frees it.
CiteStep(g, i) ==
    \/ /\ Citing(g, i)' = Citing(g, i) /\ Citers(g, i)' \subseteq Citers(g, i)
       /\ (Free(g, i)' => Free(g, i)) /\ voided' \in {voided, voided + 1}
       /\ Dropped(g, i)' = Dropped(g, i)
    \/ /\ Citing(g, i)' = Citing(g, i) /\ Dropped(g, i)' = Dropped(g, i)
       /\ \E w \in Workers : Citers(g, i)' \subseteq Citers(g, i) \cup {w}
       /\ \/ Free(g, i) /\ ~Free(g, i)' /\ voided' = voided
          \/ (Free(g, i)' => Free(g, i)) /\ voided' = voided + 1
    \/ /\ \E b : Citing(g, i)' \subseteq Citing(g, i) \cup {b}
       /\ \E w \in Citers(g, i) : Citers(g, i)' \subseteq Citers(g, i) \ {w}
       /\ (Free(g, i)' => Free(g, i)) /\ voided' = voided
       /\ Dropped(g, i)' = Dropped(g, i)
    \/ /\ Citing(g, i)' = Citing(g, i) /\ Citers(g, i)' = Citers(g, i)
       /\ voided' = voided /\ Dropped(g, i)' = Dropped(g, i) + 1

\* Removals are counted in numbers, and only when there are some.
LEMMA DroppedStep ==
    ASSUME TypeOK, NEW g, NEW i
    PROVE  /\ Dropped(g, i) \in Nat
           /\ dropped' = dropped => Dropped(g, i)' = Dropped(g, i)
           /\ \A l \in Editable : Unlink(l) =>
                 Dropped(g, i)' = IF l = <<g, i>> THEN Dropped(g, i) + 1 ELSE Dropped(g, i)
<1>1. dropped \in [Editable -> Nat]
  <2>1. 0 .. MaxUnlinks \subseteq Nat
    OBVIOUS
  <2> QED BY <2>1 DEF TypeOK
<1>2. Dropped(g, i) \in Nat
  BY <1>1 DEF Dropped
<1>3. ASSUME NEW l \in Editable, Unlink(l)
      PROVE  Dropped(g, i)' = IF l = <<g, i>> THEN Dropped(g, i) + 1 ELSE Dropped(g, i)
  <2>1. dropped' = [dropped EXCEPT ![l] = dropped[l] + 1]
    BY <1>3 DEF Unlink
  <2> QED BY <1>1, <1>3, <2>1 DEF Dropped
<1> QED BY <1>2, <1>3 DEF Dropped

\* A saga that only moves on takes up no indicator.
LEMMA CitersShrink ==
    ASSUME TypeOK, NEW w \in Workers, Work(w) \/ Rebalance(w) \/ Restart(w),
           NEW g \in Goals, NEW i \in Indicators,
           w \in Citers(g, i)' => w \in Citers(g, i)
    PROVE  Citers(g, i)' \subseteq Citers(g, i)
<1>1. \A v \in Workers : v # w =>
         pc'[v] = pc[v] /\ at'[v] = at[v] /\ attached'[v] = attached[v]
  BY OthersUntouched
<1> QED BY <1>1 DEF Citers, GoalOf

\* Statements that call no gateway handler leave the indicators where they are.
LEMMA QuietCites ==
    ASSUME TypeOK, RunInv, NEW w \in Workers,
           (Work(w) /\ ~CallGateway(w) /\ ~Brief(w)) \/ Rebalance(w) \/ Restart(w),
           NEW g \in Goals, NEW i \in Indicators
    PROVE  CiteStep(g, i)
<1>1. UNCHANGED <<goals, links, insights, dropped, voided>>
  BY DEF Work, Poll, CreateRun, MarkRunning, FetchCatalog, LogStep, Finish,
         MarkFailed, CommitOffset, Rebalance, Restart, tenantVars
<1>2. w \in Citers(g, i)' => w \in Citers(g, i)
  <2>1. CASE Poll(w)
    <3>1. attached'[w] = {}
      BY <2>1 DEF Poll, TypeOK
    <3> QED BY <3>1 DEF Citers
  <2>2. CASE ~Poll(w)
    <3>1. UNCHANGED <<at, attached>>
      BY <2>2 DEF Work, CreateRun, MarkRunning, FetchCatalog, LogStep, Finish,
             MarkFailed, CommitOffset, Rebalance, Restart, sagaVars
    <3>2. pc'[w] \in {"poll", "finish", "fail", "commit"}
             \/ pc[w] \notin {"poll", "finish", "fail", "commit"}
      BY <2>2 DEF Work, CreateRun, MarkRunning, FetchCatalog, LogStep, Finish,
             MarkFailed, CommitOffset, Rebalance, Restart, Execute, Goto, TypeOK
    <3> QED BY <3>1, <3>2 DEF Citers, GoalOf
  <2> QED BY <2>1, <2>2
<1>3. Citers(g, i)' \subseteq Citers(g, i)
  BY <1>2, CitersShrink
<1> QED BY <1>1, <1>3, DroppedStep DEF CiteStep, Citing, Free

\* A link is accepted once: the table refuses the second, and a saga counts it as
\* attached only on a good answer.
LEMMA CallCites ==
    ASSUME TypeOK, RunInv, NEW w \in Workers, CallGateway(w),
           NEW g \in Goals, NEW i \in Indicators
    PROVE  CiteStep(g, i)
<1> DEFINE c == CallsFor(EntityOf(w))[call[w]]
           h == GoalOf(w)
<1>1. /\ pc[w] = "call" /\ pc'[w] \in {"call", "step"}
      /\ UNCHANGED <<at, goals, insights, dropped>>
  BY DEF CallGateway, Advance, StepError, Goto, TypeOK
<1>2. Citing(g, i)' = Citing(g, i) /\ Dropped(g, i)' = Dropped(g, i)
  BY <1>1, DroppedStep DEF Citing
<1>3. \/ attached' = attached
      \/ c.op = "link" /\ attached' = [attached EXCEPT ![w] = attached[w] \cup {c.on}]
  BY DEF CallGateway, Advance, StepError, TypeOK
<1>4. Citers(g, i)' \subseteq Citers(g, i) \cup {w}
  <2>1. \A v \in Workers : v # w =>
           pc'[v] = pc[v] /\ at'[v] = at[v] /\ attached'[v] = attached[v]
    BY OthersUntouched DEF Work
  <2> QED BY <2>1 DEF Citers, GoalOf
<1>5. (w \in Citers(g, i)' => w \in Citers(g, i)) => Citers(g, i)' \subseteq Citers(g, i)
  BY <1>4
<1>6. w \in Citers(g, i)' /\ w \notin Citers(g, i)
         => /\ c.op = "link" /\ c.on = i /\ h = g /\ attached' # attached
  BY <1>1, <1>3 DEF Citers, GoalOf, TypeOK
<1>7. links \subseteq links'
  BY DEF CallGateway, Apply
<1>8. Free(g, i)' => Free(g, i)
  BY <1>1, <1>7 DEF Free
<1>9. voided' \in {voided, voided + 1}
  BY DEF CallGateway
<1>10. CASE w \in Citers(g, i)' => w \in Citers(g, i)
  BY <1>2, <1>5, <1>8, <1>9, <1>10 DEF CiteStep
<1>11. CASE ~(w \in Citers(g, i)' => w \in Citers(g, i))
  <2>1. c.op = "link" /\ c.on = i /\ h = g /\ attached' # attached
    BY <1>6, <1>11
  <2>2. \/ voided' = voided + 1
        \/ Accepts(h, c) /\ Apply(h, c) /\ voided' = voided
    BY <2>1 DEF CallGateway, StepError
  <2>3. CASE Accepts(h, c) /\ Apply(h, c) /\ voided' = voided
    <3>1. Free(g, i) /\ ~Free(g, i)'
      BY <1>1, <2>1, <2>3 DEF Accepts, Apply, Free
    <3> QED BY <1>2, <1>4, <2>3, <3>1 DEF CiteStep
  <2>4. CASE voided' = voided + 1
    BY <1>2, <1>4, <1>8, <2>4 DEF CiteStep
  <2> QED BY <2>2, <2>3, <2>4
<1> QED BY <1>10, <1>11

\* A briefing takes over what its saga attached, and the saga cites nothing more.
LEMMA BriefCites ==
    ASSUME TypeOK, RunInv, NEW w \in Workers, Brief(w),
           NEW g \in Goals, NEW i \in Indicators
    PROVE  CiteStep(g, i)
<1>1. /\ pc[w] = "brief" /\ pc'[w] \in {"finish", "fail"}
      /\ UNCHANGED <<at, attached, goals, links, dropped>>
      /\ voided' \in {voided, voided + 1}
      /\ insights' = insights \/ (insights' = insights \cup {Briefing(w)} /\ voided' = voided)
  BY DEF Brief, sagaVars, Goto, TypeOK
<1>2. w \notin Citers(g, i)'
  BY <1>1 DEF Citers
<1>3. Citers(g, i)' \subseteq Citers(g, i)
  BY <1>2, CitersShrink DEF Work
<1>4. (Free(g, i)' <=> Free(g, i)) /\ Dropped(g, i)' = Dropped(g, i)
  BY <1>1, DroppedStep DEF Free
<1>5. CASE Citing(g, i)' = Citing(g, i)
  BY <1>1, <1>3, <1>4, <1>5 DEF CiteStep
<1>6. CASE Citing(g, i)' # Citing(g, i)
  <2>1. insights' = insights \cup {Briefing(w)} /\ voided' = voided
    BY <1>1, <1>6 DEF Citing
  <2>2. GoalOf(w) = g /\ i \in attached[w]
    BY <1>6, <2>1 DEF Citing, Briefing
  <2>3. w \in Citers(g, i)
    BY <1>1, <2>2 DEF Citers
  <2>4. Citing(g, i)' \subseteq Citing(g, i) \cup {Briefing(w)}
    BY <2>1 DEF Citing
  <2> QED BY <1>2, <1>3, <1>4, <2>1, <2>3, <2>4 DEF CiteStep
<1> QED BY <1>5, <1>6

\* A goal that is deleted frees none of its indicators.
LEMMA DeleteCites ==
    ASSUME TypeOK, NEW d \in Deletable, DeleteGoal(d),
           NEW g \in Goals, NEW i \in Indicators
    PROVE  CiteStep(g, i)
<1>1. /\ UNCHANGED <<pc, at, attached, insights, dropped, voided>>
      /\ goals' = goals \ {d} /\ links' = {l \in links : l[1] # d}
  BY DEF DeleteGoal, sagaVars
<1>2. Free(g, i)' => Free(g, i)
  <2>1. <<g, i>>[1] = g
    OBVIOUS
  <2> QED BY <1>1, <2>1 DEF Free
<1> QED BY <1>1, <1>2, DroppedStep DEF CiteStep, Citing, Citers, GoalOf

\* A user who removes a link frees that indicator; one who makes a link frees none.
LEMMA EditCites ==
    ASSUME TypeOK, NEW l \in Editable, Unlink(l) \/ Link(l),
           NEW g \in Goals, NEW i \in Indicators
    PROVE  CiteStep(g, i)
<1>1. UNCHANGED <<pc, at, attached, goals, insights, voided>>
  BY DEF Unlink, Link, sagaVars
<1>2. Citing(g, i)' = Citing(g, i) /\ Citers(g, i)' = Citers(g, i)
  BY <1>1 DEF Citing, Citers, GoalOf
<1>3. CASE Unlink(l) /\ l = <<g, i>>
  BY <1>1, <1>2, <1>3, DroppedStep DEF CiteStep
<1>4. CASE Unlink(l) /\ l # <<g, i>>
  <2>1. Free(g, i)' => Free(g, i)
    BY <1>1, <1>4 DEF Unlink, Free
  <2> QED BY <1>1, <1>2, <1>4, <2>1, DroppedStep DEF CiteStep
<1>5. CASE Link(l)
  <2>1. (Free(g, i)' => Free(g, i)) /\ dropped' = dropped
    BY <1>1, <1>5 DEF Link, Free
  <2> QED BY <1>1, <1>2, <2>1, DroppedStep DEF CiteStep
<1> QED BY <1>3, <1>4, <1>5

\* A set that gains one element at most grows by one at most.
LEMMA OneMore ==
    ASSUME NEW S, IsFiniteSet(S), NEW x, NEW T, T \subseteq S \cup {x}
    PROVE  IsFiniteSet(T) /\ Cardinality(T) <= Cardinality(S) + 1
<1>0. Cardinality(S) \in Nat
  BY FS_CardinalityType
<1>1. /\ IsFiniteSet(S \cup {x})
      /\ Cardinality(S \cup {x})
            = IF x \in S THEN Cardinality(S) ELSE Cardinality(S) + 1
  BY FS_AddElement
<1>2. IsFiniteSet(T) /\ Cardinality(T) <= Cardinality(S \cup {x})
  BY <1>1, FS_Subset
<1>3. Cardinality(T) \in Nat /\ Cardinality(S \cup {x}) \in Nat
  BY <1>1, <1>2, FS_CardinalityType
<1> QED BY <1>0, <1>1, <1>2, <1>3

\* A set that loses one element shrinks by one at least.
LEMMA OneLess ==
    ASSUME NEW S, IsFiniteSet(S), NEW x \in S, NEW T, T \subseteq S \ {x}
    PROVE  IsFiniteSet(T) /\ Cardinality(T) <= Cardinality(S) - 1
<1>1. IsFiniteSet(S \ {x}) /\ Cardinality(S \ {x}) = Cardinality(S) - 1
  BY FS_RemoveElement
<1> QED BY <1>1, FS_Subset

\* The account of an indicator balances after every step.
LEMMA CitedKept ==
    ASSUME TypeOK, RunInv, CitedInv, [Next]_vars
    PROVE  CitedInv'
<1> SUFFICES ASSUME NEW g \in Goals, NEW i \in Indicators
             PROVE  /\ IsFiniteSet(Citing(g, i)') /\ IsFiniteSet(Citers(g, i)')
                    /\ Cardinality(Citing(g, i)') + Cardinality(Citers(g, i)')
                          + (IF Free(g, i)' THEN 1 ELSE 0)
                             <= 1 + voided' + Dropped(g, i)'
  BY DEF CitedInv
<1>1. CiteStep(g, i)
  <2>1. CASE UNCHANGED vars
    BY <2>1, DroppedStep DEF vars, CiteStep, Citing, Citers, Free, GoalOf
  <2> QED BY <2>1, QuietCites, CallCites, BriefCites, DeleteCites, EditCites DEF Next
<1>2. /\ IsFiniteSet(Citing(g, i)) /\ IsFiniteSet(Citers(g, i))
      /\ Cardinality(Citing(g, i)) + Cardinality(Citers(g, i))
            + (IF Free(g, i) THEN 1 ELSE 0) <= 1 + voided + Dropped(g, i)
  BY DEF CitedInv
<1>3. voided \in Nat /\ Dropped(g, i) \in Nat
  <2>1. faults \in 0 .. MaxFaults /\ voided \in 0 .. faults
    BY DEF TypeOK
  <2> QED BY <2>1, DroppedStep
<1>4. Cardinality(Citing(g, i)) \in Nat /\ Cardinality(Citers(g, i)) \in Nat
  BY <1>2, FS_CardinalityType
<1>5. CASE /\ Citing(g, i)' = Citing(g, i) /\ Citers(g, i)' \subseteq Citers(g, i)
           /\ (Free(g, i)' => Free(g, i)) /\ voided' \in {voided, voided + 1}
           /\ Dropped(g, i)' = Dropped(g, i)
  <2>1. IsFiniteSet(Citers(g, i)') /\ Cardinality(Citers(g, i)') <= Cardinality(Citers(g, i))
    BY <1>2, <1>5, FS_Subset
  <2>2. Cardinality(Citers(g, i)') \in Nat
    BY <2>1, FS_CardinalityType
  <2>3. IsFiniteSet(Citing(g, i)') /\ Cardinality(Citing(g, i)') = Cardinality(Citing(g, i))
    BY <1>2, <1>5
  <2> QED BY <1>2, <1>3, <1>4, <1>5, <2>1, <2>2, <2>3
<1>6. CASE /\ Citing(g, i)' = Citing(g, i) /\ Dropped(g, i)' = Dropped(g, i)
           /\ \E w \in Workers : Citers(g, i)' \subseteq Citers(g, i) \cup {w}
           /\ \/ Free(g, i) /\ ~Free(g, i)' /\ voided' = voided
              \/ (Free(g, i)' => Free(g, i)) /\ voided' = voided + 1
  <2>1. /\ IsFiniteSet(Citers(g, i)')
        /\ Cardinality(Citers(g, i)') <= Cardinality(Citers(g, i)) + 1
    BY <1>2, <1>6, OneMore
  <2>2. Cardinality(Citers(g, i)') \in Nat
    BY <2>1, FS_CardinalityType
  <2>3. IsFiniteSet(Citing(g, i)') /\ Cardinality(Citing(g, i)') = Cardinality(Citing(g, i))
    BY <1>2, <1>6
  <2> QED BY <1>2, <1>3, <1>4, <1>6, <2>1, <2>2, <2>3
<1>7. CASE /\ \E b : Citing(g, i)' \subseteq Citing(g, i) \cup {b}
           /\ \E w \in Citers(g, i) : Citers(g, i)' \subseteq Citers(g, i) \ {w}
           /\ (Free(g, i)' => Free(g, i)) /\ voided' = voided
           /\ Dropped(g, i)' = Dropped(g, i)
  <2>1. /\ IsFiniteSet(Citing(g, i)')
        /\ Cardinality(Citing(g, i)') <= Cardinality(Citing(g, i)) + 1
    BY <1>2, <1>7, OneMore
  <2>2. /\ IsFiniteSet(Citers(g, i)')
        /\ Cardinality(Citers(g, i)') <= Cardinality(Citers(g, i)) - 1
    BY <1>2, <1>7, OneLess
  <2>3. Cardinality(Citing(g, i)') \in Nat /\ Cardinality(Citers(g, i)') \in Nat
    BY <2>1, <2>2, FS_CardinalityType
  <2> QED BY <1>2, <1>3, <1>4, <1>7, <2>1, <2>2, <2>3
<1>8. CASE /\ Citing(g, i)' = Citing(g, i) /\ Citers(g, i)' = Citers(g, i)
           /\ voided' = voided /\ Dropped(g, i)' = Dropped(g, i) + 1
  BY <1>2, <1>3, <1>4, <1>8
<1> QED BY <1>1, <1>5, <1>6, <1>7, <1>8 DEF CiteStep

\* A goal that is still there has lost no link but by its user.
LEMMA LinksStay ==
    ASSUME TypeOK, [Next]_vars, NEW g, g \in goals', NEW S
    PROVE  g \in goals /\ Unlinked(g, S)' \subseteq Unlinked(g, S)
<1>1. ASSUME NEW w \in Workers, Work(w) \/ Rebalance(w) \/ Restart(w)
      PROVE  goals' = goals /\ links \subseteq links' /\ dropped' = dropped
  BY <1>1 DEF Work, Poll, CreateRun, MarkRunning, FetchCatalog, CallGateway, Apply,
         LogStep, Brief, Finish, MarkFailed, CommitOffset, Rebalance, Restart,
         tenantVars
<1>2. ASSUME NEW d \in Deletable, DeleteGoal(d)
      PROVE  /\ g \in goals /\ dropped' = dropped
             /\ \A i \in S : <<g, i>> \in links => <<g, i>> \in links'
  <2>1. \A i \in S : <<g, i>>[1] = g
    OBVIOUS
  <2> QED BY <1>2, <2>1 DEF DeleteGoal
<1>3. ASSUME NEW l \in Editable, Unlink(l) \/ Link(l)
      PROVE  g \in goals /\ Unlinked(g, S)' \subseteq Unlinked(g, S)
  <2>1. goals' = goals
    BY <1>3 DEF Unlink, Link
  <2> SUFFICES ASSUME NEW i \in S, <<g, i>> \notin links', Dropped(g, i)' = 0
               PROVE  <<g, i>> \notin links /\ Dropped(g, i) = 0
    BY <2>1 DEF Unlinked
  <2>2. CASE Unlink(l)
    <3>1. l # <<g, i>>
      BY <2>2, DroppedStep
    <3> QED BY <2>2, <3>1, DroppedStep DEF Unlink
  <2>3. CASE Link(l)
    BY <2>3, DroppedStep DEF Link
  <2> QED BY <1>3, <2>2, <2>3
<1>4. ASSUME dropped' = dropped, \A i \in S : <<g, i>> \in links => <<g, i>> \in links'
      PROVE  Unlinked(g, S)' \subseteq Unlinked(g, S)
  <2>1. \A i : Dropped(g, i)' = Dropped(g, i)
    BY <1>4 DEF Dropped
  <2> QED BY <1>4, <2>1 DEF Unlinked
<1>5. CASE UNCHANGED vars
  BY <1>4, <1>5 DEF vars
<1> QED BY <1>1, <1>2, <1>3, <1>4, <1>5 DEF Next

\* What a saga adds to its list is linked, or is a commit that was not made good.
LEMMA AttachedStep ==
    ASSUME TypeOK, RunInv, [Next]_vars, NEW w \in Workers, pc'[w] # "poll",
           GoalOf(w)' \in goals'
    PROVE  \/ attached'[w] = {}
           \/ /\ pc[w] # "poll" /\ GoalOf(w)' = GoalOf(w)
              /\ \/ Unlinked(GoalOf(w), attached[w])' \subseteq
                       Unlinked(GoalOf(w), attached[w])
                 \/ voided' = voided + 1 /\ \E i :
                       Unlinked(GoalOf(w), attached[w])' \subseteq
                          Unlinked(GoalOf(w), attached[w]) \cup {i}
<1>0. PICK g : g = GoalOf(w)
  OBVIOUS
<1> DEFINE U == Unlinked(GoalOf(w), attached[w])
           V == Unlinked(GoalOf(w), attached[w])'
<1>1. ASSUME pc[w] # "poll", at'[w] = at[w], attached'[w] = attached[w]
      PROVE  GoalOf(w)' = g /\ V \subseteq U
  <2>1. GoalOf(w)' = g
    BY <1>0, <1>1 DEF GoalOf
  <2>2. PICK S : S = attached[w]
    OBVIOUS
  <2>3. Unlinked(g, S)' \subseteq Unlinked(g, S)
    BY <2>1, LinksStay
  <2>4. V = Unlinked(g, S)' /\ U = Unlinked(g, S)
    BY <1>0, <1>1, <2>1, <2>2 DEF Unlinked
  <2> QED BY <2>1, <2>3, <2>4
<1>2. CASE Poll(w)
  BY <1>2 DEF Poll, TypeOK
<1>3. CASE CallGateway(w)
  <2> DEFINE c == CallsFor(EntityOf(w))[call[w]]
  <2>1. pc[w] # "poll" /\ at' = at /\ GoalOf(w)' = g /\ links \subseteq links'
        /\ dropped' = dropped
    BY <1>0, <1>3 DEF CallGateway, GoalOf, Apply
  <2>2. \/ attached'[w] = attached[w]
        \/ /\ c.op = "link" /\ attached'[w] = attached[w] \cup {c.on}
           /\ \/ voided' = voided + 1
              \/ <<g, c.on>> \in links'
    BY <1>0, <1>3 DEF CallGateway, Advance, StepError, Apply, TypeOK
  <2>3. /\ V = {i \in attached'[w] : <<g, i>> \notin links' /\ Dropped(g, i) = 0}
        /\ U = {i \in attached[w] : <<g, i>> \notin links /\ Dropped(g, i) = 0}
    BY <1>0, <2>1, DroppedStep DEF Unlinked
  <2>4. CASE attached'[w] = attached[w]
    BY <1>0, <1>1, <2>1, <2>4
  <2>5. CASE voided' = voided + 1 /\ attached'[w] = attached[w] \cup {c.on}
    <3>1. V \subseteq U \cup {c.on}
      BY <2>1, <2>3, <2>5
    <3> QED BY <1>0, <2>1, <2>5, <3>1
  <2>6. CASE <<g, c.on>> \in links' /\ attached'[w] = attached[w] \cup {c.on}
    <3>1. V \subseteq U
      BY <2>1, <2>3, <2>6
    <3> QED BY <1>0, <2>1, <3>1
  <2> QED BY <2>2, <2>4, <2>5, <2>6
<1>4. CASE ~Poll(w) /\ ~CallGateway(w)
  <2>1. pc[w] # "poll" /\ at'[w] = at[w] /\ attached'[w] = attached[w]
    <3>1. ASSUME NEW v \in Workers, v # w, Work(v) \/ Rebalance(v) \/ Restart(v)
          PROVE  pc[w] # "poll" /\ at'[w] = at[w] /\ attached'[w] = attached[w]
      BY <3>1, OthersUntouched
    <3>2. ASSUME Work(w) \/ Rebalance(w) \/ Restart(w)
          PROVE  pc[w] # "poll" /\ at'[w] = at[w] /\ attached'[w] = attached[w]
      BY <1>4, <3>2 DEF Work, CreateRun, MarkRunning, FetchCatalog, LogStep, Brief,
             Finish, MarkFailed, CommitOffset, Rebalance, Restart, sagaVars, Goto,
             TypeOK
    <3>3. ASSUME NEW d \in Deletable, DeleteGoal(d)
          PROVE  pc[w] # "poll" /\ at'[w] = at[w] /\ attached'[w] = attached[w]
      BY <3>3 DEF DeleteGoal, sagaVars
    <3>4. ASSUME NEW l \in Editable, Unlink(l) \/ Link(l)
          PROVE  pc[w] # "poll" /\ at'[w] = at[w] /\ attached'[w] = attached[w]
      BY <3>4 DEF Unlink, Link, sagaVars
    <3>5. CASE UNCHANGED vars
      BY <3>5 DEF vars
    <3> QED BY <3>1, <3>2, <3>3, <3>4, <3>5 DEF Next
  <2> QED BY <1>0, <1>1, <2>1
<1> QED BY <1>2, <1>3, <1>4

\* No step leaves more of an indicator list unlinked than commits were lost.
LEMMA LinkedKept ==
    ASSUME TypeOK, RunInv, LinkedInv, [Next]_vars
    PROVE  LinkedInv'
<1>0. voided \in Nat /\ voided' \in {voided, voided + 1}
  <2>1. faults \in 0 .. MaxFaults /\ voided \in 0 .. faults
    BY DEF TypeOK
  <2>2. voided' \in {voided, voided + 1}
    BY DEF Next, Work, Poll, CreateRun, MarkRunning, FetchCatalog, CallGateway,
           LogStep, Brief, Finish, MarkFailed, CommitOffset, Rebalance, Restart,
           DeleteGoal, Unlink, Link, tenantVars, vars
  <2> QED BY <2>1, <2>2
<1>1. ASSUME NEW g, NEW S, g \in goals', IsFiniteSet(Unlinked(g, S)),
             Cardinality(Unlinked(g, S)) <= voided
      PROVE  IsFiniteSet(Unlinked(g, S)') /\ Cardinality(Unlinked(g, S)') <= voided'
  <2>1. Unlinked(g, S)' \subseteq Unlinked(g, S)
    BY <1>1, LinksStay
  <2>2. IsFiniteSet(Unlinked(g, S)') /\ Cardinality(Unlinked(g, S)') <= Cardinality(Unlinked(g, S))
    BY <1>1, <2>1, FS_Subset
  <2>3. Cardinality(Unlinked(g, S)') \in Nat /\ Cardinality(Unlinked(g, S)) \in Nat
    BY <1>1, <2>2, FS_CardinalityType
  <2> QED BY <1>0, <1>1, <2>2, <2>3
<1>2. ASSUME NEW b \in insights', b.goal \in goals'
      PROVE  /\ IsFiniteSet(Unlinked(b.goal, b.cites)')
             /\ Cardinality(Unlinked(b.goal, b.cites)') <= voided'
  <2>1. b.goal \in goals
    BY <1>2, LinksStay
  <2>2. /\ IsFiniteSet(Unlinked(b.goal, b.cites))
        /\ Cardinality(Unlinked(b.goal, b.cites)) <= voided
    <3>1. CASE b \in insights
      BY <2>1, <3>1 DEF LinkedInv
    <3>2. ASSUME NEW w \in Workers, Brief(w), b = Briefing(w)
          PROVE  /\ IsFiniteSet(Unlinked(b.goal, b.cites))
                 /\ Cardinality(Unlinked(b.goal, b.cites)) <= voided
      <4>1. pc[w] # "poll" /\ b.goal = GoalOf(w) /\ b.cites = attached[w]
        BY <3>2 DEF Brief, Briefing
      <4> QED BY <2>1, <4>1 DEF LinkedInv
    <3>3. b \in insights \/ \E w \in Workers : Brief(w) /\ b = Briefing(w)
      BY <1>2 DEF Next, Work, Poll, CreateRun, MarkRunning, FetchCatalog, CallGateway,
             LogStep, Brief, Finish, MarkFailed, CommitOffset, Rebalance, Restart,
             DeleteGoal, Unlink, Link, tenantVars, vars
    <3> QED BY <3>1, <3>2, <3>3
  <2> QED BY <1>1, <1>2, <2>2
<1>3. ASSUME NEW w \in Workers, pc'[w] # "poll", GoalOf(w)' \in goals'
      PROVE  /\ IsFiniteSet(Unlinked(GoalOf(w), attached[w])')
             /\ Cardinality(Unlinked(GoalOf(w), attached[w])') <= voided'
  <2> DEFINE U == Unlinked(GoalOf(w), attached[w])
             V == Unlinked(GoalOf(w), attached[w])'
  <2>1. CASE attached'[w] = {}
    <3>1. V = {}
      BY <2>1 DEF Unlinked
    <3> QED BY <1>0, <3>1, FS_EmptySet
  <2>2. CASE /\ pc[w] # "poll" /\ GoalOf(w)' = GoalOf(w)
             /\ \/ V \subseteq U
                \/ voided' = voided + 1 /\ \E i : V \subseteq U \cup {i}
    <3>1. GoalOf(w) \in goals
      BY <1>3, <2>2, LinksStay
    <3>2. IsFiniteSet(U) /\ Cardinality(U) <= voided
      BY <2>2, <3>1 DEF LinkedInv
    <3>3. Cardinality(U) \in Nat
      BY <3>2, FS_CardinalityType
    <3>4. CASE V \subseteq U
      <4>1. IsFiniteSet(V) /\ Cardinality(V) <= Cardinality(U)
        BY <3>2, <3>4, FS_Subset
      <4>2. Cardinality(V) \in Nat
        BY <4>1, FS_CardinalityType
      <4> QED BY <1>0, <3>2, <3>3, <4>1, <4>2
    <3>5. CASE voided' = voided + 1 /\ \E i : V \subseteq U \cup {i}
      <4>1. IsFiniteSet(V) /\ Cardinality(V) <= Cardinality(U) + 1
        BY <3>2, <3>5, OneMore
      <4>2. Cardinality(V) \in Nat
        BY <4>1, FS_CardinalityType
      <4> QED BY <1>0, <3>2, <3>3, <3>5, <4>1, <4>2
    <3> QED BY <2>2, <3>4, <3>5
  <2>3. \/ attached'[w] = {}
        \/ /\ pc[w] # "poll" /\ GoalOf(w)' = GoalOf(w)
           /\ \/ V \subseteq U
              \/ voided' = voided + 1 /\ \E i : V \subseteq U \cup {i}
    BY <1>3, AttachedStep
  <2> QED BY <2>1, <2>2, <2>3
<1> QED BY <1>2, <1>3 DEF LinkedInv

\* However often an event is delivered and whoever runs it at the same time, its
\* goal's briefings cite an indicator once and cite only what is linked, but for the
\* links its user removed and the commits the gateway answered 200 to and lost.
THEOREM BriefingsHoldAlways == Spec => []BriefingsHold
<1>1. Init => CitedInv /\ LinkedInv
  <2> SUFFICES ASSUME Init PROVE CitedInv /\ LinkedInv
    OBVIOUS
  <2>1. ASSUME NEW g \in Goals, NEW i \in Indicators
        PROVE  Citing(g, i) = {} /\ Citers(g, i) = {} /\ voided = 0 /\ Dropped(g, i) = 0
    BY DEF Init, Citing, Citers, Dropped
  <2>2. CitedInv
    BY <2>1, FS_EmptySet DEF CitedInv
  <2>3. LinkedInv
    BY DEF Init, LinkedInv
  <2> QED BY <2>2, <2>3
<1>2. TypeOK /\ RunInv /\ CitedInv /\ LinkedInv /\ [Next]_vars => CitedInv' /\ LinkedInv'
  BY CitedKept, LinkedKept
<1>3. TypeOK /\ CitedInv /\ LinkedInv => BriefingsHold
  <2> SUFFICES ASSUME TypeOK, CitedInv, LinkedInv PROVE CitedOnce /\ CitedIsLinked
    BY DEF BriefingsHold
  <2>1. ASSUME NEW g \in Goals, NEW i \in UNION {b.cites : b \in insights}
        PROVE  Cardinality(Citing(g, i)) <= 1 + voided + Dropped(g, i)
    <3>1. i \in Indicators /\ voided \in Nat /\ Dropped(g, i) \in Nat
      BY DroppedStep DEF TypeOK
    <3>2. /\ IsFiniteSet(Citing(g, i)) /\ IsFiniteSet(Citers(g, i))
          /\ Cardinality(Citing(g, i)) + Cardinality(Citers(g, i))
                + (IF Free(g, i) THEN 1 ELSE 0) <= 1 + voided + Dropped(g, i)
      BY <3>1 DEF CitedInv
    <3>3. Cardinality(Citing(g, i)) \in Nat /\ Cardinality(Citers(g, i)) \in Nat
      BY <3>2, FS_CardinalityType
    <3> QED BY <3>1, <3>2, <3>3
  <2>2. CitedOnce
    BY <2>1 DEF CitedOnce
  <2>3. CitedIsLinked
    BY DEF LinkedInv, CitedIsLinked, Unlinked
  <2> QED BY <2>2, <2>3
<1> QED BY <1>1, <1>2, <1>3, TypeAndRun, PTL DEF Spec
=============================================================================

------------------------------ MODULE Workflow ------------------------------
(***************************************************************************)
(* The workflow service: instances of one consumer group read              *)
(* goal.created.v1 and run the goal-to-data saga for each event, calling    *)
(* the gateway over HTTP and recording progress in workflow_runs through    *)
(* one PostgreSQL connection per instance.                                  *)
(*                                                                         *)
(* The topic is the log the outbox relays wrote; it may hold an event more  *)
(* than once.  All goals belong to one tenant.                              *)
(***************************************************************************)
EXTENDS Naturals, Sequences, FiniteSets

CONSTANTS
    Workers,       \* instances of the service
    Goals,         \* goals that were created
    Topic,         \* the partition: a sequence of goals
    FirstOwner,    \* the instance the partition is assigned to first
    Deletable,     \* goals their user may delete
    Editable,      \* links <<goal, indicator>> their user may remove and make
    Entities,      \* the materials extract_entities finds in each goal's title
    NoIndicator,   \* an entity without an indicator of some kind
    MaxUnlinks,    \* bound on how often one link is removed
    MaxFaults      \* bound on crashes, rebalances and failed calls

ASSUME WorkflowAssumption ==
    /\ Topic \in Seq(Goals)
    /\ FirstOwner \in Workers /\ Deletable \subseteq Goals
    /\ \A g \in Goals : Entities[g] \in Seq({Entities[g][k] : k \in DOMAIN Entities[g]})
    /\ MaxUnlinks \in Nat /\ MaxFaults \in Nat

VARIABLES
    (* Kafka *)
    owner,       \* the instance the partition is assigned to
    committed,   \* the group's committed offset: the next one to read
    (* one instance *)
    pc, db,      \* its step; its connection, "ok" or "broken"
    position,    \* the next offset its consumer will hand out
    at, run,     \* the offset and the workflow_runs row it works on
    ent, call,   \* entity and gateway call of the saga it is at
    attached,    \* indicators the saga believes it linked
    (* PostgreSQL, behind the gateway or not *)
    runs,        \* workflow_runs: a sequence of rows
    goals,       \* goals that still exist
    overlay,     \* the tenant's enabled and private materials and indicators
    links,       \* goal_indicator_links
    insights,    \* briefings, with the indicators each cites as evidence
    (* bookkeeping *)
    faults,      \* failures so far
    dropped,     \* how often its user removed each link of Editable
    voided       \* gateway answers of 200 whose commit had failed

kafkaVars == <<owner, committed, position>>
sagaVars == <<at, run, ent, call, attached>>
tenantVars == <<goals, overlay, links, insights, dropped, voided>>
vars == <<owner, committed, pc, db, position, at, run, ent, call, attached,
          runs, goals, overlay, links, insights, faults, dropped, voided>>

Offsets == 1 .. Len(Topic)
Final == {"succeeded", "failed"}
Fault == faults < MaxFaults /\ faults' = faults + 1
Goto(w, l) == pc' = [pc EXCEPT ![w] = l]
GoalOf(w) == Topic[at[w]]
EntityOf(w) == Entities[GoalOf(w)][ent[w]]
-----------------------------------------------------------------------------
Init ==
    /\ owner = FirstOwner
    /\ committed = 1
    /\ pc = [w \in Workers |-> "poll"]
    /\ db = [w \in Workers |-> "ok"]
    /\ position = [w \in Workers |-> 1]
    /\ at = [w \in Workers |-> 0] /\ run = [w \in Workers |-> 0]
    /\ ent = [w \in Workers |-> 1] /\ call = [w \in Workers |-> 1]
    /\ attached = [w \in Workers |-> {}]
    /\ runs = <<>>
    /\ goals = Goals
    /\ overlay = {} /\ links = {} /\ insights = {}
    /\ faults = 0 /\ voided = 0 /\ dropped = [l \in Editable |-> 0]

\* Mutant: the list of attached indicators outlives the saga.
PollKeepsAttached(w) ==
    /\ pc[w] = "poll" /\ owner = w /\ position[w] \in Offsets
    /\ at' = [at EXCEPT ![w] = position[w]]
    /\ position' = [position EXCEPT ![w] = @ + 1]
    /\ ent' = [ent EXCEPT ![w] = 1] /\ call' = [call EXCEPT ![w] = 1]
    /\ run' = [run EXCEPT ![w] = 0]
    /\ Goto(w, "create")
    /\ UNCHANGED <<owner, committed, db, attached, runs, faults>>
    /\ UNCHANGED tenantVars

\* main: the consumer hands out the next offset and moves on in memory, before
\* the saga runs and whatever becomes of it.
Poll(w) ==
    /\ pc[w] = "poll" /\ owner = w /\ position[w] \in Offsets
    /\ at' = [at EXCEPT ![w] = position[w]]
    /\ position' = [position EXCEPT ![w] = @ + 1]
    /\ ent' = [ent EXCEPT ![w] = 1] /\ call' = [call EXCEPT ![w] = 1]
    /\ attached' = [attached EXCEPT ![w] = {}]
    /\ run' = [run EXCEPT ![w] = 0]
    /\ Goto(w, "create")
    /\ UNCHANGED <<owner, committed, db, runs, faults>> /\ UNCHANGED tenantVars

\* Mutant: an error is rolled back and the connection goes on being used.
ExecuteRollsBack(w, newRuns, next, onError) ==
    \/ runs' = newRuns /\ Goto(w, next) /\ UNCHANGED <<db, faults>>
    \/ /\ Fault /\ runs' \in {runs, newRuns}
       /\ Goto(w, onError) /\ UNCHANGED db

\* One statement and its commit on the instance's only connection.  After an
\* error nothing rolls back or reconnects, so every later statement fails too;
\* the statement that broke it may have taken effect.
Execute(w, newRuns, next, onError) ==
    \/ /\ db[w] = "ok" /\ runs' = newRuns
       /\ Goto(w, next)
       /\ UNCHANGED <<db, faults>>
    \/ /\ db[w] = "ok" /\ Fault
       /\ db' = [db EXCEPT ![w] = "broken"]
       /\ runs' \in {runs, newRuns}
       /\ Goto(w, onError)
    \/ /\ db[w] = "broken"
       /\ Goto(w, onError)
       /\ UNCHANGED <<runs, db, faults>>

SetRun(w, state) == [runs EXCEPT ![run[w]].state = state]

\* _create_workflow_run, outside the try: an error ends run_saga, main logs it
\* and polls again without a commit.
CreateRun(w) ==
    /\ pc[w] = "create"
    /\ Execute(w, Append(runs, [goal |-> GoalOf(w), state |-> "planning", step |-> 0]),
               "plan", "poll")
    /\ run' = [run EXCEPT ![w] = Len(runs) + 1]
    /\ UNCHANGED <<at, ent, call, attached>>
    /\ UNCHANGED kafkaVars /\ UNCHANGED tenantVars

\* The plan is stored; a title without entities fails the saga.
MarkRunning(w) ==
    /\ pc[w] = "plan"
    /\ Execute(w, SetRun(w, "running"),
               IF Entities[GoalOf(w)] = <<>> THEN "fail" ELSE "fetch", "fail")
    /\ UNCHANGED sagaVars /\ UNCHANGED kafkaVars /\ UNCHANGED tenantVars

\* The two catalog reads.
FetchCatalog(w) ==
    /\ pc[w] = "fetch"
    /\ \/ Goto(w, "call") /\ UNCHANGED faults
       \/ Goto(w, "fail") /\ Fault
    /\ UNCHANGED <<db, runs>>
    /\ UNCHANGED sagaVars /\ UNCHANGED kafkaVars /\ UNCHANGED tenantVars

\* The gateway calls run_saga makes for one entity, in order.
IndicatorCalls(i) ==
    IF i = NoIndicator THEN <<>>
    ELSE <<[op |-> "enable", on |-> i], [op |-> "link", on |-> i]>>
CallsFor(e) ==
    <<[op |-> IF e.known THEN "enable" ELSE "create", on |-> e.code]>>
        \o IndicatorCalls(e.price) \o IndicatorCalls(e.spread)

\* Mutant: the link table gets the UPDATE policy its upsert needs.
AcceptsRelink(g, c) ==
    \/ c.op = "enable"
    \/ c.op = "create" /\ c.on \notin overlay
    \/ c.op = "link" /\ g \in goals

\* The gateway's answer to them.  Enabling is an upsert; a private material is
\* UNIQUE (org_id, code); a link upserts its role, but the table has no UPDATE
\* policy, so row-level security refuses the link that is already there.
Accepts(g, c) ==
    \/ c.op = "enable"
    \/ c.op = "create" /\ c.on \notin overlay
    \/ c.op = "link" /\ g \in goals /\ <<g, c.on>> \notin links
Apply(g, c) ==
    /\ overlay' = IF c.op = "link" THEN overlay ELSE overlay \cup {c.on}
    /\ links' = IF c.op = "link" THEN links \cup {<<g, c.on>>} ELSE links

\* What the saga does with a good answer, and with an exception.
Advance(w, c) ==
    /\ attached' = [attached EXCEPT ![w] = IF c.op = "link" THEN @ \cup {c.on} ELSE @]
    /\ call' = [call EXCEPT ![w] = @ + 1]
    /\ Goto(w, IF call[w] = Len(CallsFor(EntityOf(w)))
               THEN "step" ELSE "call")
StepError(w) == Goto(w, "step") /\ UNCHANGED <<attached, call>>

CallGateway(w) ==
    /\ pc[w] = "call"
    /\ LET g == GoalOf(w)
           c == CallsFor(EntityOf(w))[call[w]]
       IN  \/ /\ Accepts(g, c) /\ Apply(g, c)
              /\ \/ Advance(w, c) /\ UNCHANGED faults
                 \/ StepError(w) /\ Fault          \* the answer timed out
              /\ UNCHANGED voided
           \/ /\ ~Accepts(g, c) /\ StepError(w)
              /\ UNCHANGED <<overlay, links, faults, voided>>
           \/ /\ Fault                             \* the call never arrived
              /\ StepError(w)
              /\ UNCHANGED <<overlay, links, voided>>
           \/ /\ Accepts(g, c) /\ Fault            \* 200, but the commit failed
              /\ voided' = voided + 1
              /\ Advance(w, c)
              /\ UNCHANGED <<overlay, links>>
    /\ UNCHANGED <<db, at, run, ent, runs, goals, insights, dropped>>
    /\ UNCHANGED kafkaVars

\* Mutant: the step number is counted past the entities.
LogStepPastEnd(w) ==
    /\ pc[w] = "step"
    /\ Execute(w, [runs EXCEPT ![run[w]].step = ent[w] + 1],
               IF ent[w] < Len(Entities[GoalOf(w)]) THEN "call"
               ELSE IF attached[w] # {} THEN "brief" ELSE "finish", "fail")
    /\ ent' = [ent EXCEPT ![w] = @ + 1] /\ call' = [call EXCEPT ![w] = 1]
    /\ UNCHANGED <<at, run, attached>>
    /\ UNCHANGED kafkaVars /\ UNCHANGED tenantVars

\* The entity's step is logged, failed or not; then the next entity.
LogStep(w) ==
    /\ pc[w] = "step"
    /\ Execute(w, [runs EXCEPT ![run[w]].step = ent[w]],
               IF ent[w] < Len(Entities[GoalOf(w)]) THEN "call"
               ELSE IF attached[w] # {} THEN "brief" ELSE "finish", "fail")
    /\ ent' = [ent EXCEPT ![w] = @ + 1] /\ call' = [call EXCEPT ![w] = 1]
    /\ UNCHANGED <<at, run, attached>>
    /\ UNCHANGED kafkaVars /\ UNCHANGED tenantVars

\* create_insight, with every attached indicator as evidence; the insight of a
\* goal that is gone breaks its foreign key.
Briefing(w) == [run |-> run[w], goal |-> GoalOf(w), cites |-> attached[w]]
Brief(w) ==
    /\ pc[w] = "brief"
    /\ \/ /\ GoalOf(w) \in goals
          /\ insights' = insights \cup {Briefing(w)}
          /\ \/ Goto(w, "finish") /\ UNCHANGED faults
             \/ Goto(w, "fail") /\ Fault
          /\ UNCHANGED voided
       \/ /\ GoalOf(w) \notin goals /\ Goto(w, "fail")
          /\ UNCHANGED <<insights, faults, voided>>
       \/ /\ Fault /\ Goto(w, "fail") /\ UNCHANGED <<insights, voided>>
       \/ /\ GoalOf(w) \in goals /\ Fault
          /\ voided' = voided + 1
          /\ Goto(w, "finish") /\ UNCHANGED insights
    /\ UNCHANGED <<db, runs, goals, overlay, links, dropped>>
    /\ UNCHANGED sagaVars /\ UNCHANGED kafkaVars

\* The run is closed; an error on the way to "succeeded" lands in the except
\* clause, whose own update is the last chance before main gives up.
Finish(w) ==
    /\ pc[w] = "finish"
    /\ Execute(w, SetRun(w, "succeeded"), "commit", "fail")
    /\ UNCHANGED sagaVars /\ UNCHANGED kafkaVars /\ UNCHANGED tenantVars

MarkFailed(w) ==
    /\ pc[w] = "fail"
    /\ Execute(w, SetRun(w, "failed"), "commit", "poll")
    /\ UNCHANGED sagaVars /\ UNCHANGED kafkaVars /\ UNCHANGED tenantVars

\* consumer.commit: the coordinator refuses an instance that lost the partition.
CommitOffset(w) ==
    /\ pc[w] = "commit"
    /\ \/ owner = w /\ committed' = at[w] + 1 /\ UNCHANGED faults
       \/ owner # w /\ UNCHANGED <<committed, faults>>
       \/ owner = w /\ Fault /\ UNCHANGED committed
    /\ Goto(w, "poll")
    /\ UNCHANGED <<owner, position, db, runs>>
    /\ UNCHANGED sagaVars /\ UNCHANGED tenantVars

\* Mutant: auto.offset.reset starts an instance at the end of the partition.
AssignLatest(w) == owner' = w /\ position' = [position EXCEPT ![w] = Len(Topic) + 1]

Assign(w) == owner' = w /\ position' = [position EXCEPT ![w] = committed]

\* The group moves the partition, from the committed offset, because a saga
\* outlasts max.poll.interval or an instance joins; the first owner carries on.
Rebalance(w) ==
    /\ owner # w
    /\ Fault
    /\ Assign(w)
    /\ UNCHANGED <<committed, pc, db, runs>>
    /\ UNCHANGED sagaVars /\ UNCHANGED tenantVars

\* An instance stops and is started again with a fresh connection; the group
\* reassigns the partition if the instance had it.
Restart(w) ==
    /\ Fault
    /\ Goto(w, "poll")
    /\ db' = [db EXCEPT ![w] = "ok"]
    /\ IF owner = w THEN \E v \in Workers : Assign(v)
                    ELSE UNCHANGED <<owner, position>>
    /\ UNCHANGED <<committed, runs>>
    /\ UNCHANGED sagaVars /\ UNCHANGED tenantVars

\* A user deletes a goal: its links go with it.
DeleteGoal(g) ==
    /\ g \in goals
    /\ goals' = goals \ {g}
    /\ links' = {l \in links : l[1] # g}
    /\ UNCHANGED <<owner, committed, pc, db, position, runs, overlay, insights,
                   faults, dropped, voided>>
    /\ UNCHANGED sagaVars

\* A user takes an indicator off a goal: before, while or after a saga cites it.
Unlink(l) ==
    /\ l \in links /\ dropped[l] < MaxUnlinks
    /\ links' = links \ {l} /\ dropped' = [dropped EXCEPT ![l] = @ + 1]
    /\ UNCHANGED <<owner, committed, pc, db, position, runs, goals, overlay, insights,
                   faults, voided>>
    /\ UNCHANGED sagaVars

\* A user puts one on a goal, by the handler that the saga calls, which refuses the
\* link that is there: whichever comes second fails.
Link(l) ==
    /\ l[1] \in goals /\ l \notin links /\ links' = links \cup {l}
    /\ UNCHANGED <<owner, committed, pc, db, position, runs, goals, overlay, insights,
                   faults, dropped, voided>>
    /\ UNCHANGED sagaVars
-----------------------------------------------------------------------------
Work(w) == \/ Poll(w) \/ CreateRun(w) \/ MarkRunning(w) \/ FetchCatalog(w)
           \/ CallGateway(w) \/ LogStep(w) \/ Brief(w) \/ Finish(w)
           \/ MarkFailed(w) \/ CommitOffset(w)

Next == \/ \E w \in Workers : Work(w) \/ Rebalance(w) \/ Restart(w)
        \/ \E g \in Deletable : DeleteGoal(g)
        \/ \E l \in Editable : Unlink(l) \/ Link(l)

Spec == Init /\ [][Next]_vars

\* An instance that is up keeps working; nothing makes an operator restart it.
FairSpec == Spec /\ \A w \in Workers : WF_vars(Work(w))
-----------------------------------------------------------------------------
(* What the service must guarantee. *)

\* What a gateway call may be about, and who has a row in workflow_runs; the rows.
CallsAt(g, k) ==
    {CallsFor(Entities[g][k])[n] : n \in DOMAIN CallsFor(Entities[g][k])}
Indicators ==
    {c.on : c \in UNION {UNION {CallsAt(g, k) : k \in DOMAIN Entities[g]} : g \in Goals}}
Working(w) == pc[w] \notin {"poll", "create"}

Rows == [goal : Goals, state : {"planning", "running"} \cup Final, step : Nat]

\* Every variable has its type.
TypeOK ==
    /\ owner \in Workers
    /\ committed \in 1 .. (Len(Topic) + 1)
    /\ pc \in [Workers -> {"poll", "create", "plan", "fetch", "call", "step",
                           "brief", "finish", "fail", "commit"}]
    /\ db \in [Workers -> {"ok", "broken"}]
    /\ position \in [Workers -> 1 .. (Len(Topic) + 1)]
    /\ at \in [Workers -> 0 .. Len(Topic)] /\ run \in [Workers -> Nat]
    /\ ent \in [Workers -> Nat \ {0}] /\ call \in [Workers -> Nat \ {0}]
    /\ attached \in [Workers -> SUBSET Indicators]
    /\ \A w \in Workers : pc[w] # "poll" => at[w] \in Offsets
    /\ \A w \in Workers : Working(w) => run[w] \in DOMAIN runs
    /\ runs \in Seq(Rows)
    /\ \A i \in DOMAIN runs : runs[i].step <= Len(Entities[runs[i].goal])
    /\ \A b \in insights : b.goal \in Goals /\ b.cites \subseteq Indicators
    /\ faults \in 0 .. MaxFaults /\ voided \in 0 .. faults
    /\ dropped \in [Editable -> 0 .. MaxUnlinks]

\* The group's offset never passes an event whose saga did not run to a final
\* state, although a later commit covers every earlier offset.
Ran(o) == \E i \in DOMAIN runs : runs[i].goal = Topic[o] /\ runs[i].state \in Final
CommittedRan == \A o \in Offsets : o < committed => Ran(o)

\* An indicator of a goal is cited by one briefing at most, however often the
\* event is delivered and whoever runs it at the same time, unless its user removed
\* the link meanwhile, which lets one more saga make it, or the gateway answered 200
\* for a link it then failed to commit.
Citing(g, i) == {b \in insights : b.goal = g /\ i \in b.cites}
Dropped(g, i) == IF <<g, i>> \in Editable THEN dropped[<<g, i>>] ELSE 0
CitedOnce ==
    \A g \in Goals : \A i \in UNION {b.cites : b \in insights} :
        Cardinality(Citing(g, i)) <= 1 + voided + Dropped(g, i)

\* A goal that lives on keeps every indicator its briefings cite, but for those its
\* user removed and for the commits that failed.
Unlinked(g, S) == {i \in S : <<g, i>> \notin links /\ Dropped(g, i) = 0}
CitedIsLinked ==
    \A b \in insights : b.goal \in goals =>
        Cardinality(Unlinked(b.goal, b.cites)) <= voided

\* What a goal's briefings cite is linked, and cited once: no saga, duplicate or
\* failure undoes a link or cites it again, only the goal's user makes room for that.
BriefingsHold == CitedOnce /\ CitedIsLinked

\* A run that was closed is never reopened, reclosed or worked on again.
ClosedStaysClosed ==
    [][\A i \in DOMAIN runs : runs[i].state \in Final => runs'[i] = runs[i]]_vars

\* Every event is run to a final state, unless the instance that holds the
\* partition lost its connection: then nothing runs until it is restarted.
Stuck == db[owner] = "broken"
EventuallyRan == \A o \in Offsets : <>(Ran(o) \/ Stuck)

\* outbox.go:35-36 on duplicates: workflow_runs is keyed by the event, so that
\* consumers are idempotent.
OneRunPerEvent ==
    \A i, j \in DOMAIN runs : runs[i].goal = runs[j].goal => i = j
-----------------------------------------------------------------------------
(* The inductive invariants behind the properties above, each on top of the
   first: TypeOK and RunInv. *)

\* A saga's row is the one it opened for its goal, and is closed exactly when only
\* the offset is left to commit; its entity and call are those of the plan.
SagaOK(w) ==
    /\ Working(w) => runs[run[w]].goal = GoalOf(w)
    /\ Working(w) /\ db[w] = "ok" => (runs[run[w]].state \in Final <=> pc[w] = "commit")
    /\ pc[w] = "commit" => db[w] = "ok"
    /\ pc[w] \in {"create", "plan"} => ent[w] = 1
    /\ pc[w] \in {"create", "plan", "fetch"} => call[w] = 1
    /\ pc[w] \in {"fetch", "call", "step"} => ent[w] \in DOMAIN Entities[GoalOf(w)]
    /\ pc[w] = "call" => call[w] \in DOMAIN CallsFor(EntityOf(w))
RunInv ==
    /\ \A w \in Workers : SagaOK(w)
    /\ \A v, w \in Workers : Working(v) /\ Working(w) /\ run[v] = run[w] => v = w

\* Whoever may commit an offset, by having it in hand or by polling on, has a
\* connection that never failed it: everything before that offset has been run.
OffsetInv ==
    /\ CommittedRan
    /\ \A w \in Workers : \A o \in Offsets :
          db[w] = "ok" /\ pc[w] # "poll" /\ o < at[w] => Ran(o)
    /\ \A w \in Workers : \A o \in Offsets :
          /\ db[w] = "ok" /\ owner = w /\ o < position[w]
          /\ ~(pc[w] # "poll" /\ o = at[w])
          => Ran(o)

\* A goal's indicator is cited, or about to be, or free to be linked: each of these
\* once, and once more for every time its user removed the link and for every commit
\* the gateway did not make good.
Citers(g, i) == {w \in Workers : /\ pc[w] \notin {"poll", "finish", "fail", "commit"}
                                 /\ GoalOf(w) = g /\ i \in attached[w]}
Free(g, i) == g \in goals /\ <<g, i>> \notin links
CitedInv ==
    \A g \in Goals, i \in Indicators :
        /\ IsFiniteSet(Citing(g, i)) /\ IsFiniteSet(Citers(g, i))
        /\ Cardinality(Citing(g, i)) + Cardinality(Citers(g, i))
              + (IF Free(g, i) THEN 1 ELSE 0) <= 1 + voided + Dropped(g, i)

\* What a saga believes it linked is linked, or was removed, those commits apart.
LinkedInv ==
    /\ \A b \in insights : b.goal \in goals =>
          /\ IsFiniteSet(Unlinked(b.goal, b.cites))
          /\ Cardinality(Unlinked(b.goal, b.cites)) <= voided
    /\ \A w \in Workers : pc[w] # "poll" /\ GoalOf(w) \in goals =>
          /\ IsFiniteSet(Unlinked(GoalOf(w), attached[w]))
          /\ Cardinality(Unlinked(GoalOf(w), attached[w])) <= voided
=============================================================================

# A TLA+ model of choopoo-backend

choopoo-backend turns crawled web pages into market intelligence for the goals of its tenants. Eight
small services share one PostgreSQL database, one Kafka broker and one Redis. Every service runs as
one or more instances that may stop at any moment, nothing coordinates them except consumer groups,
transactions and unique keys, and most hand-overs between them are at-least-once at best. That is
where this development looks: what a step of one service may assume about the last step of another,
and what a failure between two statements leaves behind.

Paths below are relative to `src/services/`. Line numbers are those of the modelled commit;
`PROJECT.json` maps every definition to the lines it stands for.

## 1. Inventory

### How the parts interact

```
 client --POST /api/crawl--> gateway --crawl-jobs--> producer --page-metadata--> consumer --analysis-results--> summariser
                                                                                    |  pages                       | analysis_results
                                                                                    v                              v
 client --POST /v2/goals---> gateway --goals + domain_events-------------------> PostgreSQL <----poll---- event-extractor, forecaster
                               ^  \--relay: goal.created.v1--> workflow                                        |
                               |                                  |                                            |
                               +----- HTTP, service secret -------+--------------------------------------------+
 client --magic link-------> gateway --orgs, users--> PostgreSQL, sessions --> Redis
 client --chat-------------> gateway --proxy--> copilot --tools--> gateway
```

| Component | State it keeps | Operations | Hard behaviour | Correct when |
|---|---|---|---|---|
| gateway: outbox (`outbox.go`, `v2_goals.go`, `tenant.go`) | `goals`, `domain_events`, the relay's batch | create a goal and its event in one transaction; drain unpublished rows once a second | several relays, no row lock, no acknowledgement, errors between write and mark | no event without a goal, no event forgotten, a bounded number of copies |
| workflow (`workflow/`) | consumer position, one connection, `workflow_runs`, what the gateway stores for it | poll, run the saga, commit the offset | duplicates, rebalances while a saga runs, timeouts of calls that took effect, a connection that stays broken | a committed event was run; a briefing cites what is linked, once |
| producer (`producer/`) | consumer position, bounded channel, workers | read and commit, queue, crawl, publish | the offset is committed first; a full channel blocks the reader | a loss is owed to a failure and is no larger than what one instance holds |
| gateway: crawl API (`handlers.go`) | none; a Redis cache for results | enqueue the URLs of a job; read results | one write for many URLs with a deadline | what a 202 accepted is crawled, or a failure accounts for it |
| consumer (`consumer/`) | consumer position, `pages`, Redis keys | check the cache, upsert, cache, forward | check-then-act, background commits, closing after an error | a hit never hides an unstored page; one failure loses one page |
| summariser (`summariser/`) | breaker, sliding window, `analysis_results` | poll, call the AI under one of three strategies, save | counting failures across breaker states, a pause that must end, auto-commit | the breaker agrees with the AI's failures; nothing is dropped in silence |
| event-extractor (`event-extractor/`) | `since`, in memory only | each tick: read new pages, find links, post insights | pages that commit out of id order, errors in the middle of a page, restarts | a page is skipped only if it appeared behind the reader; a failure costs one page |
| gateway: sign-in (`auth.go`, `session.go`) | `orgs`, `users`, `magic_link_tokens`, Redis sessions | send a link, follow it, log out | first sign-ins of one organisation at once | one owner per organisation; sessions name stored users |
| gateway: tenant data (`v2_catalog.go`, `v2_insights.go`, `v2_goals.go`, `v2_aspects.go`) | overlay, links, insights, aspect scores | upserts and inserts in the tenant transaction | a repeated insert is refused, a repeated link too | see Workflow, EventExtractor |
| gateway: composer (`composer.go`, `v2_catalog.go`) | `tenant_indicators`, readings | evaluate a formula over newest readings, create a tenant's indicator | two functions that call each other; every lookup is a statement of its own | the answer is the formula's value; only a circle of definitions stops it |
| forecaster (`forecaster/`) | none between ticks | each tick: fit every series, post a forecast per linked goal | links, goals and readings change between its statements, a lost answer ends the tick | a forecast is for a link that was there, from readings that are there, and is current in the end |
| copilot (`copilot/`) and its proxy (`v2_copilot.go`) | none; the client holds the conversation | model turns or stub commands, each tool a gateway call | tool timeouts, a proxy that gives up first, messages that then overlap | no tool call without its result; an answer lists what was done; every message is answered |
| gateway: aspects, workflow list, status | `signal_aspects` and scores | single upserts and reads | | not modelled |
| migrations, scripts, compose files | schema | run once | | tables enter as keys and policies |

The hazards this code is exposed to, each at its line, are listed in `PROJECT.json`; the properties
below are aimed at them.

## 2. Modules

| Module | Models | Kind |
|---|---|---|
| `EventFeed` | what the outbox promises the services behind Kafka | abstract specification |
| `Outbox` | `POST /v2/goals`, `withTenantTx`, `drainOutbox` | implements `EventFeed` |
| `OutboxProofs` | theorems about `Outbox` | proofs |
| `Workflow` | the saga and the gateway calls it makes | component |
| `Crawler` | `POST /api/crawl` and the producer | two components and their topic |
| `Scorer` | the consumer service | component |
| `Summariser` | the summariser with its three strategies | component |
| `EventExtractor` | the extractor, the pages and the links it reads | component and environment |
| `SignIn` | magic links, provisioning, sessions | component |
| `Forecaster` | the forecaster, the readings, links and goals it reads | component and environment |
| `Copilot` | both conversation loops, the tool calls, the gateway's proxy | component |
| `Composer` | formula evaluation, the `latest` endpoint, creation of indicators | algorithm and component |
| `WorkflowProofs`, `SummariserProofs`, `EventExtractorProofs`, `SignInProofs`, `CopilotProofs` | theorems about the module each is named after | proofs |
| `PipelineProofs` | theorems about `Scorer` and `Crawler` | proofs |
| `IndicatorProofs` | theorems about `Composer` and `Forecaster` | proofs |
| `MC*` | instances for TLC | |

Conventions. One action per statement that another process can see between (an SQL statement, a
Kafka or Redis call, an HTTP call), so that every interleaving the services allow is explored. Kafka
is a partition (a sequence), an owner, a committed offset and each instance's position. A failure
(an error, a lost answer, a crash, a rebalance) takes the conjunct `Fault`, which counts it against
`MaxFaults`; the count is a variable so that properties can say what each failure may cost. A
definition marked "Mutant" is a plausible bug of the definition after it. It is in no next-state
relation; it shows that a property can see such a bug.

### Outbox
A request is identified with the goal it asks for and the event it raises. `tx[r]` is where its
transaction is: `BeginTx` (`tenant.go:94-119`), `InsertGoal`, `InsertEvent` (which takes an id of a
sequence that never rolls back), then `CommitTx` or `RollbackTx` by status (`tenant.go:120-137`).
The commit's error is ignored there, so an "ok" reply may stand for nothing stored, and the model
has that step. `Select`, `Write` and `Mark` are the relay of each gateway (`outbox.go:62-112`).
`WriteOk` may lose an event of `Lossy`: the writer sets no `RequiredAcks`, and in kafka-go the
default is none. `WriteFails` of an `Oversized` event is certain, so the drain never gets past it.
`copies` counts what the topic holds; order in the topic is left out since the balancer
(`LeastBytes`) keeps none.

### Workflow
`Poll` hands out the next offset and moves the position; `CreateRun` to `Finish`/`MarkFailed` are
`run_saga` statement by statement; `CommitOffset` is main's. `Execute` is one statement on the only
connection: after an error nothing rolls it back, so it stays `broken` until `Restart`.
`CallGateway` walks `CallsFor`, the calls the loop makes for one entity, with four outcomes: done,
refused, done but timed out, and answered 200 over a failed commit. `Accepts` is the gateway's
answer: enabling repeats, a private material does not, and a link does not either because its table
has no UPDATE policy (`migrations/0008_goals.up.sql:35-37`) for the upsert of `v2_goals.go:238`.
All goals belong to one tenant; row filters of other tenants are not part of it.
Users act at any moment: `DeleteGoal`, `Unlink` (`v2_goals.go:251-277`, which `saga.py:207` invites them
to) and `Link`, by the handler the saga calls. `Editable` are the links they may remove and make, `dropped`
counts how often each was removed: a removal makes room for one more saga, or one more delivery of
the event, to link the indicator and cite it again, so `BriefingsHold` allows for one citation more per
removal, and for a cited indicator that its user took off. Every other indicator keeps the promise.

### Crawler
`Submit` is `handleCrawl` with its partial writes. `Fetch`, `CommitRead` and `Put` are
`consumeFromKafka`: `ReadMessage` commits before it returns, `Put` skips URLs without a scheme and
waits for room in the channel. `Take` and `Crawl` are a worker. The gateway's writer spreads
messages over partitions; one partition is modelled, which is the one where order and the group's
hand-over matter. `CutShort` names the requests that were answered 202 although not all of their URLs
were written.

### Scorer
The loop of `consumer/main.py` step by step: `Poll`, `Check`, `Insert`, `SetCache`, `Send`.
`AutoCommit` is the client's background commit of what it handed out. `Fail` is the path through
`finally`, which closes the consumer and with it commits the failed message; `Kill` is a stop
without it. `Expire` ends a Redis key.

### Summariser
`mode` chooses what `CallAI` does: `Backoff` retries, `Record` fills the window, `Breaker` counts.
`Gate` is the check of an open breaker. `AgeResult` and `CoolDown` are the passing of ten and of
thirty seconds; the AI may fail any call.

### EventExtractor
`InsertPage` takes an id, `CommitPage` makes the row visible: these are two actions because the
consumer's transactions may commit out of id order. `Fetch`, `Scan`, `Post`, `EndTick` are `tick`
and its helpers. `Linkable` holds pairs of a goal and an indicator of the material, because
`find_goals_for_material` returns a row per link. `Link`, `Unlink` and `DeleteGoal` are the users'.

### SignIn
A request walks `Load`, `Consume`, `FindOrg`, `InsertOrg`, `FindUser`, `ChooseRole`, `InsertUser`,
`Commit`, `StoreSession`. Rows an open transaction has inserted are in `newOrg` and `newUser`; an
insert of the same key waits for them (READ COMMITTED with unique indexes) and fails if they were
committed. `known` is a history variable: whose user existed when the request began.

### Forecaster
`BeginTick`, `FetchSeries`, `FindLinkedGoals`, `WriteForecast`, `NextIndicator` and `EndTick` are
`tick` statement by statement (`forecaster/main.py`); indicators are taken in any order. An error
answer is logged and costs one link; a timeout, a lost connection, a database error or a restart ends
the tick, and `Sleep` is what all of these leave. A forecast is the number of readings it was fitted
to. `AddReading`, `Link`, `Unlink` and `DeleteGoal` go on meanwhile; `was` (the links that were
`primary` at some moment of the tick) and `told` (forecasts stored in it) are history variables.

### Copilot
Each message has a coroutine: `Send`, then `ModelCalls`, `CallTool` and `EndTurn` until `ModelEnds` or
`MaxTurns` (`anthropic_loop.py`), or one list of commands (`stub_loop.py`); `mode` says which. A tool
call ends in one of four ways: `Done`, `Raises`, `LateAnswer` (a timeout, carried out or not) and
`LostCommit` (the 200 over a failed commit, as in `Outbox`). `open` holds the tool_use ids that have no
tool_result yet, `history` those in the conversation the client holds and sends with its next message.
`ProxyTimeout` answers the client and leaves the coroutine running, so that the coroutine of the next
message runs beside it; `Crash` ends them all.

### Composer
`evalFormula` and `latestReadingByCode` call each other; the calls still to be made are `todo`, nodes
with their depth, and the operands computed so far are `values`. `LookupTenant`, `LookupCatalog` and
`ReadLatest` are the three statements of a lookup, and definitions and readings may change between
them. A tenant's indicator hides the catalog's of the same code, also when it has no formula, and then
has no readings. `Malformed` is JSON that is no formula: it is stored as it comes, and an error when it is
reached. All statements of a request are in one transaction: each is carried out (`Works`) or fails
(`Fails`), and after the first that fails PostgreSQL refuses the others (`tx`). `composer.go:113-115` and
`135-137` answer the error; so do `99-101`, like the absence of readings. `composer.go:78` drops it and
goes on as if the tenant had no such indicator: only because the catalog's lookup is refused then does the
client not get the catalog's number (mutant `WorksAlone`). An error of `BEGIN` or `SET ROLE`
(`tenant.go:94-113`) is answered as one too and is an error of the first statement here. `Overflow` is the recursion that outgrows the stack, which ends the Go process.
Numbers are exact fractions. `Formulas` is any set of formulas that has the operands of its members.
The reference, `Possible`, is the set of values a formula has over all readings and definitions of the
request (`sawReadings`, `sawDefs`), by recursion over formulas and definitions and with no stack; like
the code it has no value for the right operand of an operation whose left operand is an error.
`AnswerJustified` therefore holds every number to the reference, and an error to the reference or to a
statement that failed. `Cyclic` excuses only circles that the code asked for leads to.

## 3. What the runs check

| Run | Question | Bounds |
|---|---|---|
| `outbox` | Does the outbox keep its promise under two relays, an unacknowledged write, an oversized event and one failure? `NoPhantom`, `MarkedReachedTopic`, `DuplicatesBounded`, the refinement `ImplementsFeed`, `EventReachesTopic` | 3 requests, 2 gateways, batches of 2 |
| `workflow` | Is a committed event one that was run, and does a goal's briefing tell the truth, once, whoever repeats the saga? `CommittedRan`, `BriefingsHold`, `ClosedStaysClosed`, `EventuallyRan` | 2 instances, 2 events, 2 failures, 1 deletion, 1 link its user may make and may remove once |
| `workflow_once` | Is `workflow_runs` keyed by the event? It is not. | 1 failure |
| `crawler` | What may a failure lose or repeat on the way from a request to the page topic, and does the pool drain? `DeliveryBounded`, `EventuallyQuiet` | 2 instances, 1 worker each, channels of 2, 6 URLs, 1 failure |
| `scorer` | Same for the scorer, with its cache. `CachedIsStored`, `DeliveryBounded`, `EventuallyDrained` | 2 instances, 3 messages, one page twice, 2 failures |
| `summariser` | Does the breaker agree with the AI, is anything dropped in silence, does the loop go on? `BreakerTracksStreak`, `RowPerMessage`, `NeverStalls` | each mode, 4 messages, threshold 2, 2 retries, 1 failure |
| `summariser_pause` | Does a pause end? It does not. | 5 messages |
| `event_extractor` | Which pages may be skipped, which goals left untold, how often is one told? `OnlyLateSkipped`, `TellingBounded`, `EventuallyScanned` | 2 pages, 2 goals, 3 possible links, batches of 2, 1 failure |
| `sign_in` | Do concurrent first sign-ins make one owner, and who is turned away? `IdentityHolds`, `ConflictExcused`, `EveryRequestEnds` | 2 people of one organisation, 2 links, 3 requests, 1 failure |
| `forecaster` | Which links may a tick tell, from which readings, and does every link end with a current forecast? `ForecastGrounded`, `EventuallyCurrent` | 2 goals, 2 indicators, series of 1 to 4 readings with 2 needed, 2 failures |
| `copilot` | Is a conversation always complete, does an answer list what was done, is every message answered? `HistoryComplete`, `ToldIsDone`, `EveryMessageAnswered` | both modes, 2 messages, 2 turns of 1 or 2 calls, a tool that reads and one that writes, 2 failures |
| `composer` | Is the answer the value of the formula, and what can stop it? `AnswerJustified`, `EvaluationEnds` | 4 codes, 2 prices (0 and 2), 4 indicators a tenant may create, 10 calls on the stack, any statement may fail |

Every passing run also checks the `TypeOK` of its module. `DeliveryBounded`, `TellingBounded`,
`RowPerMessage`, `BriefingsHold` and `IdentityHolds` are conjunctions of two named parts, one for what
may be missing and one for what may be there too often or wrongly; both parts are in the module.

### Why these bounds
- Two instances are the fewest that race, and the code knows no role beyond "owner of the
  partition" and "not the owner", so a third repeats one of the two.
- The counting properties (`DuplicatesBounded`, `DeliveryBounded`, `TellingBounded`, `ToldIsDone`)
  grow with `faults`, so one failure more than the bound would have to break the bound per failure.
  The number of messages is above what one failure may cost, or the property could not fail. What one
  failure may cost is one page in the scorer and the extractor; in the crawler it is what an instance
  holds (channel, workers and the reader's hand) or the rest of one request, of any length.
- `MaxRetries = 2` and `FailureThreshold = 2` stand for 5 and 5: the code only compares with them, and
  2 is the smallest value at which "not yet" and "reached" are both more than one step from the start.
- `Limit = 2` with three outbox rows reaches full and short batches. The extractor has two pages, so
  that its batch is never cut by the limit; three pages are more than a run of some minutes holds.
- Two goals that may link one indicator, and one that nobody links, are the fewest for which a failure
  at one link can hurt another; series grow from too short over just enough to twice that.
- Two turns are the smallest "not the last" and "the last", two calls the smallest turn in which one
  call fails and another does not. With two messages the second can meet the coroutine of the first.
- The formula of `ratio` refers to one that refers to readings, so definitions nest; its divisor is zero for
  one of the prices. Without a circle its deepest evaluation has fewer than ten calls, so `Overflow`
  in the model is always a circle, as it is in the program with its much larger stack.
- Deadlock checking is off: requests, messages and faults are finite, so every model stops in the end.
  What must not stop is a liveness property.

### Fairness
Weak fairness is assumed only of what the code or the deployment drives: tickers and loops (`Relay`,
`Tick`, `Loop`, `Work`), goroutines (`Reader`, `Worker`), passing time, a request's goroutine (`Evaluate`) or coroutine (`Run(m)`), whose awaits all
have timeouts, and, where a task is replaced by its orchestrator, `Recover`. No fairness makes a call succeed, a user act, or an operator restart
the workflow service; `EventuallyRan` therefore excuses an instance whose connection is broken.
Faults are finite, which is the usual premise of "eventually": what is shown is progress after the last one.
In the forecaster a failed fit (`forecaster/main.py:150-154`) is a fault too: `EventuallyCurrent` says nothing of
a series that can never be fitted.

## 4. Where the code and its comments disagree

Two disagreements have a run that shows them:

- `gateway/outbox.go:35-36` says consumers are idempotent since `workflow_runs` is keyed by the event.
  It is not (`workflow/saga.py:222`, `0010_outbox_workflow.up.sql:28-42`), as `workflow/main.py:11-14`
  itself says: run `workflow_once`. What does hold is `BriefingsHold`.
- `summariser/resilience.py:46-47` says consumption resumes when the error rate drops. While paused
  nothing trims the window, so the rate does not change: run `summariser_pause`.

Four more are part of the models, which follow the code:

- `workflow/main.py:86` says an uncommitted message will be redelivered. The consumer's position has
  moved on, and the next commit covers it; hence the shape of `CommittedRan` and `EventuallyRan`.
- `event-extractor/main.py:85` says the query returns (org, goal) pairs. It returns one per link, so a
  goal with spot and spread linked gets each event twice: `TellingBounded` counts links.
- `gateway/auth.go:39,109` and `migrations/0001_init_orgs_users.up.sql:24` call a link single-use. The
  token is looked up and marked by two statements with nothing between them and the mark's error is
  only logged, so requests that follow one link at once are all served: in `SignIn` several requests may
  carry one `link`. The properties of `SignIn` hold regardless, and none claims that a link works once.
- `gateway/v2_catalog.go:436` names a precedence of tenant indicator, override, catalog.
  `composer.go:74-139` never reads `tenant_indicator_override`: `Composer` has two layers.

`migrations/0010_outbox_workflow.up.sql:5-7` promises that a committed event will reach Kafka. Without
acknowledgements, and with a drain that stops at an event too large to be written, that has exceptions;
`EventReachesTopic` says exactly which.

## 5. What is proved

Each `...Proofs` module proves its component's properties for every value of the constants, from the
component's one named assumption alone; `PROJECT.json` lists the theorems. Types and an inductive
invariant come first, alone or together, and the properties follow. The invariants are at the end of
the component's module and were checked by TLC on the instance of its run before they were proved.
The assumptions say that constants have their types, that sets which are counted are finite, that
bounds are numbers and that batch sizes, turns and thresholds are positive; `ForecasterAssumption`
also lets a series grow to the length a forecast needs, and `ComposerAssumption` says which nodes a
formula is made of. `PipelineProofs` and `IndicatorProofs` hold the theorems of two components each.
The second component is an instance there, `C == INSTANCE Crawler` and `F == INSTANCE Forecaster`,
whose theorems have its assumption as a hypothesis (`C!Parameters`, `F!Parameters`). Variables that
have one name in both are declared once; no theorem speaks of both specifications.

| Module | Assumption | Theorems about properties |
|---|---|---|
| `OutboxProofs` | `OutboxAssumption` | `TypeOK`, `NoPhantom`, `MarkedReachedTopic`, `DuplicatesBounded`, `ImplementsFeed` |
| `WorkflowProofs` | `WorkflowAssumption` | `TypeOK`, `ClosedStaysClosed`, `CommittedRan`, `BriefingsHold` |
| `PipelineProofs` | `ScorerAssumption` | `TypeOK`, `CachedIsStored`, `DeliveryBounded` |
| | `CrawlerAssumption` | `C!TypeOK`, `C!DeliveryBounded` |
| `SummariserProofs` | `SummariserAssumption` | `TypeOK`, `BreakerTracksStreak`, `RowPerMessage` |
| `EventExtractorProofs` | `EventExtractorAssumption` | `TypeOK`, `OnlyLateSkipped`, `TellingBounded` |
| `SignInProofs` | `SignInAssumption` | `TypeOK`, `IdentityHolds`, `ConflictExcused` |
| `IndicatorProofs` | `ComposerAssumption` | `TypeOK`, `AnswerJustified` |
| | `ForecasterAssumption` | `F!TypeOK`, `F!ForecastGrounded` |
| `CopilotProofs` | `CopilotAssumption` | `TypeOK`, `HistoryComplete`, `ToldIsDone` |

The arguments, and why the properties are not inductive as they stand:

- Outbox. That a copied event has a committed goal follows only if the relay's batch held committed
  rows (`batch[g] \subseteq outbox`) and a committed request is finished and was not told of a failure.
  `MarkedReachedTopic` needs that the row about to be marked is the one that was written; the code
  finds it again as the first of its batch, and there is one first only if ids are distinct, which is
  why `RequestInv` carries the uniqueness of event ids. `DuplicatesBounded` counts copies together with
  the relays that may still send one. For the refinement, `CommitTx` is `Store`, `Write` is `Deliver`
  or a stutter, `Mark` is `Settle` or a stutter, and everything else changes nothing the feed sees;
  `Settle`'s guard is the last conjunct of `RelayInv`.
- Workflow. `RunInv` ties a saga to its row: no two sagas have one row, and a saga whose row is closed
  has only the offset left to commit; `ClosedStaysClosed` follows. `CommittedRan` speaks of the group's
  offset, which any instance may move over all earlier events at once; `OffsetInv` adds that whoever
  may commit has a connection that never failed it, so that everything before its position was run.
  For `BriefingsHold`, `CitedInv` counts for a goal and an indicator the briefings that cite it, the
  sagas about to, and whether it is free to be linked: a link is refused to all but one of the sagas
  that race for it, and each removal by the user frees it once more. `LinkedInv` bounds what sagas believe
  linked and is not, apart from removed links, by the commits the gateway lost.
- Scorer. The cache may outlive every instance; `CacheInv` says what is about to be cached is stored
  already. A loss shows only when its page is read again, so `LossInv` counts `Missed`, the pages that
  may still end up lost, and `ForwardInv` counts the forwards of a message with its holders and
  whether it is to be handed out again.
- Crawler. For repetitions, `CopiesInv` counts with the publications of a message its `Copies`, which
  may be in a reader's hand, in channels and with workers of several instances at once, and whether it
  is to be handed out again. For losses, a message that is only in one instance's memory is lost when
  that instance stops, so `RiskInv` counts before the failure: `AtRisk(top)` are the messages up to
  `top` that are neither served nor `Safe` with whoever may still publish them, and `top` is a position
  that the committed offset and every reader are at or behind. A stop puts at risk what was in the
  memory of one instance, which `Holds` bounds.
- Summariser. `CountInv` gives a closed breaker room for one more failure; the rest of
  `BreakerTracksStreak` is inductive with it. `RowsInv` gives a message a row less while it is ahead of
  the position or in hand; that a row goes to the message read last needs `HandInv`, and a crash
  drops that one message. `WindowInv` is why `Record` may cut the window at one place: results
  leave in the order they came.
- EventExtractor. `GapInv` closes the gap between the reader and the end of its batch: what is visible
  there is scanned, late or in the batch. It rests on `IdsInv` and `BatchInv`, ids drawn once and pages
  in their order. `EventsInv` counts insights with those still due from the page being told;
  `UntoldBounded` holds since a failure gives up the goals of the one page in hand.
- SignIn. What a transaction will commit was decided by statements that saw an earlier state.
  `LocksInv` and `RequestOK` say what its inserts, which hold the unique keys, rule out for everyone
  else: a request that brings an organisation brings its owner, and all others find it.
- Forecaster. The links a statement returned may be gone, and readings may have been added, when a
  forecast is stored; `WasInv` keeps the links that were there during the tick, `TurnInv` the links
  whose turn is still to come, `BasedInv` the order of forecasts and readings.
- Composer. Nothing in the state says what formula the operands in hand belong to. `JustInv` says it
  for every assignment `V` of values to formulas that is `Closed` under the rules of the reference:
  `stacks[i]` are operand stacks with which the work after step `i` may begin, such that any value that
  `V` gives the node of step `i` leads from `stacks[i - 1]` to `stacks[i]`, and only answers that `V`
  gives the code asked for are left at the end; `fuel[i]` is how many definitions deep `V` may be
  consulted there. Because all assignments are meant, what is added to `sawReadings` and `sawDefs`
  during a request needs no argument of its own: it only leaves fewer of them closed. The steps of an
  operation put two stacks before the others (`PushOp`), all other steps keep or drop the first. In
  the end `V` is `Possible`. That this recursive function exists at all is shown from the least depth at
  which it would not (`PossibleExists`), without an induction over formulas. TLC checked `JustInv` on
  the run `composer` for `V = Possible`, with the stacks computed forwards. All this is claimed while no
  statement has failed; `AbortedInv` says that the one way to go on after a failed one is to the
  catalog's lookup, so no number can come of what is left then (`DroppedErrorStep`).
- Copilot. `HistoryInv` allows open calls to a turn that is under way alone. `FaultInv` counts the wrong uses of
  messages that are not answered yet together with the messages refused. When one of those is refused,
  its wrong uses are replaced by itself, which is safe because a message is refused by a fault of its
  own; `OrderInv` shows that one message at most waits for an answer.

Three proofs did not go through at first because the model was wrong, and it was corrected:

- `LossBounded` of `Crawler` charged every failure with what one instance holds. A failed write behind a
  202 may drop all of a request, of any length, which the instance of the run was too small to show.
  `CutShort` accounts for it.
- The reference of `Composer` asked the right operand for a value even when the left one is an error.
  The code does not, which matters when the right one only ends in a circle.
- Formulas that cannot be parsed had no action: the type of a node left over what the code answers.

Two forms in the modules serve the provers and mean the same as the more obvious ones: `Record` says
that the old results are a prefix of the window and keeps the rest by `SubSeq` (a filter by
`SelectSeq` is defined by recursion over the sequence), and `ToldIsDone` names the sets `Served` and
`Refused`.

Only model-checked:

- Every liveness property (`Eventually...`, `EventReachesTopic`, `NeverStalls`, `EveryRequestEnds`,
  `EveryMessageAnswered`, `EvaluationEnds`), and the two runs that expect a violation: fairness and
  ENABLED are beyond the prover.

Every safety property and action property that a run checks has its theorem.

## 6. Not modelled

- `GET /api/results` and its 30 s cache: the answer is stale by design, by wall-clock time only. The
  other lists and detail views are reads without state.
- Signal aspects, overrides and private products: single upserts in a tenant transaction that no
  other statement of the program depends on. Acknowledging an insight is one as well.
- The row filters of row-level security (every statement of a tenant carries them) and the locale.
- The producer's standalone mode, which crawls a list of seeds once and ends.
- `UPDATE users SET last_login_at` of a known user who signs in (`auth.go:262`). A second sign-in of that
  user waits for its row lock, whose holder goes straight to its commit and waits for nobody; its
  error is ignored and makes the commit fail, which is the `Break` of a request about to commit.
- A page that is crawled again and upserted (`consumer/db.py:62-69`) after the extractor read it. It keeps
  its id, which is behind `since`, so the extractor does not see the new version; this is not a
  page, so `OnlyLateSkipped` and `EventuallyScanned` speak of first versions.
- A message that is no JSON, which the summariser skips without a row (`summariser/consumer.py:31-33`):
  the only writer of its topic, the scorer, writes JSON (`consumer/consumer.py:36`).
- Materials and indicators that users enable or create while a saga runs. They can only make the
  gateway refuse a `create`, which the saga takes like any refused call.
- What numbers come out: scores, forecasts and prices enter as far as a decision depends on them.
  The rounding, overflow and infinities of float64 in the composer are left out.
- Running the migrations, wiring the containers, and `scripts/`: one-shot measurements and report
  generators that run beside the system and keep nothing it reads.

## 7. Plan

Order of work, the most important behaviour first:

1. Done: `Outbox` with `EventFeed` and its proofs; `Workflow`, `Scorer`, `Summariser`, `Crawler`,
   `EventExtractor`, `SignIn`; then `Composer`, `Forecaster` and `Copilot`.
2. Done: the proofs of section 5, for every safety property the runs check.
3. Open: `Autopilot`, the composition of `Outbox` and `Workflow` in which the topic is what the relays
   wrote. `Workflow` takes its topic as a constant, any sequence of goals; the composition would
   add the path from a client's 200 to a run.

--------------------------- MODULE EventExtractor ---------------------------
(***************************************************************************)
(* The event extractor: one process polls `pages' past the last id it has   *)
(* seen.  For a page that mentions a supply event it looks up the goals that *)
(* have an indicator of the page's material linked - one row per link, so a *)
(* goal with a spot and a spread indicator comes twice - and posts an event *)
(* insight for each row.                                                   *)
(*                                                                         *)
(* Ids come from a sequence when a row is inserted and rows appear when     *)
(* their transaction commits, so they may appear out of order.  The last id *)
(* is kept in memory only.                                                 *)
(***************************************************************************)
EXTENDS Naturals, Sequences, FiniteSets

CONSTANTS
    Urls,       \* pages the consumer service stores
    Mentions,   \* those whose text mentions a supply event
    Linkable,   \* <<goal, indicator of the pages' material>> users may link
    Limit,      \* rows of a batch (200 in the code)
    MaxFaults   \* bound on errors and restarts

Goals == {l[1] : l \in Linkable}

ASSUME EventExtractorAssumption ==
    /\ IsFiniteSet(Linkable)
    /\ Limit \in Nat \ {0} /\ MaxFaults \in Nat
    /\ IsFiniteSet(Urls) /\ Mentions \subseteq Urls

VARIABLES
    nextId, id,   \* the sequence, and the id each page has drawn (0: none)
    visible,      \* pages whose row is committed
    goals, links, \* goals that exist; goal_indicator_links of the material
    pc, since, batch, todo,  \* the process: pages left, link rows left
    insights,     \* event insights citing a page, per goal
    faults,
    scanned,      \* history: pages that were looked at
    late,         \* history: pages that appeared behind the reader
    owed          \* history: <<page, goal>> the extractor set out to tell

vars == <<nextId, id, visible, goals, links, pc, since, batch, todo, insights,
          faults, scanned, late, owed>>
pageVars == <<nextId, id, visible, late>>
goalVars == <<goals, links>>
processVars == <<pc, since, batch, todo>>
historyVars == <<scanned, owed>>

Fault == faults < MaxFaults /\ faults' = faults + 1
-----------------------------------------------------------------------------
Init ==
    /\ nextId = 1 /\ id = [u \in Urls |-> 0]
    /\ visible = {}
    /\ goals = Goals /\ links = {}
    /\ pc = "sleep" /\ since = 0 /\ batch = <<>> /\ todo = {}
    /\ insights = [u \in Urls |-> [g \in Goals |-> 0]]
    /\ faults = 0 /\ scanned = {} /\ late = {} /\ owed = {}

\* An instance of the consumer service inserts a page: it draws an id.
InsertPage(u) ==
    /\ id[u] = 0
    /\ id' = [id EXCEPT ![u] = nextId] /\ nextId' = nextId + 1
    /\ UNCHANGED <<visible, late, insights, faults>> /\ UNCHANGED goalVars
    /\ UNCHANGED processVars /\ UNCHANGED historyVars

\* Its transaction commits.  The reader is past it when it has read, or holds in
\* its batch, a higher id.
Reached == IF batch = <<>> THEN since ELSE id[batch[Len(batch)]]
CommitPage(u) ==
    /\ id[u] # 0 /\ u \notin visible
    /\ visible' = visible \cup {u}
    /\ late' = IF id[u] <= Reached THEN late \cup {u} ELSE late
    /\ UNCHANGED <<nextId, id, insights, faults>> /\ UNCHANGED goalVars
    /\ UNCHANGED processVars /\ UNCHANGED historyVars

\* Users link indicators to goals and unlink them, and delete goals; a link goes
\* with its goal.
Link(l) ==
    /\ l[1] \in goals /\ l \notin links
    /\ links' = links \cup {l}
    /\ UNCHANGED <<goals, insights, faults>>
    /\ UNCHANGED pageVars /\ UNCHANGED processVars /\ UNCHANGED historyVars

Unlink(l) ==
    /\ l \in links
    /\ links' = links \ {l}
    /\ UNCHANGED <<goals, insights, faults>>
    /\ UNCHANGED pageVars /\ UNCHANGED processVars /\ UNCHANGED historyVars

DeleteGoal(g) ==
    /\ g \in goals
    /\ goals' = goals \ {g}
    /\ links' = {l \in links : l[1] # g}
    /\ UNCHANGED <<insights, faults>>
    /\ UNCHANGED pageVars /\ UNCHANGED processVars /\ UNCHANGED historyVars

\* Rows not seen yet.
Newer == {u \in visible : id[u] > since}

\* Mutant: no ORDER BY.
IsBatchUnordered(s) ==
    /\ \A i, j \in DOMAIN s : i # j => s[i] # s[j]
    /\ Len(s) < Limit => \A u \in Newer : \E i \in DOMAIN s : s[i] = u

\* What the query returns: the rows not seen yet, Limit of them at most, lowest
\* ids first.
IsBatch(s) ==
    /\ \A i \in DOMAIN s : s[i] \in Newer
    /\ \A i, j \in DOMAIN s : i < j => id[s[i]] < id[s[j]]
    /\ \A u \in Newer : (\A i \in DOMAIN s : s[i] # u) =>
           Len(s) = Limit /\ \A i \in DOMAIN s : id[s[i]] < id[u]
Batches == UNION {[1 .. n -> Newer] : n \in 0 .. Limit}

\* Mutant: the last page seen is selected again.
FetchFrom ==
    /\ pc = "sleep"
    /\ \E u \in visible :
          /\ id[u] >= since /\ \A v \in visible : id[v] >= since => id[u] <= id[v]
          /\ batch' = <<u>>
    /\ pc' = "scan"
    /\ UNCHANGED <<since, todo, insights, faults>>
    /\ UNCHANGED pageVars /\ UNCHANGED goalVars /\ UNCHANGED historyVars

\* Mutant: the whole batch counts as seen once it is fetched.
FetchAdvances ==
    /\ pc = "sleep" /\ Newer # {}
    /\ \E s \in Batches : IsBatch(s) /\ batch' = s /\ since' = id[s[Len(s)]]
    /\ pc' = "scan"
    /\ UNCHANGED <<todo, insights, faults>>
    /\ UNCHANGED pageVars /\ UNCHANGED goalVars /\ UNCHANGED historyVars

\* A tick begins: fetch_new_pages.
Fetch ==
    /\ pc = "sleep" /\ Newer # {}
    /\ \E s \in Batches : IsBatch(s) /\ batch' = s
    /\ pc' = "scan"
    /\ UNCHANGED <<since, todo, insights, faults>>
    /\ UNCHANGED pageVars /\ UNCHANGED goalVars /\ UNCHANGED historyVars

\* The next row of the batch counts as seen and is classified; if it mentions an
\* event, the links to its material are looked up.
Larger(a, b) == IF a > b THEN a ELSE b
Scan ==
    /\ pc = "scan" /\ batch # <<>>
    /\ LET u == Head(batch)
           told == IF u \in Mentions THEN links ELSE {}
       IN  /\ since' = Larger(since, id[u])
           /\ todo' = told
           /\ pc' = IF told = {} THEN "scan" ELSE "post"
           /\ batch' = IF told = {} THEN Tail(batch) ELSE batch
           /\ scanned' = scanned \cup {u}
           /\ owed' = owed \cup {<<u, l[1]>> : l \in told}
    /\ UNCHANGED <<insights, faults>> /\ UNCHANGED pageVars /\ UNCHANGED goalVars

EndTick ==
    /\ pc = "scan" /\ batch = <<>> /\ pc' = "sleep"
    /\ UNCHANGED <<since, batch, todo, insights, faults>>
    /\ UNCHANGED pageVars /\ UNCHANGED goalVars /\ UNCHANGED historyVars

\* Mutant: the last row does not end the page.
ToldKeepsPosting(l) ==
    todo' = todo \ {l} /\ UNCHANGED <<pc, batch, since>>

\* The next row, or the next page after the last row.
Told(l) ==
    /\ todo' = todo \ {l}
    /\ IF todo = {l} THEN pc' = "scan" /\ batch' = Tail(batch)
                     ELSE UNCHANGED <<pc, batch>>
    /\ UNCHANGED since
GiveUp == pc' = "sleep" /\ batch' = <<>> /\ todo' = {} /\ UNCHANGED since
Write(l) == insights' = [insights EXCEPT ![Head(batch)][l[1]] = @ + 1]

\* Mutant: an error answer ends the page.
PostErrorEndsPage(l) ==
    /\ pc = "post" /\ l \in todo
    /\ IF l[1] \notin goals
       THEN /\ todo' = {} /\ pc' = "scan" /\ batch' = Tail(batch)
            /\ UNCHANGED <<since, insights>>
       ELSE Write(l) /\ Told(l)
    /\ UNCHANGED faults
    /\ UNCHANGED pageVars /\ UNCHANGED goalVars /\ UNCHANGED historyVars

\* write_event: POST /api/v2/insights.  An error answer, such as that for a goal
\* deleted meanwhile, is logged, and a 200 may hide a failed commit; a timeout or
\* a broken connection ends the tick, whether or not the insight was stored.
Post(l) ==
    /\ pc = "post" /\ l \in todo
    /\ \/ /\ IF l[1] \in goals THEN Write(l) ELSE UNCHANGED insights
          /\ Told(l) /\ UNCHANGED faults
       \/ Fault /\ Told(l) /\ UNCHANGED insights
       \/ /\ Fault /\ GiveUp
          /\ (l[1] \in goals /\ Write(l)) \/ UNCHANGED insights
    /\ UNCHANGED pageVars /\ UNCHANGED goalVars /\ UNCHANGED historyVars

\* A database error while links are looked up ends the tick: the page in hand
\* has been counted as seen.
LookupFails ==
    /\ pc = "scan" /\ batch # <<>> /\ Head(batch) \in Mentions /\ Fault
    /\ pc' = "sleep" /\ batch' = <<>>
    /\ since' = Larger(since, id[Head(batch)])
    /\ scanned' = scanned \cup {Head(batch)}
    /\ owed' = owed \cup {<<Head(batch), l[1]>> : l \in links}
    /\ UNCHANGED <<todo, insights>> /\ UNCHANGED pageVars /\ UNCHANGED goalVars

\* The process is replaced and starts again from the first page.
Restart ==
    /\ Fault
    /\ pc' = "sleep" /\ since' = 0 /\ batch' = <<>> /\ todo' = {}
    /\ UNCHANGED insights
    /\ UNCHANGED pageVars /\ UNCHANGED goalVars /\ UNCHANGED historyVars
-----------------------------------------------------------------------------
Tick == Fetch \/ Scan \/ EndTick \/ \E l \in Linkable : Post(l)
Next == \/ Tick \/ LookupFails \/ Restart
        \/ \E u \in Urls : InsertPage(u) \/ CommitPage(u)
        \/ \E l \in Linkable : Link(l) \/ Unlink(l)
        \/ \E g \in Goals : DeleteGoal(g)

Spec == Init /\ [][Next]_vars

\* The loop runs for ever.
FairSpec == Spec /\ WF_vars(Tick)
-----------------------------------------------------------------------------
(* What the extractor must guarantee. *)

\* Every variable has its type.
TypeOK ==
    /\ nextId \in 1 .. (Cardinality(Urls) + 1)
    /\ id \in [Urls -> 0 .. (nextId - 1)]
    /\ visible \subseteq Urls
    /\ goals \subseteq Goals
    /\ links \subseteq {l \in Linkable : l[1] \in goals}
    /\ pc \in {"sleep", "scan", "post"}
    /\ since \in 0 .. (nextId - 1)
    /\ batch \in Seq(Urls) /\ Len(batch) <= Limit
    /\ todo \subseteq Linkable /\ (pc = "post" <=> todo # {})
    /\ insights \in [Urls -> [Goals -> Nat]]
    /\ faults \in 0 .. MaxFaults
    /\ scanned \subseteq visible /\ late \subseteq visible
    /\ owed \subseteq Urls \X Goals

\* The reader passes over a page only if it appeared behind the reader.
OnlyLateSkipped == \A u \in visible : id[u] <= since => u \in scanned \cup late

\* Every goal a page was owed to gets its insight, is being told or is gone; a
\* failure leaves out the goals of one page at most.
BeingTold(u) == IF pc = "post" /\ Head(batch) = u THEN {l[1] : l \in todo} ELSE {}
Untold == {o \in owed : /\ insights[o[1]][o[2]] = 0
                        /\ o[2] \in goals \ BeingTold(o[1])}
UntoldBounded == Cardinality(Untold) <= faults * Cardinality(Goals)

\* A goal hears of a page once for each of its links, and as often again for
\* each restart at most.
EventsBounded ==
    \A u \in Urls, g \in Goals :
        insights[u][g] <= (1 + faults) * Cardinality({l \in Linkable : l[1] = g})

\* Goals hear of a page neither less nor more often than links, failures and
\* restarts explain.
TellingBounded == UntoldBounded /\ EventsBounded

\* A page that appears ahead of the reader is looked at in the end.
EventuallyScanned == \A u \in Urls : u \in visible ~> u \in scanned \cup late

-----------------------------------------------------------------------------
(* The inductive invariant behind OnlyLateSkipped and TellingBounded. *)

\* Ids are drawn one after the other, each once, and before the page appears.
Drawn == {u \in Urls : id[u] # 0}
IdsInv ==
    /\ Cardinality(Drawn) = nextId - 1
    /\ \A u, v \in Drawn : id[u] = id[v] => u = v
    /\ visible \subseteq Drawn

\* The batch holds pages in the order of their ids, all but the one that is being
\* told ahead of the reader.
BatchInv ==
    /\ pc = "sleep" => batch = <<>>
    /\ pc = "post" => batch # <<>> /\ Head(batch) \in scanned /\ id[Head(batch)] = since
    /\ \A i \in DOMAIN batch :
          /\ batch[i] \in visible
          /\ id[batch[i]] > since \/ (pc = "post" /\ i = 1)
    /\ \A i, j \in DOMAIN batch : i < j => id[batch[i]] < id[batch[j]]

\* No page is missing between the reader and the end of its batch, unless it
\* appeared late.
GapInv == \A u \in visible : id[u] <= Reached =>
              u \in scanned \cup late \/ \E i \in DOMAIN batch : batch[i] = u

\* A page is told once per run of the process in which the reader has reached it.
RowsOf(S, g) == {l \in S : l[1] = g}
Runs(u) == IF id[u] = 0 \/ id[u] > since THEN faults ELSE 1 + faults
Due(u, g) == IF pc = "post" /\ Head(batch) = u THEN Cardinality(RowsOf(todo, g)) ELSE 0
EventsInv == \A u \in Urls, g \in Goals :
    insights[u][g] + Due(u, g) <= Runs(u) * Cardinality(RowsOf(Linkable, g))

PagesInv == TypeOK /\ IdsInv /\ BatchInv
IInv == PagesInv /\ GapInv /\ EventsInv /\ UntoldBounded
=============================================================================

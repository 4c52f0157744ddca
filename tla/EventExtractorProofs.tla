------------------------ MODULE EventExtractorProofs ------------------------
(***************************************************************************)
(* Proofs about EventExtractor for any pages, goals and links, any size of  *)
(* a batch and any bound on failures.                                       *)
(***************************************************************************)
EXTENDS EventExtractor, FiniteSetTheorems, TLAPS

-----------------------------------------------------------------------------
\* The rows of a batch that is not empty, and those after the first.
LEMMA BatchRows ==
    ASSUME NEW S, NEW s \in Seq(S), s # <<>>
    PROVE  /\ Len(s) \in Nat \ {0} /\ DOMAIN s = 1 .. Len(s)
           /\ Head(s) = s[1] /\ s[1] \in S /\ s[Len(s)] \in S
           /\ Tail(s) \in Seq(S) /\ Len(Tail(s)) = Len(s) - 1
           /\ DOMAIN Tail(s) = 1 .. (Len(s) - 1)
           /\ \A i \in 1 .. (Len(s) - 1) : Tail(s)[i] = s[i + 1]
OBVIOUS

\* A batch that a query returns.
LEMMA BatchesAreSequences ==
    ASSUME NEW s \in Batches
    PROVE  /\ s \in Seq(Newer) /\ Len(s) <= Limit
           /\ Len(s) \in Nat /\ DOMAIN s = 1 .. Len(s)
<1>1. PICK n \in 0 .. Limit : s \in [1 .. n -> Newer]
  BY DEF Batches
<1>2. n \in Nat /\ n <= Limit
  BY <1>1, EventExtractorAssumption DEF EventExtractorAssumption
<1>3. s \in Seq(Newer) /\ Len(s) = n /\ DOMAIN s = 1 .. n
  BY <1>1, <1>2
<1> QED BY <1>2, <1>3

LEMMA LinksHaveGoals == \A l \in Linkable : l[1] \in Goals
BY DEF Goals

\* Ids are numbers, and a page that has drawn one keeps below the next.
LEMMA IdsAreNumbers ==
    ASSUME TypeOK
    PROVE  /\ nextId \in Nat \ {0} /\ since \in Nat /\ since < nextId
           /\ \A u \in Urls : id[u] \in Nat /\ id[u] < nextId
           /\ Cardinality(Urls) \in Nat
<1>1. Cardinality(Urls) \in Nat
  BY FS_CardinalityType, EventExtractorAssumption DEF EventExtractorAssumption
<1>2. nextId \in 1 .. (Cardinality(Urls) + 1)
  BY DEF TypeOK
<1>3. nextId \in Nat /\ nextId > 0
  BY <1>1, <1>2
<1> QED BY <1>1, <1>3 DEF TypeOK

-----------------------------------------------------------------------------
\* Users change goals and links only.
LEMMA UsersKeepPages ==
    ASSUME PagesInv,
           \/ \E l \in Linkable : Link(l) \/ Unlink(l)
           \/ \E g \in Goals : DeleteGoal(g)
    PROVE  PagesInv'
<1>1. UNCHANGED <<pageVars, processVars, historyVars, insights, faults>>
  BY DEF Link, Unlink, DeleteGoal
<1>2. goals' \subseteq Goals /\ links' \subseteq {l \in Linkable : l[1] \in goals'}
  <2>1. goals \subseteq Goals /\ links \subseteq {l \in Linkable : l[1] \in goals}
    BY DEF PagesInv, TypeOK
  <2>2. ASSUME NEW l \in Linkable, Link(l) \/ Unlink(l)
        PROVE  /\ goals' \subseteq Goals
               /\ links' \subseteq {m \in Linkable : m[1] \in goals'}
    BY <2>1, <2>2 DEF Link, Unlink
  <2>3. ASSUME NEW g \in Goals, DeleteGoal(g)
        PROVE  /\ goals' \subseteq Goals
               /\ links' \subseteq {m \in Linkable : m[1] \in goals'}
    BY <2>1, <2>3 DEF DeleteGoal
  <2> QED BY <2>2, <2>3
<1> QED BY <1>1, <1>2
        DEF PagesInv, TypeOK, IdsInv, Drawn, BatchInv, pageVars, processVars, historyVars

\* A page draws an id: the sequence is as long as the pages that have drawn.
LEMMA InsertKeepsPages ==
    ASSUME PagesInv, NEW u \in Urls, InsertPage(u)
    PROVE  PagesInv'
<1> USE IdsAreNumbers DEF PagesInv
<1>1. /\ id' = [id EXCEPT ![u] = nextId] /\ nextId' = nextId + 1 /\ id[u] = 0
      /\ UNCHANGED <<visible, late, insights, faults, goals, links, pc, since, batch,
                     todo, scanned, owed>>
  BY DEF InsertPage, goalVars, processVars, historyVars
<1>2. \A v \in Urls : id'[v] = IF v = u THEN nextId ELSE id[v]
  BY <1>1 DEF TypeOK
<1>3. Drawn' = Drawn \cup {u} /\ u \notin Drawn /\ Drawn \subseteq Urls
  BY <1>1, <1>2 DEF Drawn
<1>4. IsFiniteSet(Drawn) /\ IsFiniteSet(Drawn') /\ Cardinality(Drawn') <= Cardinality(Urls)
  BY <1>3, FS_Subset, EventExtractorAssumption DEF EventExtractorAssumption
<1>5. Cardinality(Drawn') = nextId
  <2>1. Cardinality(Drawn \cup {u})
          = IF u \in Drawn THEN Cardinality(Drawn) ELSE Cardinality(Drawn) + 1
    BY <1>4, FS_AddElement
  <2> QED BY <1>3, <2>1 DEF IdsInv
<1>6. TypeOK'
  <2>1. nextId' \in 1 .. (Cardinality(Urls) + 1)
    BY <1>1, <1>4, <1>5
  <2>2. id' \in [Urls -> 0 .. (nextId' - 1)]
    BY <1>1, <1>2 DEF TypeOK
  <2>3. since' \in 0 .. (nextId' - 1)
    BY <1>1
  <2> QED BY <1>1, <2>1, <2>2, <2>3 DEF TypeOK
<1>7. IdsInv'
  <2>1. \A v, w \in Drawn' : id'[v] = id'[w] => v = w
    BY <1>2, <1>3 DEF IdsInv
  <2> QED BY <1>1, <1>3, <1>5, <2>1 DEF IdsInv
<1>8. \A v \in visible : id'[v] = id[v]
  BY <1>2, <1>3 DEF IdsInv, TypeOK
<1>9. BatchInv'
  <2>1. pc = "post" => batch[1] = Head(batch) /\ batch[1] \in visible
    BY BatchRows DEF BatchInv, TypeOK
  <2>2. \A i \in DOMAIN batch : batch[i] \in visible
    BY DEF BatchInv
  <2> QED BY <1>1, <1>8, <2>1, <2>2 DEF BatchInv
<1> QED BY <1>6, <1>7, <1>9

\* A page appears.
LEMMA CommitKeepsPages ==
    ASSUME PagesInv, NEW u \in Urls, CommitPage(u)
    PROVE  PagesInv'
<1> USE IdsAreNumbers DEF PagesInv
<1>1. /\ visible' = visible \cup {u} /\ late' \subseteq late \cup {u} /\ id[u] # 0
      /\ UNCHANGED <<nextId, id, insights, faults, goals, links, pc, since, batch,
                     todo, scanned, owed>>
  BY DEF CommitPage, goalVars, processVars, historyVars
<1>2. TypeOK'
  BY <1>1 DEF TypeOK
<1>3. IdsInv'
  BY <1>1 DEF IdsInv, Drawn
<1>4. BatchInv'
  BY <1>1 DEF BatchInv
<1> QED BY <1>2, <1>3, <1>4

\* A batch is fetched: rows not seen yet, in order.
LEMMA FetchKeepsPages ==
    ASSUME PagesInv, Fetch
    PROVE  PagesInv'
<1> USE IdsAreNumbers DEF PagesInv
<1>1. PICK s \in Batches : IsBatch(s) /\ batch' = s
  BY DEF Fetch
<1>2. /\ pc' = "scan" /\ pc = "sleep"
      /\ UNCHANGED <<nextId, id, visible, late, insights, faults, goals, links, since,
                     todo, scanned, owed>>
  BY DEF Fetch, pageVars, goalVars, historyVars
<1>3. s \in Seq(Newer) /\ Len(s) <= Limit
  BY BatchesAreSequences
<1>4. Newer \subseteq visible /\ visible \subseteq Urls /\ s \in Seq(Urls)
  BY <1>3 DEF Newer, TypeOK
<1>5. TypeOK'
  BY <1>1, <1>2, <1>3, <1>4 DEF TypeOK
<1>6. BatchInv'
  <2>1. \A i \in DOMAIN s : s[i] \in visible /\ id[s[i]] > since
    BY <1>1 DEF IsBatch, Newer
  <2>2. \A i, j \in DOMAIN s : i < j => id[s[i]] < id[s[j]]
    BY <1>1 DEF IsBatch
  <2> QED BY <1>1, <1>2, <2>1, <2>2 DEF BatchInv
<1> QED BY <1>2, <1>5, <1>6 DEF IdsInv, Drawn

\* The reader passes over the first row of its batch: the rows after it are ahead.
LEMMA FirstRow ==
    ASSUME PagesInv, batch # <<>>
    PROVE  /\ Head(batch) \in visible /\ Head(batch) \in Urls /\ Head(batch) = batch[1]
           /\ Larger(since, id[Head(batch)]) = id[Head(batch)]
           /\ \A i \in DOMAIN batch : i # 1 => id[batch[i]] > id[Head(batch)]
           /\ \A i \in DOMAIN Tail(batch) :
                 /\ i + 1 \in DOMAIN batch /\ Tail(batch)[i] = batch[i + 1]
                 /\ id[Tail(batch)[i]] > id[Head(batch)]
<1> USE IdsAreNumbers DEF PagesInv
<1>1. batch \in Seq(Urls) /\ visible \subseteq Urls
  BY DEF TypeOK
<1>2. /\ Head(batch) = batch[1] /\ 1 \in DOMAIN batch
      /\ DOMAIN batch = 1 .. Len(batch) /\ Len(batch) \in Nat \ {0}
      /\ DOMAIN Tail(batch) = 1 .. (Len(batch) - 1)
      /\ \A i \in 1 .. (Len(batch) - 1) : Tail(batch)[i] = batch[i + 1]
  BY <1>1, BatchRows
<1>3. Head(batch) \in visible /\ Head(batch) \in Urls
  BY <1>1, <1>2 DEF BatchInv
<1>4. \A i \in DOMAIN batch : i # 1 => id[batch[i]] > id[Head(batch)]
  <2>1. \A i \in DOMAIN batch : batch[i] \in Urls /\ (i # 1 => 1 < i)
    BY <1>1, <1>2 DEF BatchInv
  <2> QED BY <1>2, <2>1 DEF BatchInv
<1>5. Larger(since, id[Head(batch)]) = id[Head(batch)]
  <2>1. id[Head(batch)] \in Nat /\ id[Head(batch)] >= since
    BY <1>2, <1>3 DEF BatchInv
  <2> QED BY <2>1 DEF Larger
<1>6. \A i \in DOMAIN Tail(batch) :
         /\ i + 1 \in DOMAIN batch /\ Tail(batch)[i] = batch[i + 1]
         /\ id[Tail(batch)[i]] > id[Head(batch)]
  BY <1>2, <1>4
<1> QED BY <1>2, <1>3, <1>4, <1>5, <1>6

\* Without the first row the batch is in order still.
LEMMA RestInOrder ==
    ASSUME PagesInv, batch # <<>>, pc' \in {"scan"}, batch' = Tail(batch),
           since' = id[Head(batch)], id' = id, visible' = visible
    PROVE  BatchInv'
<1>1. \A i \in DOMAIN Tail(batch) :
         /\ i + 1 \in DOMAIN batch /\ Tail(batch)[i] = batch[i + 1]
         /\ id[Tail(batch)[i]] > id[Head(batch)]
  BY FirstRow
<1>2. \A i, j \in DOMAIN Tail(batch) : i < j => id[Tail(batch)[i]] < id[Tail(batch)[j]]
  <2>1. \A i \in DOMAIN Tail(batch) : i \in Nat
    BY BatchRows DEF PagesInv, TypeOK
  <2>2. \A i, j \in DOMAIN batch : i < j => id[batch[i]] < id[batch[j]]
    BY DEF PagesInv, BatchInv
  <2>3. SUFFICES ASSUME NEW i \in DOMAIN Tail(batch), NEW j \in DOMAIN Tail(batch), i < j
                 PROVE  id[batch[i + 1]] < id[batch[j + 1]]
    BY <1>1
  <2>4. i + 1 < j + 1
    BY <2>1, <2>3
  <2> QED BY <1>1, <2>2, <2>4
<1>3. \A i \in DOMAIN Tail(batch) : Tail(batch)[i] \in visible
  BY <1>1 DEF PagesInv, BatchInv
<1> QED BY <1>1, <1>2, <1>3 DEF BatchInv

\* The first row counts as seen, and is told to whoever has a link.
LEMMA ScanKeepsPages ==
    ASSUME PagesInv, Scan
    PROVE  PagesInv'
<1> DEFINE u == Head(batch)
           told == IF u \in Mentions THEN links ELSE {}
<1>1. /\ pc = "scan" /\ batch # <<>> /\ since' = id[u] /\ todo' = told
      /\ pc' = IF told = {} THEN "scan" ELSE "post"
      /\ batch' = IF told = {} THEN Tail(batch) ELSE batch
      /\ scanned' = scanned \cup {u}
      /\ owed' = owed \cup {<<u, l[1]>> : l \in told}
  BY FirstRow DEF Scan
<1>2. UNCHANGED <<nextId, id, visible, late, insights, faults, goals, links>>
  BY DEF Scan, pageVars, goalVars
<1>3. u \in visible /\ u \in Urls /\ told \subseteq Linkable
  BY <1>1, FirstRow DEF PagesInv, TypeOK
<1>4. TypeOK'
  <2>1. batch' \in Seq(Urls) /\ Len(batch') <= Limit
    <3>1. /\ batch \in Seq(Urls) /\ Len(batch) <= Limit
          /\ Tail(batch) \in Seq(Urls) /\ Len(Tail(batch)) = Len(batch) - 1
          /\ Len(batch) \in Nat /\ Limit \in Nat
      BY <1>1, BatchRows, EventExtractorAssumption
      DEF EventExtractorAssumption, PagesInv, TypeOK
    <3> QED BY <1>1, <3>1
  <2>2. since' \in 0 .. (nextId' - 1)
    BY <1>1, <1>2, <1>3 DEF PagesInv, TypeOK
  <2>3. {<<u, l[1]>> : l \in told} \subseteq Urls \X Goals
    BY <1>3, LinksHaveGoals
  <2> QED BY <1>1, <1>2, <1>3, <2>1, <2>2, <2>3 DEF PagesInv, TypeOK
<1>5. BatchInv'
  <2>1. CASE told = {}
    BY <1>1, <1>2, <2>1, RestInOrder
  <2>2. CASE told # {}
    BY <1>1, <1>2, <1>3, <2>2, FirstRow DEF PagesInv, BatchInv
  <2> QED BY <2>1, <2>2
<1> QED BY <1>2, <1>4, <1>5 DEF PagesInv, IdsInv, Drawn

\* An insight is stored or not.
LEMMA WriteType ==
    ASSUME PagesInv, NEW l \in Linkable, pc = "post", Write(l) \/ UNCHANGED insights
    PROVE  insights' \in [Urls -> [Goals -> Nat]]
<1>1. Head(batch) \in Urls /\ l[1] \in Goals
  BY FirstRow, LinksHaveGoals DEF PagesInv, BatchInv
<1>2. insights \in [Urls -> [Goals -> Nat]]
  BY DEF PagesInv, TypeOK
<1>3. insights[Head(batch)] \in [Goals -> Nat] /\ insights[Head(batch)][l[1]] + 1 \in Nat
  BY <1>1, <1>2
<1>4. [insights[Head(batch)] EXCEPT ![l[1]] = @ + 1] \in [Goals -> Nat]
  BY <1>3
<1>5. CASE Write(l)
  <2>1. insights' = [insights EXCEPT ![Head(batch)] =
                        [insights[Head(batch)] EXCEPT ![l[1]] = @ + 1]]
    BY <1>5 DEF Write
  <2> QED BY <1>1, <1>2, <1>4, <2>1
<1> QED BY <1>2, <1>5

\* A link row is told, and the page is over with its last row.
LEMMA PostKeepsPages ==
    ASSUME PagesInv, NEW l \in Linkable, Post(l)
    PROVE  PagesInv'
<1>1. /\ pc = "post" /\ l \in todo /\ since' = since
      /\ UNCHANGED <<nextId, id, visible, late, goals, links, scanned, owed>>
  BY DEF Post, Told, GiveUp, pageVars, goalVars, historyVars
<1>2. insights' \in [Urls -> [Goals -> Nat]]
  BY <1>1, WriteType DEF Post
<1>3. faults' \in 0 .. MaxFaults
  BY EventExtractorAssumption DEF EventExtractorAssumption, PagesInv, TypeOK, Post, Fault
<1>4. batch # <<>> /\ since = id[Head(batch)]
  BY <1>1 DEF PagesInv, BatchInv
<1>5. /\ batch \in Seq(Urls) /\ Len(batch) <= Limit
      /\ Tail(batch) \in Seq(Urls) /\ Len(Tail(batch)) = Len(batch) - 1
      /\ Len(batch) \in Nat /\ Limit \in Nat
  BY <1>4, BatchRows, EventExtractorAssumption
  DEF EventExtractorAssumption, PagesInv, TypeOK
<1>6. \/ pc' = "scan" /\ batch' = Tail(batch) /\ todo' = {}
      \/ pc' = "post" /\ batch' = batch /\ todo' = todo \ {l} /\ todo' # {}
      \/ pc' = "sleep" /\ batch' = <<>> /\ todo' = {}
  BY <1>1 DEF Post, Told, GiveUp
<1>7. TypeOK'
  <2>1. batch' \in Seq(Urls) /\ Len(batch') <= Limit
    <3>1. <<>> \in Seq(Urls) /\ Len(<<>>) <= Limit
      BY EventExtractorAssumption DEF EventExtractorAssumption
    <3>2. Len(batch) - 1 <= Limit
      BY <1>5
    <3> QED BY <1>5, <1>6, <3>1, <3>2
  <2>2. todo' \subseteq Linkable /\ (pc' = "post" <=> todo' # {})
    BY <1>6 DEF PagesInv, TypeOK
  <2> QED BY <1>1, <1>2, <1>3, <1>6, <2>1, <2>2 DEF PagesInv, TypeOK
<1>8. BatchInv'
  <2>1. CASE pc' = "scan" /\ batch' = Tail(batch)
    BY <1>1, <1>4, <2>1, RestInOrder
  <2>2. CASE pc' = "post" /\ batch' = batch
    BY <1>1, <2>2 DEF PagesInv, BatchInv
  <2>3. CASE pc' = "sleep" /\ batch' = <<>>
    BY <2>3 DEF BatchInv
  <2> QED BY <1>6, <2>1, <2>2, <2>3
<1> QED BY <1>1, <1>7, <1>8 DEF PagesInv, IdsInv, Drawn

\* A tick that is left, or was the last of a process, holds no batch.
LEMMA LeavingKeepsPages ==
    ASSUME PagesInv, EndTick \/ LookupFails \/ Restart
    PROVE  PagesInv'
<1>1. /\ pc' = "sleep" /\ batch' = <<>>
      /\ UNCHANGED <<nextId, id, visible, late, goals, links, insights>>
  BY DEF EndTick, LookupFails, Restart, pageVars, goalVars
<1>2. todo' = {}
  BY DEF EndTick, LookupFails, Restart, PagesInv, TypeOK
<1>3. faults' \in 0 .. MaxFaults
  BY EventExtractorAssumption
  DEF EventExtractorAssumption, PagesInv, TypeOK, EndTick, LookupFails, Restart, Fault
<1>4. since' \in 0 .. (nextId - 1) /\ scanned' \subseteq visible /\ owed' \subseteq Urls \X Goals
  <2>1. CASE EndTick \/ Restart
    BY <2>1, IdsAreNumbers DEF EndTick, Restart, historyVars, PagesInv, TypeOK
  <2>2. CASE LookupFails
    <3>1. /\ since' = id[Head(batch)] /\ scanned' = scanned \cup {Head(batch)}
          /\ owed' = owed \cup {<<Head(batch), l[1]>> : l \in links}
          /\ Head(batch) \in visible /\ Head(batch) \in Urls
      BY <2>2, FirstRow DEF LookupFails
    <3>2. {<<Head(batch), l[1]>> : l \in links} \subseteq Urls \X Goals
      BY <3>1, LinksHaveGoals DEF PagesInv, TypeOK
    <3> QED BY <3>1, <3>2 DEF PagesInv, TypeOK
  <2> QED BY <2>1, <2>2
<1>5. TypeOK'
  <2>1. <<>> \in Seq(Urls) /\ Len(<<>>) <= Limit
    BY EventExtractorAssumption DEF EventExtractorAssumption
  <2> QED BY <1>1, <1>2, <1>3, <1>4, <2>1 DEF PagesInv, TypeOK
<1>6. BatchInv'
  BY <1>1 DEF BatchInv
<1> QED BY <1>1, <1>5, <1>6 DEF PagesInv, IdsInv, Drawn

\* Every variable keeps its type, ids are drawn once, and the batch in hand is
\* ahead of the reader and in order.
THEOREM PagesInvariance == Spec => []PagesInv
<1>1. Init => PagesInv
  <2> SUFFICES ASSUME Init PROVE PagesInv
    OBVIOUS
  <2>1. Drawn = {} /\ Cardinality({}) = 0
    BY FS_EmptySet DEF Init, Drawn
  <2>2. Cardinality(Urls) \in Nat
    BY FS_CardinalityType, EventExtractorAssumption DEF EventExtractorAssumption
  <2>3. TypeOK
    BY <2>2, EventExtractorAssumption DEF EventExtractorAssumption, Init, TypeOK
  <2>4. IdsInv
    BY <2>1 DEF Init, IdsInv
  <2>5. BatchInv
    BY DEF Init, BatchInv
  <2> QED BY <2>3, <2>4, <2>5 DEF PagesInv
<1>2. PagesInv /\ [Next]_vars => PagesInv'
  <2> SUFFICES ASSUME PagesInv, [Next]_vars PROVE PagesInv'
    OBVIOUS
  <2>1. CASE UNCHANGED vars
    BY <2>1 DEF vars, PagesInv, TypeOK, IdsInv, Drawn, BatchInv
  <2> QED BY <2>1, UsersKeepPages, InsertKeepsPages, CommitKeepsPages, FetchKeepsPages,
             ScanKeepsPages, PostKeepsPages, LeavingKeepsPages DEF Next, Tick
<1> QED BY <1>1, <1>2, PTL DEF Spec

THEOREM TypeCorrect == Spec => []TypeOK
BY PagesInvariance, PTL DEF PagesInv

-----------------------------------------------------------------------------
\* The reader is never past the last row of its batch.
LEMMA ReachedAhead ==
    ASSUME PagesInv
    PROVE  /\ Reached \in Nat /\ since <= Reached
           /\ batch # <<>> => id[Head(batch)] <= Reached
<1> USE IdsAreNumbers DEF PagesInv
<1>1. CASE batch = <<>>
  BY <1>1 DEF Reached
<1>2. CASE batch # <<>>
  <2>1. /\ Len(batch) \in DOMAIN batch /\ Len(batch) \in Nat /\ batch[Len(batch)] \in Urls
        /\ Head(batch) = batch[1] /\ batch[1] \in Urls
    BY <1>2, BatchRows DEF TypeOK
  <2>2. id[Head(batch)] <= id[batch[Len(batch)]]
    BY <1>2, <2>1, FirstRow
  <2>3. since <= id[batch[Len(batch)]]
    BY <2>1, <2>2 DEF BatchInv
  <2> QED BY <1>2, <2>1, <2>2, <2>3 DEF Reached
<1> QED BY <1>1, <1>2

\* Passing over the first row does not change how far the batch reaches.
LEMMA RestReaches ==
    ASSUME PagesInv, batch # <<>>, batch' = Tail(batch), since' = id[Head(batch)], id' = id
    PROVE  Reached' = Reached
<1>1. /\ Len(batch) \in Nat \ {0} /\ Head(batch) = batch[1]
      /\ Len(Tail(batch)) = Len(batch) - 1 /\ Tail(batch) \in Seq(Urls)
      /\ \A i \in 1 .. (Len(batch) - 1) : Tail(batch)[i] = batch[i + 1]
  BY BatchRows DEF PagesInv, TypeOK
<1>2. CASE Len(batch) = 1
  <2>1. Tail(batch) = <<>>
    BY <1>1, <1>2
  <2> QED BY <1>1, <1>2, <2>1 DEF Reached
<1>3. CASE Len(batch) # 1
  <2>1. Tail(batch) # <<>> /\ Len(batch) - 1 \in 1 .. (Len(batch) - 1)
    BY <1>1, <1>3
  <2>2. Tail(batch)[Len(batch) - 1] = batch[Len(batch)]
    BY <1>1, <2>1
  <2> QED BY <1>1, <2>1, <2>2 DEF Reached
<1> QED BY <1>2, <1>3

\* What is behind the reader was looked at or appeared late: a row of the batch is
\* behind it only while it is being told.
LEMMA GapMeansLate ==
    ASSUME PagesInv, GapInv
    PROVE  OnlyLateSkipped
<1> SUFFICES ASSUME NEW u \in visible, id[u] <= since
             PROVE  u \in scanned \cup late
  BY DEF OnlyLateSkipped
<1> USE IdsAreNumbers DEF PagesInv
<1>1. u \in Urls /\ id[u] <= Reached
  BY ReachedAhead DEF TypeOK
<1>2. ASSUME NEW i \in DOMAIN batch, batch[i] = u PROVE u \in scanned
  <2>1. pc = "post" /\ i = 1
    BY <1>1, <1>2 DEF BatchInv
  <2>2. batch # <<>> /\ Head(batch) \in scanned
    BY <2>1 DEF BatchInv
  <2> QED BY <1>2, <2>1, <2>2, FirstRow
<1> QED BY <1>1, <1>2 DEF GapInv

\* A batch that is dropped leaves no gap behind the reader.
LEMMA DroppedLeavesNoGap ==
    ASSUME PagesInv, GapInv, batch' = <<>>, UNCHANGED <<id, visible, late>>,
           scanned \subseteq scanned',
           \/ since' \in Nat /\ since' <= since
           \/ batch # <<>> /\ since' = id[Head(batch)] /\ Head(batch) \in scanned'
    PROVE  GapInv'
<1> SUFFICES ASSUME NEW u \in visible, id[u] <= since' PROVE u \in scanned' \cup late
  BY DEF GapInv, Reached
<1> USE IdsAreNumbers DEF PagesInv
<1>1. u \in Urls
  BY DEF TypeOK
<1>2. CASE since' \in Nat /\ since' <= since
  BY <1>1, <1>2, GapMeansLate DEF OnlyLateSkipped
<1>3. CASE batch # <<>> /\ since' = id[Head(batch)] /\ Head(batch) \in scanned'
  <2>1. id[u] <= Reached
    BY <1>1, <1>3, ReachedAhead, FirstRow
  <2>2. ASSUME NEW i \in DOMAIN batch, batch[i] = u PROVE u \in scanned'
    BY <1>1, <1>3, <2>2, FirstRow
  <2> QED BY <2>1, <2>2 DEF GapInv
<1> QED BY <1>2, <1>3

\* The first row can be passed over once it has been looked at.
LEMMA PassedLeavesNoGap ==
    ASSUME PagesInv, GapInv, batch # <<>>, batch' = Tail(batch),
           since' = id[Head(batch)], UNCHANGED <<id, visible, late>>,
           scanned \subseteq scanned', Head(batch) \in scanned'
    PROVE  GapInv'
<1>1. Reached' = Reached
  BY RestReaches
<1>2. ASSUME NEW i \in DOMAIN batch, batch[i] \notin scanned'
      PROVE  \E j \in DOMAIN Tail(batch) : Tail(batch)[j] = batch[i]
  <2>1. /\ Head(batch) = batch[1] /\ DOMAIN batch = 1 .. Len(batch) /\ Len(batch) \in Nat
        /\ DOMAIN Tail(batch) = 1 .. (Len(batch) - 1)
        /\ \A j \in 1 .. (Len(batch) - 1) : Tail(batch)[j] = batch[j + 1]
    BY BatchRows DEF PagesInv, TypeOK
  <2>2. i # 1 /\ i \in Nat /\ i - 1 \in 1 .. (Len(batch) - 1) /\ (i - 1) + 1 = i
    BY <1>2, <2>1
  <2> QED BY <2>1, <2>2
<1> QED BY <1>1, <1>2 DEF GapInv

LEMMA GapKept ==
    ASSUME PagesInv, PagesInv', GapInv, [Next]_vars
    PROVE  GapInv'
<1>1. ASSUME UNCHANGED <<id, visible, late, since, batch, scanned>> PROVE GapInv'
  BY <1>1 DEF GapInv, Reached
<1>2. ASSUME NEW u \in Urls, InsertPage(u) PROVE GapInv'
  <2>1. /\ id' = [id EXCEPT ![u] = nextId] /\ id[u] = 0
        /\ UNCHANGED <<visible, late, since, batch, scanned>>
    BY <1>2 DEF InsertPage, processVars, historyVars
  <2>2. \A v \in visible : v # u /\ id'[v] = id[v]
    BY <2>1 DEF PagesInv, TypeOK, IdsInv, Drawn
  <2>3. batch # <<>> => batch[Len(batch)] \in visible
    <3>1. batch # <<>> => Len(batch) \in DOMAIN batch
      BY BatchRows DEF PagesInv, TypeOK
    <3> QED BY <3>1 DEF PagesInv, BatchInv
  <2>4. Reached' = Reached
    BY <2>1, <2>2, <2>3 DEF Reached
  <2> QED BY <2>1, <2>2, <2>4 DEF GapInv
<1>3. ASSUME NEW u \in Urls, CommitPage(u) PROVE GapInv'
  <2>1. Reached' = Reached
    BY <1>3 DEF CommitPage, Reached, processVars
  <2> QED BY <1>3, <2>1 DEF CommitPage, processVars, historyVars, GapInv
<1>4. CASE Fetch
  <2>1. PICK s \in Batches : IsBatch(s) /\ batch' = s
    BY <1>4 DEF Fetch
  <2>2. UNCHANGED <<id, visible, late, since, scanned>> /\ batch = <<>>
    BY <1>4 DEF Fetch, pageVars, historyVars, PagesInv, BatchInv
  <2>3. ASSUME NEW v \in visible, id[v] <= Reached', v \notin scanned \cup late
        PROVE  \E i \in DOMAIN s : s[i] = v
    <3>1. v \in Urls /\ id[v] \in Nat /\ since \in Nat
      BY IdsAreNumbers DEF PagesInv, TypeOK
    <3>2. v \in Newer
      BY <2>2, <2>3, <3>1 DEF Newer, GapInv, Reached
    <3>3. s # <<>>
      BY <2>1, <2>2, <2>3, <3>1, <3>2 DEF Reached, Newer
    <3>4. Len(s) \in DOMAIN s /\ Reached' = id[s[Len(s)]]
      BY <2>1, <2>2, <3>3, BatchesAreSequences DEF Reached
    <3>5. s[Len(s)] \in visible /\ s[Len(s)] \in Urls /\ id[s[Len(s)]] \in Nat
      BY <2>1, <3>4, IdsAreNumbers DEF IsBatch, Newer, PagesInv, TypeOK
    <3> QED BY <2>1, <2>3, <3>1, <3>2, <3>4, <3>5 DEF IsBatch
  <2> QED BY <2>1, <2>2, <2>3 DEF GapInv
<1>5. CASE Scan
  <2>1. /\ batch # <<>> /\ since' = id[Head(batch)] /\ scanned' = scanned \cup {Head(batch)}
        /\ UNCHANGED <<id, visible, late>> /\ batch' \in {batch, Tail(batch)}
    BY <1>5, FirstRow DEF Scan, pageVars
  <2>2. CASE batch' = Tail(batch)
    BY <2>1, <2>2, PassedLeavesNoGap
  <2>3. CASE batch' = batch
    BY <2>1, <2>3 DEF GapInv, Reached
  <2> QED BY <2>1, <2>2, <2>3
<1>6. ASSUME NEW l \in Linkable, Post(l) PROVE GapInv'
  <2>1. /\ since' = since /\ UNCHANGED <<id, visible, late, scanned>>
        /\ batch' \in {batch, Tail(batch), <<>>}
        /\ batch # <<>> /\ Head(batch) \in scanned /\ since = id[Head(batch)]
        /\ since \in Nat
    BY <1>6, IdsAreNumbers
    DEF Post, Told, GiveUp, pageVars, historyVars, PagesInv, BatchInv
  <2>2. CASE batch' = Tail(batch)
    BY <2>1, <2>2, PassedLeavesNoGap
  <2>3. CASE batch' = <<>>
    BY <2>1, <2>3, DroppedLeavesNoGap
  <2>4. CASE batch' = batch
    BY <1>1, <2>1, <2>4
  <2> QED BY <2>1, <2>2, <2>3, <2>4
<1>7. CASE LookupFails
  <2>1. /\ batch # <<>> /\ batch' = <<>> /\ since' = id[Head(batch)]
        /\ scanned' = scanned \cup {Head(batch)} /\ UNCHANGED <<id, visible, late>>
    BY <1>7, FirstRow DEF LookupFails, pageVars
  <2> QED BY <2>1, DroppedLeavesNoGap
<1>8. CASE Restart
  <2>1. /\ batch' = <<>> /\ since' \in Nat /\ since' <= since
        /\ UNCHANGED <<id, visible, late, scanned>>
    BY <1>8, IdsAreNumbers DEF Restart, pageVars, historyVars, PagesInv
  <2> QED BY <2>1, DroppedLeavesNoGap
<1>9. CASE EndTick \/ UNCHANGED vars
  BY <1>1, <1>9 DEF EndTick, vars, pageVars, historyVars
<1>10. ASSUME NEW l \in Linkable, Link(l) \/ Unlink(l) PROVE GapInv'
  BY <1>1, <1>10 DEF Link, Unlink, pageVars, processVars, historyVars
<1>11. ASSUME NEW g \in Goals, DeleteGoal(g) PROVE GapInv'
  BY <1>1, <1>11 DEF DeleteGoal, pageVars, processVars, historyVars
<1> QED BY <1>2, <1>3, <1>4, <1>5, <1>6, <1>7, <1>8, <1>9, <1>10, <1>11 DEF Next, Tick

\* The reader passes over a page only if it appeared behind the reader.
THEOREM OnlyLateSkippedHolds == Spec => []OnlyLateSkipped
<1>1. Init => GapInv
  BY DEF Init, GapInv
<1>2. PagesInv /\ PagesInv' /\ GapInv /\ [Next]_vars => GapInv'
  BY GapKept
<1>3. PagesInv /\ GapInv => OnlyLateSkipped
  BY GapMeansLate
<1> QED BY <1>1, <1>2, <1>3, PagesInvariance, PTL DEF Spec

-----------------------------------------------------------------------------
\* There are finitely many links, and no more goals than links.
LEMMA FiniteLinks ==
    /\ IsFiniteSet(Goals) /\ Cardinality(Goals) \in Nat
    /\ \A S : S \subseteq Linkable => \A g :
          /\ IsFiniteSet(RowsOf(S, g)) /\ Cardinality(RowsOf(S, g)) \in Nat
          /\ Cardinality(RowsOf(S, g)) <= Cardinality(RowsOf(Linkable, g))
<1>1. IsFiniteSet(Linkable)
  BY EventExtractorAssumption DEF EventExtractorAssumption
<1>2. IsFiniteSet(Goals)
  <2> DEFINE goalOf == [l \in Linkable |-> l[1]]
  <2>1. goalOf \in Surjection(Linkable, Goals)
    BY DEF Surjection, Goals
  <2> QED BY <1>1, <2>1, FS_Surjection
<1>3. ASSUME NEW S, S \subseteq Linkable, NEW g
      PROVE  /\ IsFiniteSet(RowsOf(S, g))
             /\ Cardinality(RowsOf(S, g)) <= Cardinality(RowsOf(Linkable, g))
  <2>1. RowsOf(Linkable, g) \subseteq Linkable /\ RowsOf(S, g) \subseteq RowsOf(Linkable, g)
    BY <1>3 DEF RowsOf
  <2>2. IsFiniteSet(RowsOf(Linkable, g))
    BY <1>1, <2>1, FS_Subset
  <2> QED BY <2>1, <2>2, FS_Subset
<1> QED BY <1>2, <1>3, FS_CardinalityType

\* A link row that is told leaves one row less of its goal.
LEMMA OneRowLess ==
    ASSUME NEW S, S \subseteq Linkable, NEW l \in S, NEW g
    PROVE  Cardinality(RowsOf(S \ {l}, g)) =
               IF g = l[1] THEN Cardinality(RowsOf(S, g)) - 1 ELSE Cardinality(RowsOf(S, g))
<1>1. IsFiniteSet(RowsOf(S, g))
  BY FiniteLinks
<1>2. CASE g = l[1]
  <2>1. RowsOf(S \ {l}, g) = RowsOf(S, g) \ {l} /\ l \in RowsOf(S, g)
    BY <1>2 DEF RowsOf
  <2>2. Cardinality(RowsOf(S, g) \ {l})
          = IF l \in RowsOf(S, g) THEN Cardinality(RowsOf(S, g)) - 1
                                  ELSE Cardinality(RowsOf(S, g))
    BY <1>1, FS_RemoveElement
  <2> QED BY <1>2, <2>1, <2>2
<1>3. CASE g # l[1]
  <2>1. RowsOf(S \ {l}, g) = RowsOf(S, g)
    BY <1>3 DEF RowsOf
  <2> QED BY <1>3, <2>1
<1> QED BY <1>2, <1>3

\* More runs allow more insights.
LEMMA TimesMonotone ==
    ASSUME NEW r \in Nat, NEW q \in Nat, r <= q, NEW k \in Nat
    PROVE  r * k \in Nat /\ q * k \in Nat /\ r * k <= q * k
OBVIOUS

LEMMA OneMoreTime ==
    ASSUME NEW r \in Nat, NEW k \in Nat
    PROVE  (1 + r) * k = r * k + k /\ r * k \in Nat
OBVIOUS

\* What is counted is a number.
LEMMA EventsAreNumbers ==
    ASSUME PagesInv, NEW u \in Urls, NEW g \in Goals
    PROVE  /\ insights[u][g] \in Nat /\ Due(u, g) \in Nat /\ Runs(u) \in Nat
           /\ Cardinality(RowsOf(Linkable, g)) \in Nat
<1>1. insights[u][g] \in Nat /\ todo \subseteq Linkable /\ faults \in Nat
  BY EventExtractorAssumption DEF EventExtractorAssumption, PagesInv, TypeOK
<1> QED BY <1>1, FiniteLinks DEF Due, Runs

\* A page that is told no more than before, or whose run has begun meanwhile, keeps
\* within its bound.
LEMMA NoMoreTold ==
    ASSUME PagesInv, PagesInv', EventsInv, NEW u \in Urls, NEW g \in Goals,
           (insights[u][g] + Due(u, g))' <= insights[u][g] + Due(u, g),
           Runs(u) <= Runs(u)'
    PROVE  (insights[u][g] + Due(u, g) <= Runs(u) * Cardinality(RowsOf(Linkable, g)))'
<1> DEFINE k == Cardinality(RowsOf(Linkable, g))
<1>1. insights[u][g] + Due(u, g) <= Runs(u) * k
  BY DEF EventsInv
<1>2. /\ insights[u][g] + Due(u, g) \in Nat /\ Runs(u) \in Nat /\ k \in Nat
  BY EventsAreNumbers
<1>3. (insights[u][g] + Due(u, g))' \in Nat /\ Runs(u)' \in Nat
  <2>1. insights'[u][g] \in Nat /\ todo' \subseteq Linkable /\ faults' \in Nat
    BY EventExtractorAssumption DEF EventExtractorAssumption, PagesInv, TypeOK
  <2>2. Due(u, g)' \in Nat
    BY <2>1, FiniteLinks DEF Due
  <2> QED BY <2>1, <2>2 DEF Runs
<1>4. Runs(u) * k <= Runs(u)' * k /\ Runs(u) * k \in Nat /\ Runs(u)' * k \in Nat
  BY <1>2, <1>3, TimesMonotone
<1> HIDE DEF k
<1> QED BY <1>1, <1>2, <1>3, <1>4 DEF k

\* Steps that neither tell anyone nor move the reader.
LEMMA QuietEvents ==
    ASSUME PagesInv, PagesInv', EventsInv,
           UNCHANGED <<insights, pc, batch, todo, since, faults>>,
           \A u \in Urls : id'[u] = id[u] \/ (id[u] = 0 /\ id'[u] > since)
    PROVE  EventsInv'
<1> SUFFICES ASSUME NEW u \in Urls, NEW g \in Goals
             PROVE  (insights[u][g] + Due(u, g)
                         <= Runs(u) * Cardinality(RowsOf(Linkable, g)))'
  BY DEF EventsInv
<1>1. Due(u, g)' = Due(u, g) /\ Runs(u)' = Runs(u) /\ insights' = insights
  BY DEF Due, Runs
<1>2. (insights[u][g] + Due(u, g))' <= insights[u][g] + Due(u, g) /\ Runs(u) <= Runs(u)'
  BY <1>1, EventsAreNumbers
<1> QED BY <1>2, NoMoreTold

\* A tick that begins or is left tells no one more.
LEMMA LeavingEvents ==
    ASSUME PagesInv, PagesInv', EventsInv, UNCHANGED <<insights, id>>, pc' # "post",
           \/ faults' = faults /\ since' = since
           \/ faults' = faults + 1 /\ since' \in Nat
    PROVE  EventsInv'
<1> SUFFICES ASSUME NEW u \in Urls, NEW g \in Goals
             PROVE  (insights[u][g] + Due(u, g)
                         <= Runs(u) * Cardinality(RowsOf(Linkable, g)))'
  BY DEF EventsInv
<1>1. faults \in Nat
  BY EventExtractorAssumption DEF EventExtractorAssumption, PagesInv, TypeOK
<1>2. Runs(u) <= Runs(u)'
  BY <1>1 DEF Runs
<1>3. Due(u, g)' = 0 /\ insights' = insights
  BY DEF Due
<1>4. (insights[u][g] + Due(u, g))' <= insights[u][g] + Due(u, g)
  BY <1>3, EventsAreNumbers
<1> QED BY <1>2, <1>4, NoMoreTold

\* The page that is looked at becomes due once for each link: its run has begun.
LEMMA ScanEvents ==
    ASSUME PagesInv, PagesInv', EventsInv, Scan
    PROVE  EventsInv'
<1> SUFFICES ASSUME NEW u \in Urls, NEW g \in Goals
             PROVE  (insights[u][g] + Due(u, g)
                         <= Runs(u) * Cardinality(RowsOf(Linkable, g)))'
  BY DEF EventsInv
<1> DEFINE k == Cardinality(RowsOf(Linkable, g))
<1>1. /\ pc = "scan" /\ batch # <<>> /\ since' = id[Head(batch)]
      /\ UNCHANGED <<insights, faults, id>> /\ todo' \subseteq Linkable
      /\ pc' = "post" => batch' = batch
  BY FirstRow DEF Scan, pageVars, PagesInv, TypeOK
<1>2. faults \in Nat /\ Due(u, g) = 0 /\ k \in Nat /\ insights[u][g] \in Nat
  <2>1. faults \in Nat
    BY EventExtractorAssumption DEF EventExtractorAssumption, PagesInv, TypeOK
  <2>2. Due(u, g) = 0
    BY <1>1 DEF Due
  <2>3. k \in Nat /\ insights[u][g] \in Nat
    BY EventsAreNumbers
  <2> QED BY <2>1, <2>2, <2>3
<1>3. CASE u = Head(batch)
  <2>1. id[u] > since /\ id[u] # 0 /\ id[u] \in Nat
    <3>1. 1 \in DOMAIN batch /\ Head(batch) = batch[1]
      BY <1>1, BatchRows DEF PagesInv, TypeOK
    <3>2. id[u] > since
      BY <1>1, <1>3, <3>1 DEF PagesInv, BatchInv
    <3>3. id[u] \in Nat /\ since \in Nat
      BY IdsAreNumbers DEF PagesInv
    <3> QED BY <3>2, <3>3
  <2>2. Runs(u) = faults /\ Runs(u)' = 1 + faults
    BY <1>1, <1>3, <2>1 DEF Runs
  <2>3. insights[u][g] <= faults * k
    BY <1>2, <2>2 DEF EventsInv
  <2>4. Due(u, g)' \in Nat /\ Due(u, g)' <= k
    BY <1>1, <1>2, FiniteLinks DEF Due
  <2>5. (1 + faults) * k = faults * k + k /\ faults * k \in Nat
    BY <1>2, OneMoreTime
  <2>6. insights'[u][g] + Due(u, g)' <= (1 + faults) * k
    <3> HIDE DEF k
    <3> QED BY <1>1, <1>2, <2>3, <2>4, <2>5
  <2> QED BY <2>2, <2>6
<1>4. CASE u # Head(batch)
  <2>1. Due(u, g)' = 0
    BY <1>1, <1>4 DEF Due
  <2>2. (insights[u][g] + Due(u, g))' <= insights[u][g] + Due(u, g)
    BY <1>1, <1>2, <2>1
  <2>3. since \in Nat /\ since' \in Nat /\ since <= since' /\ id[u] \in Nat
    <3>1. Head(batch) \in Urls /\ id[Head(batch)] \in Nat
      BY <1>1, FirstRow, IdsAreNumbers DEF PagesInv
    <3>2. Larger(since, id[Head(batch)]) = id[Head(batch)] /\ since \in Nat
      BY <1>1, FirstRow, IdsAreNumbers DEF PagesInv
    <3> QED BY <1>1, <3>1, <3>2, IdsAreNumbers DEF Larger, PagesInv
  <2>4. Runs(u) <= Runs(u)'
    BY <1>1, <1>2, <2>3 DEF Runs
  <2> QED BY <2>2, <2>4, NoMoreTold
<1> QED BY <1>3, <1>4

\* A link row that is told was due.
LEMMA PostEvents ==
    ASSUME PagesInv, PagesInv', EventsInv, NEW l \in Linkable, Post(l)
    PROVE  EventsInv'
<1> SUFFICES ASSUME NEW u \in Urls, NEW g \in Goals
             PROVE  (insights[u][g] + Due(u, g)
                         <= Runs(u) * Cardinality(RowsOf(Linkable, g)))'
  BY DEF EventsInv
<1> DEFINE rest == Cardinality(RowsOf(todo \ {l}, g))
<1>1. /\ pc = "post" /\ l \in todo /\ todo \subseteq Linkable /\ since' = since /\ id' = id
      /\ faults \in Nat /\ faults' \in {faults, faults + 1}
  BY EventExtractorAssumption
  DEF EventExtractorAssumption, Post, Told, GiveUp, Fault, pageVars, PagesInv, TypeOK
<1>2. Runs(u) <= Runs(u)'
  <2>1. CASE faults' = faults
    BY <1>1, <2>1 DEF Runs
  <2>2. CASE faults' = faults + 1
    BY <1>1, <2>2 DEF Runs
  <2> QED BY <1>1, <2>1, <2>2
<1>3. /\ rest \in Nat /\ Cardinality(RowsOf(todo, g)) \in Nat
      /\ rest = IF g = l[1] THEN Cardinality(RowsOf(todo, g)) - 1
                            ELSE Cardinality(RowsOf(todo, g))
  <2>1. todo \ {l} \subseteq Linkable
    BY <1>1
  <2> QED BY <1>1, <2>1, FiniteLinks, OneRowLess
<1>4. Due(u, g)' \in Nat /\ Due(u, g)' <= IF u = Head(batch) THEN rest ELSE 0
  <2>1. pc' = "post" => batch' = batch /\ todo' = todo \ {l}
    BY <1>1 DEF Post, Told, GiveUp
  <2> QED BY <1>3, <2>1 DEF Due
<1>5. insights[u][g] \in Nat
      /\ insights'[u][g] \in {insights[u][g]}
            \cup IF u = Head(batch) /\ g = l[1] THEN {insights[u][g] + 1} ELSE {}
  <2>1. insights \in [Urls -> [Goals -> Nat]] /\ Head(batch) \in Urls
    BY <1>1, FirstRow DEF PagesInv, TypeOK, BatchInv
  <2>2. CASE UNCHANGED insights
    BY <2>1, <2>2
  <2>3. CASE Write(l)
    BY <2>1, <2>3 DEF Write
  <2> QED BY <2>2, <2>3 DEF Post
<1>6. Due(u, g) = IF u = Head(batch) THEN Cardinality(RowsOf(todo, g)) ELSE 0
  BY <1>1 DEF Due
<1>7. (insights[u][g] + Due(u, g))' <= insights[u][g] + Due(u, g)
  <2>1. CASE u = Head(batch) /\ g = l[1]
    <3>1. rest = Cardinality(RowsOf(todo, g)) - 1 /\ Due(u, g) = Cardinality(RowsOf(todo, g))
          /\ Due(u, g)' <= rest /\ insights'[u][g] \in {insights[u][g], insights[u][g] + 1}
      BY <1>3, <1>4, <1>5, <1>6, <2>1
    <3> HIDE DEF rest
    <3> QED BY <1>3, <1>4, <1>5, <3>1
  <2>2. CASE ~(u = Head(batch) /\ g = l[1])
    <3>1. insights'[u][g] = insights[u][g] /\ Due(u, g)' <= Due(u, g) /\ Due(u, g) \in Nat
      BY <1>3, <1>4, <1>5, <1>6, <2>2
    <3> QED BY <1>4, <1>5, <3>1
  <2> QED BY <2>1, <2>2
<1> QED BY <1>2, <1>7, NoMoreTold

LEMMA EventsKept ==
    ASSUME PagesInv, PagesInv', EventsInv, [Next]_vars
    PROVE  EventsInv'
<1>1. ASSUME NEW u \in Urls, InsertPage(u) \/ CommitPage(u) PROVE EventsInv'
  <2>1. UNCHANGED <<insights, pc, batch, todo, since, faults>>
    BY <1>1 DEF InsertPage, CommitPage, processVars
  <2>2. \A v \in Urls : id'[v] = id[v] \/ (id[v] = 0 /\ id'[v] > since)
    BY <1>1, IdsAreNumbers DEF InsertPage, CommitPage, PagesInv, TypeOK
  <2> QED BY <2>1, <2>2, QuietEvents
<1>2. ASSUME \/ \E l \in Linkable : Link(l) \/ Unlink(l)
             \/ \E g \in Goals : DeleteGoal(g)
      PROVE  EventsInv'
  BY <1>2, QuietEvents DEF Link, Unlink, DeleteGoal, pageVars, processVars
<1>3. CASE Fetch \/ EndTick
  BY <1>3, LeavingEvents DEF Fetch, EndTick, pageVars
<1>4. CASE LookupFails \/ Restart
  <2>1. since' \in Nat
    BY <1>4, IdsAreNumbers DEF LookupFails, Restart, PagesInv, TypeOK
  <2> QED BY <1>4, <2>1, LeavingEvents DEF LookupFails, Restart, Fault, pageVars
<1>5. CASE UNCHANGED vars
  BY <1>5, QuietEvents DEF vars
<1> QED BY <1>1, <1>2, <1>3, <1>4, <1>5, ScanEvents, PostEvents DEF Next, Tick

-----------------------------------------------------------------------------
\* What a step can cost: a failure leaves the goals of one page untold at most, and
\* anything else leaves none.
UntoldStep ==
    \/ Untold' \subseteq Untold /\ faults' \in {faults, faults + 1}
    \/ /\ \E u \in Urls : Untold' \subseteq Untold \cup ({u} \X Goals)
       /\ faults' = faults + 1

\* The goals still to be told are those of the page in hand.
LEMMA OnlyHeadIsTold ==
    ASSUME NEW u, pc # "post" \/ u # Head(batch)
    PROVE  BeingTold(u) = {}
BY DEF BeingTold

\* Steps that change neither insights nor who is being told.
LEMMA QuietUntold ==
    ASSUME UNCHANGED <<insights, owed, todo>>, goals' \subseteq goals,
           pc' = "post" <=> pc = "post", pc = "post" => batch' = batch,
           faults' \in {faults, faults + 1}
    PROVE  UntoldStep
<1>1. \A u : BeingTold(u)' = BeingTold(u)
  BY DEF BeingTold
<1>2. Untold' \subseteq Untold
  BY <1>1 DEF Untold
<1> QED BY <1>2 DEF UntoldStep

\* A page that is looked at owes its goals, and is about to tell them.
LEMMA ScanUntold ==
    ASSUME Scan
    PROVE  UntoldStep
<1> DEFINE u == Head(batch)
           told == IF u \in Mentions THEN links ELSE {}
<1>1. /\ pc = "scan" /\ UNCHANGED <<insights, goals, faults>> /\ todo' = told
      /\ owed' = owed \cup {<<u, l[1]>> : l \in told}
      /\ told # {} => pc' = "post" /\ batch' = batch
  BY DEF Scan, goalVars
<1>2. Untold' \subseteq Untold
  <2>1. SUFFICES ASSUME NEW o \in Untold' PROVE o \in Untold
    OBVIOUS
  <2>2. /\ o \in owed' /\ insights[o[1]][o[2]] = 0 /\ o[2] \in goals
        /\ o[2] \notin BeingTold(o[1])'
    BY <1>1, <2>1 DEF Untold
  <2>3. CASE o \in owed
    BY <1>1, <2>2, <2>3, OnlyHeadIsTold DEF Untold
  <2>4. ASSUME NEW l \in told, o = <<u, l[1]>> PROVE FALSE
    <3>1. pc' = "post" /\ batch' = batch /\ o[1] = u /\ o[2] = l[1] /\ l \in todo'
      BY <1>1, <2>4
    <3>2. o[2] \in BeingTold(o[1])'
      BY <3>1 DEF BeingTold
    <3> QED BY <2>2, <3>2
  <2> QED BY <1>1, <2>2, <2>3, <2>4
<1> QED BY <1>1, <1>2 DEF UntoldStep

\* Insights are only added.
LEMMA InsightsStay ==
    ASSUME PagesInv, NEW l \in Linkable, pc = "post", Write(l) \/ UNCHANGED insights,
           NEW u \in Urls, NEW g \in Goals, insights'[u][g] = 0
    PROVE  insights[u][g] = 0
<1>1. insights \in [Urls -> [Goals -> Nat]] /\ insights[u][g] \in Nat
  BY DEF PagesInv, TypeOK
<1> QED BY <1>1 DEF Write

\* A link row that is told tells its goal, unless the goal is gone or the call fails.
LEMMA PostUntold ==
    ASSUME PagesInv, NEW l \in Linkable, Post(l)
    PROVE  UntoldStep
<1> DEFINE u == Head(batch)
<1>1. /\ pc = "post" /\ l \in todo /\ UNCHANGED <<goals, owed>>
      /\ u \in Urls /\ l[1] \in Goals /\ owed \subseteq Urls \X Goals
  BY FirstRow, LinksHaveGoals
  DEF Post, goalVars, historyVars, PagesInv, BatchInv, TypeOK
<1>2. ASSUME NEW o \in Untold'
      PROVE  /\ o \in owed /\ o[1] \in Urls /\ o[2] \in Goals /\ o = <<o[1], o[2]>>
             /\ insights[o[1]][o[2]] = 0 /\ insights'[o[1]][o[2]] = 0
             /\ o[2] \in goals /\ o[2] \notin BeingTold(o[1])'
  <2>1. /\ o \in owed /\ insights'[o[1]][o[2]] = 0 /\ o[2] \in goals
        /\ o[2] \notin BeingTold(o[1])'
    BY <1>1, <1>2 DEF Untold
  <2>2. o[1] \in Urls /\ o[2] \in Goals /\ o = <<o[1], o[2]>>
    BY <1>1, <2>1
  <2>3. insights[o[1]][o[2]] = 0
    BY <1>1, <2>1, <2>2, InsightsStay DEF Post
  <2> QED BY <2>1, <2>2, <2>3
<1>3. CASE Told(l) /\ faults' = faults /\ (l[1] \in goals => Write(l))
  <2>1. ASSUME NEW o \in Untold' PROVE o \in Untold
    <3>1. ASSUME o[1] = u, NEW m \in todo, m[1] = o[2] PROVE FALSE
      <4>1. CASE m = l
        <5>1. Write(l) /\ insights \in [Urls -> [Goals -> Nat]]
          BY <1>2, <1>3, <2>1, <3>1, <4>1 DEF PagesInv, TypeOK
        <5>2. insights'[u][l[1]] = insights[u][l[1]] + 1 /\ insights[u][l[1]] \in Nat
          BY <1>1, <5>1 DEF Write
        <5>3. insights'[u][l[1]] = 0
          BY <1>2, <2>1, <3>1, <4>1
        <5> QED BY <5>2, <5>3
      <4>2. CASE m # l
        <5>1. m \in todo' /\ pc' = "post" /\ batch' = batch
          BY <1>1, <1>3, <3>1, <4>2 DEF Told
        <5>2. o[2] \in BeingTold(o[1])'
          BY <3>1, <5>1 DEF BeingTold
        <5> QED BY <1>2, <2>1, <5>2
      <4> QED BY <4>1, <4>2
    <3>2. o[2] \notin BeingTold(o[1])
      BY <3>1 DEF BeingTold
    <3> QED BY <1>2, <2>1, <3>2 DEF Untold
  <2>2. Untold' \subseteq Untold
    BY <2>1
  <2> QED BY <1>3, <2>2 DEF UntoldStep
<1>4. CASE Fault
  <2>1. Untold' \subseteq Untold \cup ({u} \X Goals)
    <3>1. SUFFICES ASSUME NEW o \in Untold', o[1] # u PROVE o \in Untold
      BY <1>2
    <3>2. BeingTold(o[1]) = {}
      BY <3>1, OnlyHeadIsTold
    <3> QED BY <1>2, <3>1, <3>2 DEF Untold
  <2> QED BY <1>1, <1>4, <2>1 DEF UntoldStep, Fault
<1> QED BY <1>3, <1>4 DEF Post

\* A failure outside of a call leaves the page in hand.
LEMMA FailureUntold ==
    ASSUME PagesInv, LookupFails \/ Restart
    PROVE  UntoldStep
<1>1. UNCHANGED <<insights, goals>> /\ faults' = faults + 1 /\ pc' = "sleep"
  BY DEF LookupFails, Restart, Fault, goalVars
<1>2. owed \subseteq Urls \X Goals /\ links \subseteq Linkable
  BY DEF PagesInv, TypeOK
<1>3. CASE LookupFails
  <2>1. /\ owed' = owed \cup {<<Head(batch), l[1]>> : l \in links}
        /\ Head(batch) \in Urls /\ pc # "post"
    BY <1>3, FirstRow DEF LookupFails
  <2>2. owed' \subseteq owed \cup ({Head(batch)} \X Goals)
    BY <1>2, <2>1, LinksHaveGoals
  <2>3. Untold' \subseteq Untold \cup ({Head(batch)} \X Goals)
    BY <1>1, <2>1, <2>2, OnlyHeadIsTold DEF Untold
  <2> QED BY <1>1, <2>1, <2>3 DEF UntoldStep
<1>4. CASE Restart /\ pc = "post"
  <2>1. owed' = owed /\ Head(batch) \in Urls
    BY <1>4, FirstRow DEF Restart, historyVars, PagesInv, BatchInv
  <2>2. Untold' \subseteq Untold \cup ({Head(batch)} \X Goals)
    <3>1. SUFFICES ASSUME NEW o \in Untold', o[1] # Head(batch) PROVE o \in Untold
      BY <1>2, <2>1 DEF Untold
    <3> QED BY <1>1, <2>1, <3>1, OnlyHeadIsTold DEF Untold
  <2> QED BY <1>1, <2>1, <2>2 DEF UntoldStep
<1>5. CASE Restart /\ pc # "post"
  <2>1. Untold' \subseteq Untold
    BY <1>1, <1>5, OnlyHeadIsTold DEF Restart, historyVars, Untold
  <2> QED BY <1>1, <2>1 DEF UntoldStep
<1> QED BY <1>3, <1>4, <1>5

LEMMA StepUntold ==
    ASSUME PagesInv, [Next]_vars
    PROVE  UntoldStep
<1>1. ASSUME NEW u \in Urls, InsertPage(u) \/ CommitPage(u) PROVE UntoldStep
  BY <1>1, QuietUntold DEF InsertPage, CommitPage, goalVars, processVars, historyVars
<1>2. ASSUME NEW l \in Linkable, Link(l) \/ Unlink(l) PROVE UntoldStep
  BY <1>2, QuietUntold DEF Link, Unlink, processVars, historyVars
<1>3. ASSUME NEW g \in Goals, DeleteGoal(g) PROVE UntoldStep
  BY <1>3, QuietUntold DEF DeleteGoal, processVars, historyVars
<1>4. CASE Fetch \/ EndTick
  BY <1>4, QuietUntold DEF Fetch, EndTick, goalVars, historyVars
<1>5. CASE UNCHANGED vars
  BY <1>5, QuietUntold DEF vars
<1> QED BY <1>1, <1>2, <1>3, <1>4, <1>5, ScanUntold, PostUntold, FailureUntold
        DEF Next, Tick

\* The goals of one page are as many as there are goals.
LEMMA UntoldFits ==
    ASSUME PagesInv, UntoldBounded, UntoldStep
    PROVE  UntoldBounded'
<1> DEFINE k == Cardinality(Goals)
           n == Cardinality(Untold)
<1>1. IsFiniteSet(Goals) /\ k \in Nat /\ IsFiniteSet(Urls)
  BY FiniteLinks, EventExtractorAssumption DEF EventExtractorAssumption
<1>2. faults \in Nat
  BY EventExtractorAssumption DEF EventExtractorAssumption, PagesInv, TypeOK
<1>3. IsFiniteSet(Untold) /\ n \in Nat
  <2>1. Untold \subseteq Urls \X Goals
    BY DEF PagesInv, TypeOK, Untold
  <2>2. IsFiniteSet(Urls \X Goals)
    BY <1>1, FS_Product
  <2> QED BY <2>1, <2>2, FS_Subset, FS_CardinalityType
<1>4. n <= faults * k /\ (1 + faults) * k = faults * k + k /\ faults * k \in Nat
  BY <1>1, <1>2, OneMoreTime DEF UntoldBounded
<1>5. CASE Untold' \subseteq Untold /\ faults' \in {faults, faults + 1}
  <2>1. Cardinality(Untold') <= n /\ Cardinality(Untold') \in Nat
    BY <1>3, <1>5, FS_Subset, FS_CardinalityType
  <2>2. faults' * k \in {faults * k, (1 + faults) * k}
    <3>1. faults' = faults \/ faults' = 1 + faults
      BY <1>2, <1>5
    <3> QED BY <3>1
  <2>3. Cardinality(Untold') <= faults' * k
    <3> HIDE DEF k, n
    <3> QED BY <1>1, <1>3, <1>4, <2>1, <2>2
  <2> QED BY <2>3 DEF UntoldBounded
<1>6. ASSUME NEW u \in Urls, Untold' \subseteq Untold \cup ({u} \X Goals),
             faults' = faults + 1
      PROVE  UntoldBounded'
  <2>1. IsFiniteSet({u} \X Goals) /\ Cardinality({u} \X Goals) = k
    <3>1. IsFiniteSet({u}) /\ Cardinality({u}) = 1
      BY FS_Singleton
    <3>2. IsFiniteSet({u} \X Goals) /\ Cardinality({u} \X Goals) = Cardinality({u}) * k
      BY <1>1, <3>1, FS_Product
    <3>3. 1 * k = k
      BY <1>1
    <3> QED BY <3>1, <3>2, <3>3
  <2>2. /\ IsFiniteSet(Untold \cup ({u} \X Goals))
        /\ Cardinality(Untold \cup ({u} \X Goals))
              = n + Cardinality({u} \X Goals) - Cardinality(Untold \cap ({u} \X Goals))
    BY <1>3, <2>1, FS_Union
  <2>3. Cardinality(Untold \cap ({u} \X Goals)) \in Nat
    <3>1. Untold \cap ({u} \X Goals) \subseteq Untold
      OBVIOUS
    <3>2. IsFiniteSet(Untold \cap ({u} \X Goals))
      BY <1>3, <3>1, FS_Subset
    <3> QED BY <3>2, FS_CardinalityType
  <2>4. Cardinality(Untold \cup ({u} \X Goals)) \in Nat
        /\ Cardinality(Untold \cup ({u} \X Goals)) <= n + k
    <3>1. Cardinality(Untold \cup ({u} \X Goals)) \in Nat
      BY <2>2, FS_CardinalityType
    <3> HIDE DEF k, n
    <3> QED BY <1>1, <1>3, <2>1, <2>2, <2>3, <3>1
  <2>5. /\ Cardinality(Untold') \in Nat
        /\ Cardinality(Untold') <= Cardinality(Untold \cup ({u} \X Goals))
    BY <1>6, <2>2, FS_Subset, FS_CardinalityType
  <2>6. faults' * k = faults * k + k
    <3>1. faults' = 1 + faults
      BY <1>2, <1>6
    <3> QED BY <1>4, <3>1
  <2>7. Cardinality(Untold') <= faults' * k
    <3> HIDE DEF k, n
    <3> QED BY <1>1, <1>3, <1>4, <2>4, <2>5, <2>6
  <2> QED BY <2>7 DEF UntoldBounded
<1> QED BY <1>5, <1>6 DEF UntoldStep

-----------------------------------------------------------------------------
\* The inductive invariant holds in every reachable state.
THEOREM Invariance == Spec => []IInv
<1>1. Init => GapInv /\ EventsInv /\ UntoldBounded
  <2> SUFFICES ASSUME Init PROVE GapInv /\ EventsInv /\ UntoldBounded
    OBVIOUS
  <2>1. GapInv
    BY DEF Init, GapInv
  <2>2. ASSUME NEW u \in Urls, NEW g \in Goals
        PROVE  insights[u][g] + Due(u, g) <= Runs(u) * Cardinality(RowsOf(Linkable, g))
    <3>1. insights[u][g] = 0 /\ Due(u, g) = 0 /\ Runs(u) = 0
      BY DEF Init, Due, Runs
    <3>2. Cardinality(RowsOf(Linkable, g)) \in Nat
      BY FiniteLinks
    <3>3. 0 * Cardinality(RowsOf(Linkable, g)) = 0
      BY <3>2
    <3> QED BY <3>1, <3>3
  <2>3. UntoldBounded
    <3>1. Untold = {} /\ faults = 0
      BY DEF Init, Untold
    <3>2. 0 * Cardinality(Goals) = 0 /\ Cardinality({}) = 0
      BY FiniteLinks, FS_EmptySet
    <3> QED BY <3>1, <3>2 DEF UntoldBounded
  <2> QED BY <2>1, <2>2, <2>3 DEF EventsInv
<1>2. PagesInv /\ PagesInv' /\ GapInv /\ EventsInv /\ UntoldBounded /\ [Next]_vars
        => GapInv' /\ EventsInv' /\ UntoldBounded'
  BY GapKept, EventsKept, StepUntold, UntoldFits
<1> QED BY <1>1, <1>2, PagesInvariance, PTL DEF Spec, IInv

\* Goals hear of a page neither less nor more often than links, failures and
\* restarts explain.
THEOREM TellingBoundedHolds == Spec => []TellingBounded
<1>1. IInv => TellingBounded
  <2> SUFFICES ASSUME IInv PROVE TellingBounded
    OBVIOUS
  <2>1. ASSUME NEW u \in Urls, NEW g \in Goals
        PROVE  insights[u][g] <= (1 + faults) * Cardinality(RowsOf(Linkable, g))
    <3> DEFINE k == Cardinality(RowsOf(Linkable, g))
    <3>1. /\ insights[u][g] \in Nat /\ Due(u, g) \in Nat /\ Runs(u) \in Nat /\ k \in Nat
      BY EventsAreNumbers DEF IInv
    <3>2. faults \in Nat
      BY EventExtractorAssumption DEF EventExtractorAssumption, IInv, PagesInv, TypeOK
    <3>3. Runs(u) <= 1 + faults /\ 1 + faults \in Nat
      BY <3>2 DEF Runs
    <3>4. /\ Runs(u) * k <= (1 + faults) * k
          /\ Runs(u) * k \in Nat /\ (1 + faults) * k \in Nat
      BY <3>1, <3>3, TimesMonotone
    <3>5. insights[u][g] + Due(u, g) <= Runs(u) * k
      BY DEF IInv, EventsInv
    <3> HIDE DEF k
    <3> QED BY <3>1, <3>4, <3>5 DEF k
  <2>2. EventsBounded
    BY <2>1 DEF EventsBounded, RowsOf
  <2> QED BY <2>2 DEF TellingBounded, IInv
<1> QED BY <1>1, Invariance, PTL
=============================================================================

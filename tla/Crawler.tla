------------------------------- MODULE Crawler -------------------------------
(***************************************************************************)
(* From POST /api/crawl to page-metadata.  The gateway writes one message   *)
(* per URL to crawl-jobs; instances of the producer service read them into  *)
(* a bounded channel, from which a pool of workers takes, crawls and        *)
(* publishes them.                                                         *)
(*                                                                         *)
(* The reader commits a message when it reads it, so what sits in the       *)
(* channel and in the workers is in memory only.  The gateway's writer       *)
(* balances by bytes, not by key; one partition is modelled.               *)
(***************************************************************************)
EXTENDS Naturals, Sequences, FiniteSets

CONSTANTS
    Instances,   \* running copies of the producer service
    FirstOwner,  \* the one the partition is assigned to first
    Nobody,      \* owner of the partition while the group rebalances
    Workers,     \* goroutines of an instance: CONCURRENCY
    Jobs,        \* crawl requests, each posted once
    UrlsOf,      \* the URLs each one lists
    Invalid,     \* URLs without a scheme
    MaxFaults    \* bound on errors, lost writes, crashes and rebalances

Capacity == 2 * Cardinality(Workers)

Parameters ==
    /\ FirstOwner \in Instances /\ Nobody \notin Instances
    /\ IsFiniteSet(Jobs) /\ IsFiniteSet(Workers)
    /\ DOMAIN UrlsOf = Jobs /\ \A j \in Jobs : Len(UrlsOf[j]) \in Nat
    /\ MaxFaults \in Nat
ASSUME CrawlerAssumption == Parameters

VARIABLES
    reply,      \* the answer to each request
    log,        \* the partition of crawl-jobs: [job, n], the nth URL of a job
    owner, committed,  \* the group: who has the partition, its offset
    up,         \* instances that are running
    position,   \* the next offset of each reader
    reading,    \* what each reader is about to do with the offset in hand
    hand,
    jobChan,    \* offsets in each instance's channel
    crawling,   \* the offset each worker has taken, 0 when idle
    published,  \* messages on page-metadata for each offset
    refused,    \* offsets whose URL is invalid or could not be crawled
    faults

vars == <<reply, log, owner, committed, up, position, reading, hand, jobChan,
          crawling, published, refused, faults>>
apiVars == <<reply, log>>
groupVars == <<owner, committed>>
readerVars == <<position, reading, hand>>
workVars == <<jobChan, crawling>>
outVars == <<published, refused>>

Batch(j) == [n \in 1 .. Len(UrlsOf[j]) |-> [job |-> j, n |-> n]]
Url(o) == UrlsOf[log[o].job][log[o].n]
Messages == UNION {{[job |-> j, n |-> n] : n \in 1 .. Len(UrlsOf[j])} : j \in Jobs}
Offsets == 1 .. Cardinality(Messages)
Fault == faults < MaxFaults /\ faults' = faults + 1
Idle == [w \in Workers |-> 0]
-----------------------------------------------------------------------------
Init ==
    /\ reply = [j \in Jobs |-> "none"] /\ log = <<>>
    /\ owner = FirstOwner /\ committed = 1
    /\ up = Instances
    /\ position = [i \in Instances |-> 1]
    /\ reading = [i \in Instances |-> "fetch"]
    /\ hand = [i \in Instances |-> 0]
    /\ jobChan = [i \in Instances |-> <<>>]
    /\ crawling = [i \in Instances |-> Idle]
    /\ published = [o \in Offsets |-> 0] /\ refused = {}
    /\ faults = 0

\* handleCrawl: 202 once the messages are written.  A write that fails or times
\* out may have written some of them; no acknowledgement is asked for, so some
\* may be lost behind a 202 too.
Submit(j) ==
    /\ reply[j] = "none"
    /\ \/ /\ log' = log \o Batch(j)
          /\ reply' = [reply EXCEPT ![j] = "202"]
          /\ UNCHANGED faults
       \/ /\ Fault
          /\ \E n \in 0 .. Len(Batch(j)) : log' = log \o SubSeq(Batch(j), 1, n)
          /\ \E code \in {"202", "500"} : reply' = [reply EXCEPT ![j] = code]
    /\ UNCHANGED up /\ UNCHANGED groupVars /\ UNCHANGED readerVars
    /\ UNCHANGED workVars /\ UNCHANGED outVars

\* Mutant: the same message is handed out again and again.
FetchPeeks(i) ==
    /\ i \in up /\ reading[i] = "fetch" /\ owner = i
    /\ position[i] \in DOMAIN log
    /\ hand' = [hand EXCEPT ![i] = position[i]]
    /\ reading' = [reading EXCEPT ![i] = "commit"]
    /\ UNCHANGED <<up, faults, position>> /\ UNCHANGED apiVars /\ UNCHANGED groupVars
    /\ UNCHANGED workVars /\ UNCHANGED outVars

\* ReadMessage, first half: the next message.
Fetch(i) ==
    /\ i \in up /\ reading[i] = "fetch" /\ owner = i
    /\ position[i] \in DOMAIN log
    /\ hand' = [hand EXCEPT ![i] = position[i]]
    /\ position' = [position EXCEPT ![i] = @ + 1]
    /\ reading' = [reading EXCEPT ![i] = "commit"]
    /\ UNCHANGED <<up, faults>> /\ UNCHANGED apiVars /\ UNCHANGED groupVars
    /\ UNCHANGED workVars /\ UNCHANGED outVars

\* Mutant: everything the broker has sent is committed at once.
CommitReadAll(i) ==
    /\ i \in up /\ reading[i] = "commit" /\ owner = i
    /\ committed' = Len(log) + 1
    /\ reading' = [reading EXCEPT ![i] = "put"]
    /\ UNCHANGED <<owner, up, position, hand, faults>> /\ UNCHANGED apiVars
    /\ UNCHANGED workVars /\ UNCHANGED outVars

\* ReadMessage, second half: its offset is committed.  On an error the loop
\* goes on to the next message.  After a rebalance the commit is refused, or
\* accepted in the name of the new generation.
CommitRead(i) ==
    /\ i \in up /\ reading[i] = "commit"
    /\ \/ /\ committed' = hand[i] + 1
          /\ reading' = [reading EXCEPT ![i] = "put"]
          /\ UNCHANGED faults
       \/ /\ owner # i
          /\ reading' = [reading EXCEPT ![i] = "fetch"]
          /\ UNCHANGED <<committed, faults>>
       \/ /\ Fault
          /\ committed' \in {committed, hand[i] + 1}
          /\ reading' = [reading EXCEPT ![i] = "fetch"]
    /\ UNCHANGED <<owner, up, position, hand>> /\ UNCHANGED apiVars
    /\ UNCHANGED workVars /\ UNCHANGED outVars

\* Mutant: the channel grows as needed.
PutAlways(i) ==
    /\ i \in up /\ reading[i] = "put"
    /\ jobChan' = [jobChan EXCEPT ![i] = Append(@, hand[i])]
    /\ reading' = [reading EXCEPT ![i] = "fetch"]
    /\ UNCHANGED <<up, position, hand, crawling, refused, published, faults>>
    /\ UNCHANGED apiVars /\ UNCHANGED groupVars

\* The payload is checked and put in the channel, which blocks when it is full.
Put(i) ==
    /\ i \in up /\ reading[i] = "put"
    /\ IF Url(hand[i]) \in Invalid
       THEN refused' = refused \cup {hand[i]} /\ UNCHANGED jobChan
       ELSE /\ Len(jobChan[i]) < Capacity
            /\ jobChan' = [jobChan EXCEPT ![i] = Append(@, hand[i])]
            /\ UNCHANGED refused
    /\ reading' = [reading EXCEPT ![i] = "fetch"]
    /\ UNCHANGED <<up, position, hand, crawling, published, faults>>
    /\ UNCHANGED apiVars /\ UNCHANGED groupVars

\* A worker takes the oldest job.
Take(i, w) ==
    /\ i \in up /\ crawling[i][w] = 0 /\ jobChan[i] # <<>>
    /\ crawling' = [crawling EXCEPT ![i][w] = Head(jobChan[i])]
    /\ jobChan' = [jobChan EXCEPT ![i] = Tail(@)]
    /\ UNCHANGED <<up, faults>> /\ UNCHANGED apiVars /\ UNCHANGED groupVars
    /\ UNCHANGED readerVars /\ UNCHANGED outVars

Release(i, w) == crawling' = [crawling EXCEPT ![i][w] = 0]

\* Mutant: a page that cannot be crawled ends the worker.
CrawlEnds(i, w) ==
    /\ i \in up /\ crawling[i][w] # 0 /\ crawling[i][w] \notin refused
    /\ \/ /\ published' = [published EXCEPT ![crawling[i][w]] = @ + 1]
          /\ Release(i, w) /\ UNCHANGED refused
       \/ /\ refused' = refused \cup {crawling[i][w]}
          /\ UNCHANGED <<published, crawling>>
    /\ UNCHANGED <<up, jobChan, faults>>
    /\ UNCHANGED apiVars /\ UNCHANGED groupVars /\ UNCHANGED readerVars

\* The worker crawls the page and publishes its metadata.  A page that cannot
\* be fetched is only logged; so is a failed write, which the client library
\* may also have repeated.
Crawl(i, w) ==
    /\ i \in up /\ crawling[i][w] # 0
    /\ LET o == crawling[i][w] IN
          \/ /\ published' = [published EXCEPT ![o] = @ + 1]
             /\ UNCHANGED <<refused, faults>>
          \/ /\ refused' = refused \cup {o}
             /\ UNCHANGED <<published, faults>>
          \/ /\ Fault
             /\ \E n \in {0, 2} : published' = [published EXCEPT ![o] = @ + n]
             /\ UNCHANGED refused
    /\ Release(i, w)
    /\ UNCHANGED <<up, jobChan>>
    /\ UNCHANGED apiVars /\ UNCHANGED groupVars /\ UNCHANGED readerVars

\* The process is stopped: what it held in memory is gone.
Crash(i) ==
    /\ i \in up /\ Fault
    /\ up' = up \ {i}
    /\ owner' = IF owner = i THEN Nobody ELSE owner
    /\ reading' = [reading EXCEPT ![i] = "fetch"]
    /\ hand' = [hand EXCEPT ![i] = 0]
    /\ jobChan' = [jobChan EXCEPT ![i] = <<>>]
    /\ crawling' = [crawling EXCEPT ![i] = Idle]
    /\ UNCHANGED <<committed, position>> /\ UNCHANGED apiVars /\ UNCHANGED outVars

\* The scheduler starts it again.
Restart(i) ==
    /\ i \notin up /\ up' = up \cup {i}
    /\ UNCHANGED faults /\ UNCHANGED apiVars /\ UNCHANGED groupVars
    /\ UNCHANGED readerVars /\ UNCHANGED workVars /\ UNCHANGED outVars

\* The group takes the partition away and gives it to a running instance, from
\* the committed offset.
Revoke ==
    /\ owner # Nobody /\ Fault
    /\ owner' = Nobody
    /\ UNCHANGED <<committed, up>> /\ UNCHANGED apiVars /\ UNCHANGED readerVars
    /\ UNCHANGED workVars /\ UNCHANGED outVars
Assign(i) ==
    /\ owner = Nobody /\ i \in up
    /\ owner' = i
    /\ position' = [position EXCEPT ![i] = committed]
    /\ UNCHANGED <<committed, up, reading, hand, faults>>
    /\ UNCHANGED apiVars /\ UNCHANGED workVars /\ UNCHANGED outVars
-----------------------------------------------------------------------------
Reader(i) == Fetch(i) \/ CommitRead(i) \/ Put(i)
Worker(i, w) == Take(i, w) \/ Crawl(i, w)
Recover(i) == Restart(i) \/ Assign(i)

Next == \/ \E j \in Jobs : Submit(j)
        \/ \E i \in Instances : \/ Reader(i) \/ Recover(i) \/ Crash(i)
                                \/ \E w \in Workers : Worker(i, w)
        \/ Revoke

Spec == Init /\ [][Next]_vars

\* Goroutines run, stopped tasks are replaced, the group assigns the partition.
FairSpec ==
    /\ Spec
    /\ \A i \in Instances : /\ WF_vars(Reader(i)) /\ WF_vars(Recover(i))
                            /\ \A w \in Workers : WF_vars(Worker(i, w))
-----------------------------------------------------------------------------
(* What crawling must guarantee. *)

\* Every variable has its type; the channel keeps within its capacity.
TypeOK ==
    /\ reply \in [Jobs -> {"none", "202", "500"}]
    /\ log \in Seq(Messages) /\ Len(log) <= Cardinality(Messages)
    /\ owner \in Instances \cup {Nobody}
    /\ committed \in 1 .. (Len(log) + 1)
    /\ up \subseteq Instances
    /\ position \in [Instances -> 1 .. (Len(log) + 1)]
    /\ reading \in [Instances -> {"fetch", "commit", "put"}]
    /\ hand \in [Instances -> 0 .. Len(log)]
    /\ jobChan \in [Instances -> Seq(DOMAIN log)]
    /\ \A i \in Instances : Len(jobChan[i]) <= Capacity
    /\ crawling \in [Instances -> [Workers -> 0 .. Len(log)]]
    /\ published \in [Offsets -> Nat] /\ refused \subseteq DOMAIN log
    /\ faults \in 0 .. MaxFaults

\* A failure loses no more than one instance can hold: its channel, its workers
\* and the reader's hand; or it cuts one request short, which got a 202 although
\* not all of its URLs were written.  Lost is what a 202 accepted, was written and
\* no one will publish.
InMemory(i) == {jobChan[i][n] : n \in DOMAIN jobChan[i]} \cup {crawling[i][w] : w \in Workers}
Held(i) == InMemory(i) \cup IF reading[i] = "fetch" THEN {} ELSE {hand[i]}
Pending(o) == o >= committed \/ \E i \in Instances : o \in Held(i)
Served(o) == published[o] > 0 \/ o \in refused
Written == {log[o] : o \in DOMAIN log}
Lost == {m \in Written : reply[m.job] = "202" /\
            \A o \in DOMAIN log : log[o] = m => ~Pending(o) /\ ~Served(o)}
CutShort == {j \in Jobs : /\ reply[j] = "202"
                          /\ \E n \in 1 .. Len(UrlsOf[j]) : [job |-> j, n |-> n] \notin Written}
Holds == Capacity + Cardinality(Workers) + 1
LossBounded == Cardinality(Lost) + Cardinality(CutShort) * Holds <= faults * Holds

\* A message is published once, and once more at most for each failure or
\* rebalance: nothing is crawled again for another reason.
PublishedBounded == \A o \in Offsets : published[o] <= 1 + faults

\* What a failure may cost a client: what one instance holds is lost, the rest of
\* one request is never crawled, or a page is published once more.
DeliveryBounded == LossBounded /\ PublishedBounded

\* The partition is read to its end and the workers fall idle.
Quiet == /\ owner # Nobody /\ position[owner] = Len(log) + 1
         /\ \A i \in Instances : Held(i) \subseteq {0}
EventuallyQuiet == <>[]Quiet
-----------------------------------------------------------------------------
(* The inductive invariant behind TypeOK and DeliveryBounded. *)

\* A message is written once, by its own request.
LogInv ==
    /\ \A o, q \in DOMAIN log : log[o] = log[q] => o = q
    /\ \A o \in DOMAIN log : reply[log[o].job] # "none"

\* A reader that goes on from a message has one.
HandInv == \A i \in Instances : reading[i] # "fetch" => hand[i] \in DOMAIN log

\* Where a copy of o is: a place in a channel, a worker, a reader's hand.  It has
\* been published, or is in one of these, or may be handed out: each of these once,
\* and once more for each failure.  While nobody owns the partition its offset can
\* still go back, so any message may be handed out next.
Copies(o) ==
    {p \in Instances \X {"channel"} \X (1 .. Capacity) :
        p[3] \in DOMAIN jobChan[p[1]] /\ jobChan[p[1]][p[3]] = o}
    \cup {p \in Instances \X {"worker"} \X Workers : crawling[p[1]][p[3]] = o}
    \cup {p \in Instances \X {"hand"} \X {0} : reading[p[1]] # "fetch" /\ hand[p[1]] = o}
ToHandOut(o) == IF owner = Nobody \/ position[owner] <= o THEN 1 ELSE 0
CopiesInv ==
    \A o \in Offsets :
        /\ IsFiniteSet(Copies(o))
        /\ published[o] + Cardinality(Copies(o)) + ToHandOut(o) <= 1 + faults

\* What an instance will publish unless something fails.  A commit that comes too
\* late may be refused, and its message is then nobody's.
Safe(i) == InMemory(i) \cup
           IF reading[i] = "put" \/ (reading[i] = "commit" /\ owner = i) THEN {hand[i]} ELSE {}

\* Of all messages up to the last one ever handed out, those that are neither
\* served nor safe are owed to failures.  Offsets move within these messages, so
\* whatever is skipped later was at risk before.
AtRisk(top) == {o \in 1 .. top : ~Served(o) /\ \A i \in Instances : o \notin Safe(i)}
RiskInv ==
    /\ IsFiniteSet(CutShort)
    /\ \E top \in 0 .. Len(log) :
          /\ committed <= top + 1
          /\ \A i \in Instances : position[i] <= top + 1 /\ hand[i] <= top
          /\ Cardinality(AtRisk(top)) + Cardinality(CutShort) * Holds <= faults * Holds

IInv == TypeOK /\ LogInv /\ HandInv /\ CopiesInv /\ RiskInv
=============================================================================

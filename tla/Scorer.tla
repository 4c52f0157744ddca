------------------------------- MODULE Scorer -------------------------------
(***************************************************************************)
(* The consumer service: instances of one group read page-metadata, score   *)
(* each page, upsert it in PostgreSQL, remember the URL in Redis for five   *)
(* minutes and forward the page to analysis-results.                        *)
(*                                                                         *)
(* Pages of one domain share a partition (the crawler's writer hashes the   *)
(* domain), so one partition is modelled: it is where two instances meet.   *)
(* Offsets are committed in the background, up to the last message handed   *)
(* out, whether or not it has been processed.                               *)
(***************************************************************************)
EXTENDS Naturals, Sequences, FiniteSets

CONSTANTS
    Instances,   \* running copies of the service
    FirstOwner,  \* the one the partition is assigned to first
    Nobody,      \* owner of the partition while the group rebalances
    Pages,       \* the partition: the URL of each message, in order
    MaxFaults    \* bound on errors, kills and rebalances

Urls == {Pages[o] : o \in DOMAIN Pages}
Offsets == DOMAIN Pages

ASSUME ScorerAssumption ==
    /\ FirstOwner \in Instances /\ Nobody \notin Instances
    /\ Pages \in Seq(Urls)
    /\ MaxFaults \in Nat

VARIABLES
    owner,      \* who has the partition
    committed,  \* the group's committed offset
    position,   \* the next offset each instance will be handed
    pc,         \* the step of the loop each instance is at
    msg,        \* the offset it is working on
    stored,     \* URLs with a row in pages
    cached,     \* URLs whose Redis key has not expired
    results,    \* offsets forwarded to analysis-results, with repetitions
    faults

vars == <<owner, committed, position, pc, msg, stored, cached, results, faults>>
groupVars == <<owner, committed, position>>

UrlOf(w) == Pages[msg[w]]
Goto(w, l) == pc' = [pc EXCEPT ![w] = l]
Fault == faults < MaxFaults /\ faults' = faults + 1
-----------------------------------------------------------------------------
Init ==
    /\ owner = FirstOwner
    /\ committed = 1
    /\ position = [w \in Instances |-> 1]
    /\ pc = [w \in Instances |-> "poll"]
    /\ msg = [w \in Instances |-> 0]
    /\ stored = {} /\ cached = {}
    /\ results = [o \in Offsets |-> 0]
    /\ faults = 0

\* Mutant: the next message waits for a commit that nothing makes happen.
PollAfterCommit(w) ==
    /\ pc[w] = "poll" /\ owner = w /\ position[w] \in Offsets
    /\ committed = position[w]
    /\ msg' = [msg EXCEPT ![w] = position[w]]
    /\ position' = [position EXCEPT ![w] = @ + 1]
    /\ Goto(w, "check")
    /\ UNCHANGED <<owner, committed, stored, cached, results, faults>>

\* Mutant: the message is read without moving on.
PollPeeks(w) ==
    /\ pc[w] = "poll" /\ owner = w /\ position[w] \in Offsets
    /\ msg' = [msg EXCEPT ![w] = position[w]]
    /\ Goto(w, "check")
    /\ UNCHANGED <<owner, committed, position, stored, cached, results, faults>>

Poll(w) ==
    /\ pc[w] = "poll" /\ owner = w /\ position[w] \in Offsets
    /\ msg' = [msg EXCEPT ![w] = position[w]]
    /\ position' = [position EXCEPT ![w] = @ + 1]
    /\ Goto(w, "check")
    /\ UNCHANGED <<owner, committed, stored, cached, results, faults>>

\* Mutant: the URL is claimed in the cache as soon as it is not found there.
CheckClaims(w) ==
    /\ pc[w] = "check"
    /\ cached' = cached \cup {UrlOf(w)}
    /\ Goto(w, IF UrlOf(w) \in cached THEN "poll" ELSE "insert")
    /\ UNCHANGED <<msg, stored, results, faults>> /\ UNCHANGED groupVars

\* Cache-aside: a URL whose key is in Redis is skipped, whatever job asked.
Check(w) ==
    /\ pc[w] = "check"
    /\ Goto(w, IF UrlOf(w) \in cached THEN "poll" ELSE "insert")
    /\ UNCHANGED <<msg, stored, cached, results, faults>> /\ UNCHANGED groupVars

\* insert_page: an upsert by URL, committed before it returns.
Insert(w) ==
    /\ pc[w] = "insert"
    /\ stored' = stored \cup {UrlOf(w)}
    /\ Goto(w, "cache")
    /\ UNCHANGED <<msg, cached, results, faults>> /\ UNCHANGED groupVars

\* Mutant: the key is made from the domain, which all these pages share.
SetCacheByDomain(w) ==
    /\ pc[w] = "cache"
    /\ cached' = Urls
    /\ Goto(w, "send")
    /\ UNCHANGED <<msg, stored, results, faults>> /\ UNCHANGED groupVars

SetCache(w) ==
    /\ pc[w] = "cache"
    /\ cached' = cached \cup {UrlOf(w)}
    /\ Goto(w, "send")
    /\ UNCHANGED <<msg, stored, results, faults>> /\ UNCHANGED groupVars

\* produce and flush: no delivery callback, so a message the client library
\* gives up on is lost without an error.
Send(w) ==
    /\ pc[w] = "send"
    /\ \/ results' = [results EXCEPT ![msg[w]] = @ + 1] /\ UNCHANGED faults
       \/ Fault /\ UNCHANGED results
    /\ Goto(w, "poll")
    /\ UNCHANGED <<msg, stored, cached>> /\ UNCHANGED groupVars

\* The client's background commit.
AutoCommit(w) ==
    /\ owner = w /\ pc[w] # "down" /\ committed # position[w]
    /\ committed' = position[w]
    /\ UNCHANGED <<owner, position, pc, msg, stored, cached, results, faults>>

Release(w) == owner' = IF owner = w THEN Nobody ELSE owner

\* A Redis or PostgreSQL error ends the loop.  The finally clause closes the
\* consumer, which commits the message in hand; a broken insert or setex may
\* have taken effect.
Fail(w) ==
    /\ pc[w] \in {"check", "insert", "cache"}
    /\ Fault
    /\ committed' = IF owner = w THEN position[w] ELSE committed
    /\ stored' \in {stored} \cup
           (IF pc[w] = "insert" THEN {stored \cup {UrlOf(w)}} ELSE {})
    /\ cached' \in {cached} \cup
           (IF pc[w] = "cache" THEN {cached \cup {UrlOf(w)}} ELSE {})
    /\ Release(w)
    /\ Goto(w, "down")
    /\ UNCHANGED <<position, msg, results>>

\* The task is stopped: SIGTERM is not handled, nothing is closed.
Kill(w) ==
    /\ pc[w] # "down"
    /\ Fault
    /\ Release(w)
    /\ Goto(w, "down")
    /\ UNCHANGED <<committed, position, msg, stored, cached, results>>

\* The scheduler starts a new task in its place.
Start(w) ==
    /\ pc[w] = "down"
    /\ Goto(w, "poll")
    /\ UNCHANGED <<msg, stored, cached, results, faults>> /\ UNCHANGED groupVars

\* Mutant: reading resumes one past the committed offset.
AssignPastCommitted(w) ==
    /\ pc[w] # "down" /\ owner = Nobody
    /\ owner' = w
    /\ position' = [position EXCEPT ![w] = committed + 1]
    /\ UNCHANGED <<committed, pc, msg, stored, cached, results, faults>>

\* The group gives the partition to a live instance, from the committed offset.
Assign(w) ==
    /\ pc[w] # "down" /\ owner = Nobody
    /\ owner' = w
    /\ position' = [position EXCEPT ![w] = committed]
    /\ UNCHANGED <<committed, pc, msg, stored, cached, results, faults>>

\* An instance joins or is too slow: the partition is taken from its owner,
\* who may or may not get its position committed first.
Revoke ==
    /\ owner # Nobody /\ Fault
    /\ owner' = Nobody
    /\ committed' \in {committed, position[owner]}
    /\ UNCHANGED <<position, pc, msg, stored, cached, results>>

\* The key's time to live (300 s) runs out.
Expire(u) ==
    /\ u \in cached
    /\ cached' = cached \ {u}
    /\ UNCHANGED <<pc, msg, stored, results, faults>> /\ UNCHANGED groupVars
-----------------------------------------------------------------------------
Loop(w) == Poll(w) \/ Check(w) \/ Insert(w) \/ SetCache(w) \/ Send(w)
Recover(w) == Start(w) \/ Assign(w)

Next == \/ \E w \in Instances : \/ Loop(w) \/ AutoCommit(w) \/ Recover(w)
                                \/ Fail(w) \/ Kill(w)
        \/ Revoke
        \/ \E u \in Urls : Expire(u)

Spec == Init /\ [][Next]_vars

\* A live instance keeps polling; stopped tasks are replaced and the group
\* assigns the partition.
FairSpec == Spec /\ \A w \in Instances : WF_vars(Loop(w)) /\ WF_vars(Recover(w))
-----------------------------------------------------------------------------
(* What the service must guarantee. *)

\* Every variable has its type.
TypeOK ==
    /\ owner \in Instances \cup {Nobody}
    /\ committed \in 1 .. (Len(Pages) + 1)
    /\ position \in [Instances -> 1 .. (Len(Pages) + 1)]
    /\ pc \in [Instances -> {"poll", "check", "insert", "cache", "send", "down"}]
    /\ msg \in [Instances -> 0 .. Len(Pages)]
    /\ \A w \in Instances : pc[w] \notin {"poll", "down"} => msg[w] \in Offsets
    /\ stored \subseteq Urls /\ cached \subseteq Urls
    /\ results \in [Offsets -> Nat]
    /\ faults \in 0 .. MaxFaults

\* A cache hit never hides a page that is not in PostgreSQL.
CachedIsStored == cached \subseteq stored

\* A page is lost only to a failure, and each failure loses one page at most:
\* the others that were consumed are forwarded or still in hand.
Forwarded(u) == \E o \in Offsets : Pages[o] = u /\ results[o] > 0
InHand(u) == \E w \in Instances : pc[w] \notin {"poll", "down"} /\ UrlOf(w) = u
Lost == {u \in Urls : /\ \E o \in Offsets : Pages[o] = u /\ o < committed
                      /\ ~Forwarded(u) /\ ~InHand(u)}
LossBounded == Cardinality(Lost) <= faults

\* A message is forwarded at most once more for every failure.
ForwardsBounded == \A o \in Offsets : results[o] <= 1 + faults

\* What a failure may cost downstream: one page lost, or a message sent once more.
DeliveryBounded == LossBounded /\ ForwardsBounded

\* The partition is drained, however instances come and go.
Drained == /\ owner # Nobody /\ position[owner] = Len(Pages) + 1
           /\ \A w \in Instances : pc[w] = "poll"
EventuallyDrained == <>[]Drained
-----------------------------------------------------------------------------
(* The inductive invariant behind CachedIsStored and DeliveryBounded. *)

\* What is about to be cached is stored.
CacheInv ==
    /\ CachedIsStored
    /\ \A w \in Instances : pc[w] = "cache" => UrlOf(w) \in stored

\* Every page that may still end up lost is owed to a failure: it was consumed and
\* is in nobody's hands, or its key is in Redis and nobody is about to forward it,
\* so that whoever reads it next will skip it.
Consumed(u) ==
    \E o \in Offsets : /\ Pages[o] = u
                       /\ o < committed \/ (owner # Nobody /\ o < position[owner])
AboutToSend(u) == \E w \in Instances : pc[w] = "send" /\ UrlOf(w) = u
Missed == {u \in Urls : /\ ~Forwarded(u)
                        /\ \/ u \in cached /\ ~AboutToSend(u)
                           \/ Consumed(u) /\ ~InHand(u)}
LossInv == IsFiniteSet(Missed) /\ Cardinality(Missed) <= faults

\* A message has been forwarded, or is held by an instance, or is still to be
\* handed out: each of these once, and once more for each failure.
Holders(o) == {w \in Instances : pc[w] \notin {"poll", "down"} /\ msg[w] = o}
ToHandOut(o) == IF owner = Nobody THEN committed <= o ELSE position[owner] <= o
ForwardInv ==
    \A o \in Offsets :
        /\ IsFiniteSet(Holders(o))
        /\ results[o] + Cardinality(Holders(o)) + (IF ToHandOut(o) THEN 1 ELSE 0)
              <= 1 + faults

IInv == TypeOK /\ CacheInv /\ LossInv /\ ForwardInv
=============================================================================

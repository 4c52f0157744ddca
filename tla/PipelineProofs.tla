--------------------------- MODULE PipelineProofs ---------------------------
(***************************************************************************)
(* Proofs about the two ends of the page-metadata topic: Scorer, which      *)
(* reads it, and Crawler, which writes it, for any partition, any requests, *)
(* any number of instances and workers and any bound on failures.          *)
(*                                                                         *)
(* The two services have state of the same names (who owns a partition, the *)
(* committed offset, the offset each reader is at).  Crawler is an          *)
(* instance, C, with these names in common with Scorer and its other        *)
(* variables declared here.  Each theorem is about one specification and    *)
(* says nothing of the other's variables.                                   *)
(***************************************************************************)
EXTENDS Scorer, FiniteSetTheorems, TLAPS

-----------------------------------------------------------------------------
\* A set that gains one element at most has room in a bound that grows by one.
LEMMA Charged ==
    ASSUME NEW S, IsFiniteSet(S), NEW n \in Nat, Cardinality(S) <= n,
           NEW x, NEW T, T \subseteq S \cup {x}
    PROVE  IsFiniteSet(T) /\ Cardinality(T) <= n + 1
<1>0. Cardinality(S) \in Nat
  BY FS_CardinalityType
<1>1. /\ IsFiniteSet(S \cup {x})
      /\ Cardinality(S \cup {x})
            = IF x \in S THEN Cardinality(S) ELSE Cardinality(S) + 1
  BY FS_AddElement
<1>2. IsFiniteSet(T) /\ Cardinality(T) <= Cardinality(S \cup {x})
  BY <1>1, FS_Subset
<1>3. Cardinality(T) \in Nat /\ Cardinality(S \cup {x}) \in Nat
  BY <1>1, <1>2, FS_CardinalityType
<1> QED BY <1>0, <1>1, <1>2, <1>3

\* A set that gains nothing stays within its bound.
LEMMA Uncharged ==
    ASSUME NEW S, IsFiniteSet(S), NEW n \in Nat, Cardinality(S) <= n,
           NEW T, T \subseteq S
    PROVE  IsFiniteSet(T) /\ Cardinality(T) <= n
<1>1. IsFiniteSet(T) /\ Cardinality(T) <= Cardinality(S)
  BY FS_Subset
<1>2. Cardinality(S) \in Nat /\ Cardinality(T) \in Nat
  BY <1>1, FS_CardinalityType
<1> QED BY <1>1, <1>2

\* Offsets are the indices of the partition, and each holds a URL.
LEMMA OffsetsAreNumbers ==
    /\ Len(Pages) \in Nat /\ Offsets = 1 .. Len(Pages)
    /\ \A o \in Offsets : o \in Nat /\ Pages[o] \in Urls
BY ScorerAssumption DEF ScorerAssumption, Offsets, Urls

-----------------------------------------------------------------------------
\* One iteration of an instance's loop, statement by statement, keeps the types.
LEMMA LoopType ==
    ASSUME TypeOK, NEW w \in Instances, Loop(w)
    PROVE  TypeOK'
<1> USE OffsetsAreNumbers, ScorerAssumption DEF ScorerAssumption, TypeOK, groupVars, Goto
<1>1. CASE Poll(w)
  <2>1. position[w] \in Offsets /\ position' = [position EXCEPT ![w] = position[w] + 1]
    BY <1>1 DEF Poll
  <2>2. position' \in [Instances -> 1 .. (Len(Pages) + 1)]
    BY <2>1
  <2>3. msg' = [msg EXCEPT ![w] = position[w]]
    BY <1>1 DEF Poll
  <2>4. \A v \in Instances : pc'[v] \notin {"poll", "down"} => msg'[v] \in Offsets
    BY <1>1, <2>1, <2>3 DEF Poll
  <2> QED BY <1>1, <2>2, <2>4 DEF Poll
<1>2. CASE Check(w)
  BY <1>2 DEF Check
<1>3. CASE Insert(w)
  BY <1>3 DEF Insert, UrlOf
<1>4. CASE SetCache(w)
  BY <1>4 DEF SetCache, UrlOf
<1>5. CASE Send(w)
  <2>1. msg[w] \in Offsets
    BY <1>5 DEF Send
  <2>2. faults' \in 0 .. MaxFaults
    BY <1>5 DEF Send, Fault
  <2>3. results' \in {results, [results EXCEPT ![msg[w]] = results[msg[w]] + 1]}
    BY <1>5 DEF Send
  <2>4. results' \in [Offsets -> Nat]
    BY <2>1, <2>3
  <2> QED BY <1>5, <2>2, <2>4 DEF Send
<1> QED BY <1>1, <1>2, <1>3, <1>4, <1>5 DEF Loop

\* Every variable keeps its type, whatever instances, the group and Redis do.
THEOREM TypeCorrect == Spec => []TypeOK
<1> USE OffsetsAreNumbers, ScorerAssumption DEF ScorerAssumption
<1>1. Init => TypeOK
  BY DEF Init, TypeOK
<1>2. TypeOK /\ [Next]_vars => TypeOK'
  <2> SUFFICES ASSUME TypeOK, [Next]_vars PROVE TypeOK'
    OBVIOUS
  <2> USE DEF TypeOK, groupVars, Goto, Fault, Release
  <2>1. ASSUME NEW w \in Instances, Loop(w) PROVE TypeOK'
    BY <2>1, LoopType
  <2>2. ASSUME NEW w \in Instances, AutoCommit(w) PROVE TypeOK'
    BY <2>2 DEF AutoCommit
  <2>3. ASSUME NEW w \in Instances, Recover(w) PROVE TypeOK'
    BY <2>3 DEF Recover, Start, Assign
  <2>4. ASSUME NEW w \in Instances, Fail(w) PROVE TypeOK'
    <3>1. UrlOf(w) \in Urls
      BY <2>4 DEF Fail, UrlOf
    <3>2. stored' \subseteq Urls /\ cached' \subseteq Urls
      BY <2>4, <3>1 DEF Fail
    <3>3. committed' \in 1 .. (Len(Pages) + 1) /\ owner' \in Instances \cup {Nobody}
      BY <2>4 DEF Fail
    <3> QED BY <2>4, <3>2, <3>3 DEF Fail
  <2>5. ASSUME NEW w \in Instances, Kill(w) PROVE TypeOK'
    BY <2>5 DEF Kill
  <2>6. CASE Revoke
    BY <2>6 DEF Revoke
  <2>7. ASSUME NEW u \in Urls, Expire(u) PROVE TypeOK'
    BY <2>7 DEF Expire
  <2>8. CASE UNCHANGED vars
    BY <2>8 DEF vars
  <2> QED BY <2>1, <2>2, <2>3, <2>4, <2>5, <2>6, <2>7, <2>8 DEF Next
<1> QED BY <1>1, <1>2, PTL DEF Spec
-----------------------------------------------------------------------------
\* The upsert comes before the cache entry, so a key never outruns its row.
LEMMA CacheKept ==
    ASSUME TypeOK, CacheInv, [Next]_vars
    PROVE  CacheInv'
<1> USE DEF TypeOK, CacheInv, CachedIsStored, UrlOf, groupVars, Goto
<1>1. ASSUME NEW w \in Instances, Poll(w) \/ Check(w) \/ Send(w) PROVE CacheInv'
  BY <1>1 DEF Poll, Check, Send
<1>2. ASSUME NEW w \in Instances, Insert(w) PROVE CacheInv'
  BY <1>2 DEF Insert
<1>3. ASSUME NEW w \in Instances, SetCache(w) PROVE CacheInv'
  BY <1>3 DEF SetCache
<1>4. ASSUME NEW w \in Instances, AutoCommit(w) \/ Recover(w) \/ Kill(w) PROVE CacheInv'
  BY <1>4 DEF AutoCommit, Recover, Start, Assign, Kill
<1>5. ASSUME NEW w \in Instances, Fail(w) PROVE CacheInv'
  <2>1. stored \subseteq stored' /\ cached' \subseteq stored
    BY <1>5 DEF Fail
  <2>2. \A v \in Instances : pc'[v] = "cache" => pc[v] = "cache" /\ msg'[v] = msg[v]
    BY <1>5 DEF Fail
  <2> QED BY <2>1, <2>2
<1>6. CASE Revoke
  BY <1>6 DEF Revoke
<1>7. ASSUME NEW u \in Urls, Expire(u) PROVE CacheInv'
  BY <1>7 DEF Expire
<1>8. CASE UNCHANGED vars
  BY <1>8 DEF vars
<1> QED BY <1>1, <1>2, <1>3, <1>4, <1>5, <1>6, <1>7, <1>8 DEF Next, Loop

-----------------------------------------------------------------------------
\* What an instance leaves alone when it changes only its own step: every page in
\* hand stays in hand and every page about to be sent stays so, but its own.
LEMMA OthersHold ==
    ASSUME TypeOK, NEW w \in Instances, msg' = msg,
           NEW l, pc' = [pc EXCEPT ![w] = l], NEW u \in Urls, u # UrlOf(w)
    PROVE  /\ InHand(u) => InHand(u)'
           /\ AboutToSend(u) => AboutToSend(u)'
<1>1. \A v \in Instances : v # w => pc'[v] = pc[v] /\ UrlOf(v)' = UrlOf(v)
  BY DEF TypeOK, UrlOf
<1>2. \A v \in Instances : UrlOf(v) = u => v # w
  OBVIOUS
<1> QED BY <1>1, <1>2 DEF InHand, AboutToSend

\* Handing out a message puts its page in hand.
LEMMA PollCharges ==
    ASSUME TypeOK, NEW w \in Instances, Poll(w)
    PROVE  Missed' \subseteq Missed
<1>1. /\ position[w] \in Offsets /\ owner = w /\ pc[w] = "poll"
      /\ position' = [position EXCEPT ![w] = position[w] + 1]
      /\ msg' = [msg EXCEPT ![w] = position[w]] /\ pc' = [pc EXCEPT ![w] = "check"]
      /\ UNCHANGED <<owner, committed, cached, results>>
  BY DEF Poll, Goto
<1>2. \A v \in Instances : v # w => pc'[v] = pc[v] /\ msg'[v] = msg[v]
  BY <1>1 DEF TypeOK
<1>3. pc'[w] = "check" /\ msg'[w] = position[w] /\ position'[w] = position[w] + 1
  BY <1>1 DEF TypeOK
<1> SUFFICES ASSUME NEW u \in Missed' PROVE u \in Missed
  OBVIOUS
<1>4. u \in Urls /\ (Forwarded(u) => Forwarded(u)')
  BY <1>1 DEF Missed, Forwarded
<1>5. (InHand(u) => InHand(u)') /\ (AboutToSend(u) => AboutToSend(u)')
  BY <1>1, <1>2 DEF InHand, AboutToSend, UrlOf
<1>6. Consumed(u)' => Consumed(u) \/ u = Pages[position[w]]
  BY <1>1, <1>3, OffsetsAreNumbers DEF Consumed, TypeOK
<1>7. u = Pages[position[w]] => InHand(u)'
  BY <1>3 DEF InHand, UrlOf
<1> QED BY <1>1, <1>4, <1>5, <1>6, <1>7 DEF Missed

\* An instance that takes a step of its own concerns the page it has in hand only.
LEMMA OnlyOwnPage ==
    ASSUME TypeOK, NEW w \in Instances, msg' = msg,
           NEW l, pc' = [pc EXCEPT ![w] = l],
           \A u \in Urls : Forwarded(u) => Forwarded(u)',
           \A u \in Urls : Consumed(u)' => Consumed(u),
           cached' \subseteq cached \cup {UrlOf(w)}
    PROVE  Missed' \subseteq Missed \cup {UrlOf(w)}
<1> SUFFICES ASSUME NEW u \in Missed', u # UrlOf(w) PROVE u \in Missed
  OBVIOUS
<1>1. u \in Urls
  BY DEF Missed
<1>2. (InHand(u) => InHand(u)') /\ (AboutToSend(u) => AboutToSend(u)')
  BY <1>1, OthersHold
<1> QED BY <1>1, <1>2 DEF Missed

\* No statement of the loop loses a page, unless the send fails in silence.
LEMMA LoopCharges ==
    ASSUME TypeOK, NEW w \in Instances, Loop(w), ~Poll(w)
    PROVE  \/ Missed' \subseteq Missed /\ faults' = faults
           \/ Missed' \subseteq Missed \cup {UrlOf(w)} /\ faults' = faults + 1
<1>1. /\ UNCHANGED <<owner, committed, position, msg>>
      /\ \E l : pc' = [pc EXCEPT ![w] = l]
      /\ cached' \subseteq cached \cup {UrlOf(w)}
  BY DEF Loop, Check, Insert, SetCache, Send, groupVars, Goto
<1>2. \A u \in Urls : Forwarded(u) => Forwarded(u)'
  <2>1. CASE results' = results
    BY <2>1 DEF Forwarded
  <2>2. CASE Send(w) /\ results' # results
    <3>1. results' = [results EXCEPT ![msg[w]] = results[msg[w]] + 1]
      BY <2>2 DEF Send
    <3>2. \A o \in Offsets : results[o] > 0 => results'[o] > 0
      BY <3>1 DEF TypeOK
    <3> QED BY <3>2 DEF Forwarded
  <2> QED BY <2>1, <2>2 DEF Loop, Check, Insert, SetCache
<1>3. \A u \in Urls : Consumed(u)' <=> Consumed(u)
  BY <1>1 DEF Consumed
<1>4. Missed' \subseteq Missed \cup {UrlOf(w)}
  BY <1>1, <1>2, <1>3, OnlyOwnPage
<1>0. PICK u : u = UrlOf(w)
  OBVIOUS
<1>5. UrlOf(w)' = u
  BY <1>0, <1>1 DEF UrlOf
<1>6. CASE Check(w)
  <2>1. pc[w] = "check" /\ UNCHANGED <<cached, faults, results>>
    BY <1>6 DEF Check
  <2>2. u \notin cached => InHand(u)'
    BY <1>0, <1>5, <1>6 DEF Check, Goto, InHand, TypeOK
  <2>3. /\ InHand(u)
        /\ AboutToSend(u) => AboutToSend(u)' /\ InHand(u)'
    BY <1>0, <1>1, <2>1 DEF InHand, AboutToSend, TypeOK, UrlOf
  <2>4. u \in Missed' => u \in Missed
    BY <1>2, <1>3, <2>1, <2>2, <2>3 DEF Missed
  <2> QED BY <1>0, <1>4, <2>1, <2>4
<1>7. CASE Insert(w) \/ SetCache(w)
  <2>1. /\ pc'[w] \in {"cache", "send"} /\ UNCHANGED faults
        /\ cached' = cached \/ pc'[w] = "send"
    BY <1>7 DEF Insert, SetCache, Goto, TypeOK
  <2>2. InHand(u)'
    BY <1>5, <2>1 DEF InHand
  <2>3. pc'[w] = "send" => AboutToSend(u)'
    BY <1>5 DEF AboutToSend
  <2>4. pc[w] # "send" /\ (AboutToSend(u) => AboutToSend(u)')
    BY <1>0, <1>1, <1>7 DEF Insert, SetCache, AboutToSend, TypeOK, UrlOf
  <2>5. u \in Missed' => u \in Missed
    BY <1>2, <1>3, <2>1, <2>2, <2>3, <2>4 DEF Missed
  <2> QED BY <1>0, <1>4, <2>1, <2>5
<1>8. CASE Send(w)
  <2>1. msg[w] \in Offsets
    BY <1>8 DEF Send, TypeOK
  <2>2. CASE results' = [results EXCEPT ![msg[w]] = results[msg[w]] + 1]
    <3>1. results'[msg[w]] > 0
      BY <2>1, <2>2 DEF TypeOK
    <3>2. Forwarded(u)'
      BY <1>0, <2>1, <3>1 DEF Forwarded, UrlOf
    <3>3. u \notin Missed'
      BY <3>2 DEF Missed
    <3> QED BY <1>0, <1>4, <1>8, <2>2, <3>3 DEF Send, Fault
  <2>3. CASE Fault
    BY <1>4, <2>3 DEF Fault
  <2> QED BY <1>8, <2>2, <2>3 DEF Send
<1> QED BY <1>6, <1>7, <1>8 DEF Loop

\* A failure costs the page in hand of the instance it meets, and no other.
LEMMA FailureCharges ==
    ASSUME TypeOK, NEW w \in Instances, Fail(w) \/ Kill(w)
    PROVE  Missed' \subseteq Missed \cup {UrlOf(w)} /\ faults' = faults + 1
<1>1. /\ UNCHANGED <<position, msg, results>> /\ faults' = faults + 1
      /\ \E l : pc' = [pc EXCEPT ![w] = l]
      /\ cached' \subseteq cached \cup {UrlOf(w)}
  BY DEF Fail, Kill, Fault, Goto
<1>2. \A u \in Urls : Forwarded(u) => Forwarded(u)'
  BY <1>1 DEF Forwarded
<1>3. /\ owner' = (IF owner = w THEN Nobody ELSE owner)
      /\ committed' = committed \/ (owner = w /\ committed' = position[w])
  BY DEF Fail, Kill, Release
<1>4. owner = w => owner # Nobody
  BY ScorerAssumption DEF ScorerAssumption
<1>5. \A u \in Urls : Consumed(u)' => Consumed(u)
  BY <1>1, <1>3, <1>4 DEF Consumed
<1> QED BY <1>1, <1>2, <1>5, OnlyOwnPage

\* What the group and Redis do between the instances' steps loses no page.
LEMMA GroupCharges ==
    ASSUME TypeOK,
           \/ \E w \in Instances : AutoCommit(w) \/ Recover(w)
           \/ Revoke \/ \E u \in Urls : Expire(u)
    PROVE  Missed' \subseteq Missed /\ faults' \in {faults, faults + 1}
<1>1. /\ UNCHANGED <<msg, results>> /\ cached' \subseteq cached
      /\ faults' \in {faults, faults + 1}
  BY DEF AutoCommit, Recover, Start, Assign, Revoke, Expire, groupVars, Fault
<1>2. \A v \in Instances : pc'[v] = pc[v] \/ (pc[v] = "down" /\ pc'[v] = "poll")
  BY DEF AutoCommit, Recover, Start, Assign, Revoke, Expire, Goto, TypeOK
<1>3. \A u \in Urls : /\ InHand(u) => InHand(u)'
                      /\ AboutToSend(u) => AboutToSend(u)'
                      /\ Forwarded(u) => Forwarded(u)'
  <2> SUFFICES ASSUME NEW u \in Urls
               PROVE  /\ InHand(u) => InHand(u)'
                      /\ AboutToSend(u) => AboutToSend(u)'
                      /\ Forwarded(u) => Forwarded(u)'
    OBVIOUS
  <2>1. \A v \in Instances : UrlOf(v)' = UrlOf(v)
    BY <1>1 DEF UrlOf
  <2>2. \A v \in Instances : pc[v] \notin {"poll", "down"} => pc'[v] = pc[v]
    BY <1>2
  <2> QED BY <1>1, <2>1, <2>2 DEF InHand, AboutToSend, Forwarded
<1>4. \A u \in Urls : Consumed(u)' => Consumed(u)
  <2>1. ASSUME NEW w \in Instances, AutoCommit(w), NEW u \in Urls, Consumed(u)'
        PROVE  Consumed(u)
    BY <2>1, ScorerAssumption DEF AutoCommit, Consumed, ScorerAssumption
  <2>2. ASSUME NEW w \in Instances, Recover(w), NEW u \in Urls, Consumed(u)'
        PROVE  Consumed(u)
    BY <2>2 DEF Recover, Start, Assign, Consumed, TypeOK, groupVars
  <2>3. ASSUME Revoke, NEW u \in Urls, Consumed(u)' PROVE Consumed(u)
    BY <2>3 DEF Revoke, Consumed
  <2>4. ASSUME NEW x \in Urls, Expire(x), NEW u \in Urls, Consumed(u)'
        PROVE  Consumed(u)
    BY <2>4 DEF Expire, Consumed, groupVars
  <2> QED BY <2>1, <2>2, <2>3, <2>4
<1> QED BY <1>1, <1>3, <1>4 DEF Missed

\* The pages that may end up lost never outnumber the failures.
LEMMA LossKept ==
    ASSUME TypeOK, LossInv, [Next]_vars
    PROVE  LossInv'
<1>1. \/ Missed' \subseteq Missed /\ faults' \in {faults, faults + 1}
      \/ \E u : Missed' \subseteq Missed \cup {u} /\ faults' = faults + 1
  <2>1. ASSUME NEW w \in Instances, Loop(w)
        PROVE  \/ Missed' \subseteq Missed /\ faults' = faults
               \/ Missed' \subseteq Missed \cup {UrlOf(w)} /\ faults' = faults + 1
    <3>1. Poll(w) => faults' = faults
      BY DEF Poll
    <3> QED BY <2>1, <3>1, PollCharges, LoopCharges
  <2>2. CASE UNCHANGED vars
    BY <2>2 DEF vars, Missed, Forwarded, AboutToSend, InHand, Consumed, UrlOf
  <2> QED BY <2>1, <2>2, FailureCharges, GroupCharges DEF Next
<1>2. faults \in Nat
  BY DEF TypeOK
<1>3. CASE Missed' \subseteq Missed /\ faults' \in {faults, faults + 1}
  <2>1. IsFiniteSet(Missed') /\ Cardinality(Missed') <= faults
    BY <1>2, <1>3, Uncharged DEF LossInv
  <2>2. Cardinality(Missed') \in Nat
    BY <2>1, FS_CardinalityType
  <2> QED BY <1>2, <1>3, <2>1, <2>2 DEF LossInv
<1>4. CASE \E u : Missed' \subseteq Missed \cup {u} /\ faults' = faults + 1
  BY <1>2, <1>4, Charged DEF LossInv
<1> QED BY <1>1, <1>3, <1>4
-----------------------------------------------------------------------------
\* What a step can do to one message: hand it out, send it, or neither; only a
\* failure puts it back among those still to be handed out.
ForwardStep(o) ==
    \/ /\ Holders(o)' \subseteq Holders(o) /\ results'[o] = results[o]
       /\ \/ faults' = faults /\ (ToHandOut(o)' => ToHandOut(o))
          \/ faults' = faults + 1
    \/ /\ ToHandOut(o) /\ ~ToHandOut(o)'
       /\ results'[o] = results[o] /\ faults' = faults
       /\ \E w \in Instances : Holders(o)' \subseteq Holders(o) \cup {w}
    \/ /\ results'[o] = results[o] + 1 /\ faults' = faults
       /\ ToHandOut(o)' => ToHandOut(o)
       /\ \E w \in Holders(o) : Holders(o)' \subseteq Holders(o) \ {w}

\* An instance that changes its own step only takes up no new message.
LEMMA HoldersShrink ==
    ASSUME TypeOK, NEW w \in Instances, msg' = msg,
           NEW l, pc' = [pc EXCEPT ![w] = l],
           l \in {"poll", "down"} \/ pc[w] \notin {"poll", "down"},
           NEW o \in Offsets
    PROVE  Holders(o)' \subseteq Holders(o)
BY DEF TypeOK, Holders

\* Reading hands out the message at the position, and no other.
LEMMA PollForwards ==
    ASSUME TypeOK, NEW w \in Instances, Poll(w), NEW o \in Offsets
    PROVE  ForwardStep(o)
<1>1. /\ position[w] \in Offsets /\ owner = w /\ pc[w] = "poll"
      /\ position' = [position EXCEPT ![w] = position[w] + 1]
      /\ msg' = [msg EXCEPT ![w] = position[w]] /\ pc' = [pc EXCEPT ![w] = "check"]
      /\ UNCHANGED <<owner, committed, results, faults>>
  BY DEF Poll, Goto
<1>2. \A v \in Instances : v # w => pc'[v] = pc[v] /\ msg'[v] = msg[v]
  BY <1>1 DEF TypeOK
<1>3. msg'[w] = position[w] /\ position'[w] = position[w] + 1
  BY <1>1 DEF TypeOK
<1>4. /\ ToHandOut(o) <=> position[w] <= o
      /\ ToHandOut(o)' <=> position[w] + 1 <= o
  BY <1>1, <1>3, ScorerAssumption DEF ToHandOut, ScorerAssumption
<1>5. o \in Nat /\ position[w] \in Nat
  BY OffsetsAreNumbers, <1>1
<1>6. Holders(o)' \subseteq Holders(o) \cup {w}
  BY <1>2 DEF Holders
<1>7. o # position[w] => Holders(o)' \subseteq Holders(o)
  BY <1>2, <1>3 DEF Holders
<1> QED BY <1>1, <1>4, <1>5, <1>6, <1>7 DEF ForwardStep

\* A message is sent by an instance that holds it, which then lets it go.
LEMMA LoopForwards ==
    ASSUME TypeOK, NEW w \in Instances, Loop(w), ~Poll(w), NEW o \in Offsets
    PROVE  ForwardStep(o)
<1>1. /\ UNCHANGED <<owner, committed, position, msg>>
      /\ pc[w] \notin {"poll", "down"}
      /\ \E l : pc' = [pc EXCEPT ![w] = l]
  BY DEF Loop, Check, Insert, SetCache, Send, groupVars, Goto
<1>2. Holders(o)' \subseteq Holders(o)
  BY <1>1, HoldersShrink
<1>3. ToHandOut(o)' <=> ToHandOut(o)
  BY <1>1 DEF ToHandOut
<1>4. CASE results' = results /\ faults' \in {faults, faults + 1}
  BY <1>2, <1>3, <1>4 DEF ForwardStep
<1>5. CASE Send(w) /\ results' = [results EXCEPT ![msg[w]] = results[msg[w]] + 1]
              /\ faults' = faults
  <2>1. o # msg[w] => results'[o] = results[o]
    BY <1>5 DEF TypeOK
  <2>2. CASE o = msg[w]
    <3>1. results'[o] = results[o] + 1
      BY <1>5, <2>2 DEF TypeOK
    <3>2. w \in Holders(o)
      BY <1>1, <2>2 DEF Holders
    <3>3. w \notin Holders(o)'
      BY <1>5 DEF Send, Goto, Holders, TypeOK
    <3> QED BY <1>2, <1>3, <1>5, <3>1, <3>2, <3>3 DEF ForwardStep
  <2> QED BY <1>2, <1>3, <1>5, <2>1, <2>2 DEF ForwardStep
<1> QED BY <1>4, <1>5 DEF Loop, Check, Insert, SetCache, Send, Fault

\* The group moves the position only by starting over from the committed offset,
\* and never moves the offset backwards without a failure.
LEMMA GroupForwards ==
    ASSUME TypeOK,
           \/ \E w \in Instances : AutoCommit(w) \/ Recover(w) \/ Fail(w) \/ Kill(w)
           \/ Revoke \/ \E u \in Urls : Expire(u),
           NEW o \in Offsets
    PROVE  ForwardStep(o)
<1>1. UNCHANGED <<msg, results>>
  BY DEF AutoCommit, Recover, Start, Assign, Fail, Kill, Revoke, Expire, groupVars
<1>2. \A v \in Instances : pc'[v] \notin {"poll", "down"} => pc'[v] = pc[v]
  BY DEF AutoCommit, Recover, Start, Assign, Fail, Kill, Revoke, Expire, Goto, TypeOK
<1>3. Holders(o)' \subseteq Holders(o)
  BY <1>1, <1>2 DEF Holders
<1>4. \/ faults' = faults /\ (ToHandOut(o)' => ToHandOut(o))
      \/ faults' = faults + 1
  <2>1. ASSUME NEW w \in Instances, AutoCommit(w)
        PROVE  faults' = faults /\ (ToHandOut(o)' => ToHandOut(o))
    BY <2>1, ScorerAssumption DEF AutoCommit, ToHandOut, ScorerAssumption
  <2>2. ASSUME NEW w \in Instances, Start(w)
        PROVE  faults' = faults /\ (ToHandOut(o)' => ToHandOut(o))
    BY <2>2 DEF Start, ToHandOut, groupVars
  <2>3. ASSUME NEW w \in Instances, Assign(w)
        PROVE  faults' = faults /\ (ToHandOut(o)' => ToHandOut(o))
    BY <2>3, ScorerAssumption DEF Assign, ToHandOut, ScorerAssumption, TypeOK
  <2>4. ASSUME \/ Revoke \/ \E w \in Instances : Fail(w) \/ Kill(w)
        PROVE  faults' = faults + 1
    BY <2>4 DEF Revoke, Fail, Kill, Fault
  <2>5. ASSUME NEW u \in Urls, Expire(u)
        PROVE  faults' = faults /\ (ToHandOut(o)' => ToHandOut(o))
    BY <2>5 DEF Expire, ToHandOut, groupVars
  <2> QED BY <2>1, <2>2, <2>3, <2>4, <2>5 DEF Recover
<1> QED BY <1>1, <1>3, <1>4 DEF ForwardStep

\* No message is forwarded more often than the failures can account for.
LEMMA ForwardKept ==
    ASSUME TypeOK, ForwardInv, [Next]_vars
    PROVE  ForwardInv'
<1> SUFFICES ASSUME NEW o \in Offsets
             PROVE  /\ IsFiniteSet(Holders(o)')
                    /\ results'[o] + Cardinality(Holders(o)')
                          + (IF ToHandOut(o)' THEN 1 ELSE 0) <= 1 + faults'
  BY DEF ForwardInv
<1> DEFINE H == Holders(o)
           I == Holders(o)'
<1>1. ForwardStep(o)
  <2>1. CASE UNCHANGED vars
    BY <2>1 DEF vars, ForwardStep, Holders, ToHandOut
  <2> QED BY <2>1, PollForwards, LoopForwards, GroupForwards DEF Next
<1>2. results[o] \in Nat /\ faults \in Nat
  BY DEF TypeOK
<1>3. /\ IsFiniteSet(H)
      /\ results[o] + Cardinality(H) + (IF ToHandOut(o) THEN 1 ELSE 0) <= 1 + faults
  BY DEF ForwardInv
<1>4. Cardinality(H) \in Nat
  BY <1>3, FS_CardinalityType
<1>5. CASE /\ I \subseteq H /\ results'[o] = results[o]
           /\ \/ faults' = faults /\ (ToHandOut(o)' => ToHandOut(o))
              \/ faults' = faults + 1
  <2>1. IsFiniteSet(I) /\ Cardinality(I) <= Cardinality(H)
    BY <1>3, <1>5, FS_Subset
  <2>2. Cardinality(I) \in Nat
    BY <2>1, FS_CardinalityType
  <2> HIDE DEF H, I
  <2>3. results'[o] + Cardinality(I) + (IF ToHandOut(o)' THEN 1 ELSE 0) <= 1 + faults'
    BY <1>2, <1>3, <1>4, <1>5, <2>1, <2>2
  <2> QED BY <2>1, <2>3 DEF I
<1>6. CASE /\ ToHandOut(o) /\ ~ToHandOut(o)'
           /\ results'[o] = results[o] /\ faults' = faults
           /\ \E w \in Instances : I \subseteq H \cup {w}
  <2>1. IsFiniteSet(I) /\ Cardinality(I) <= Cardinality(H) + 1
    BY <1>3, <1>4, <1>6, Charged
  <2>2. Cardinality(I) \in Nat
    BY <2>1, FS_CardinalityType
  <2> HIDE DEF H, I
  <2>3. results'[o] + Cardinality(I) + (IF ToHandOut(o)' THEN 1 ELSE 0) <= 1 + faults'
    BY <1>2, <1>3, <1>4, <1>6, <2>1, <2>2
  <2> QED BY <2>1, <2>3 DEF I
<1>7. CASE /\ results'[o] = results[o] + 1 /\ faults' = faults
           /\ ToHandOut(o)' => ToHandOut(o)
           /\ \E w \in H : I \subseteq H \ {w}
  <2>1. PICK w \in H : I \subseteq H \ {w}
    BY <1>7
  <2>2. IsFiniteSet(H \ {w}) /\ Cardinality(H \ {w}) = Cardinality(H) - 1
    BY <1>3, FS_RemoveElement
  <2>3. IsFiniteSet(I) /\ Cardinality(I) <= Cardinality(H \ {w})
    BY <2>1, <2>2, FS_Subset
  <2>4. Cardinality(I) \in Nat
    BY <2>3, FS_CardinalityType
  <2> HIDE DEF H, I
  <2>5. results'[o] + Cardinality(I) + (IF ToHandOut(o)' THEN 1 ELSE 0) <= 1 + faults'
    BY <1>2, <1>3, <1>4, <1>7, <2>2, <2>3, <2>4
  <2> QED BY <2>3, <2>5 DEF I
<1> QED BY <1>1, <1>5, <1>6, <1>7 DEF ForwardStep

-----------------------------------------------------------------------------
\* At the start nothing is cached, consumed or handed out.
LEMMA IInvHolds == Init => IInv
<1> SUFFICES ASSUME Init PROVE IInv
  OBVIOUS
<1>1. TypeOK
  BY OffsetsAreNumbers, ScorerAssumption DEF Init, TypeOK, ScorerAssumption
<1>2. CacheInv
  BY DEF Init, CacheInv, CachedIsStored
<1>3. LossInv
  <2>1. \A u \in Urls : ~Consumed(u)
    <3>1. \A o \in Offsets : ~(o < 1)
      BY OffsetsAreNumbers
    <3> QED BY <3>1, ScorerAssumption DEF Init, Consumed, ScorerAssumption
  <2>2. Missed = {}
    BY <2>1 DEF Init, Missed
  <2> QED BY <2>2, FS_EmptySet DEF LossInv, Init
<1>4. ForwardInv
  <2>1. ASSUME NEW o \in Offsets PROVE Holders(o) = {}
    BY DEF Init, Holders
  <2>2. ASSUME NEW o \in Offsets PROVE results[o] = 0 /\ faults = 0
    BY DEF Init
  <2> QED BY <2>1, <2>2, FS_EmptySet DEF ForwardInv
<1> QED BY <1>1, <1>2, <1>3, <1>4 DEF IInv

\* The inductive invariant: what the cache holds is stored, and every loss and
\* every repetition, past or still possible, is paid for by a failure.
THEOREM Invariance == Spec => []IInv
<1>1. Init => IInv
  BY IInvHolds
<1>2. TypeOK /\ TypeOK' /\ IInv /\ [Next]_vars => IInv'
  BY CacheKept, LossKept, ForwardKept DEF IInv
<1> QED BY <1>1, <1>2, TypeCorrect, PTL DEF Spec

\* A cache hit never hides a page that PostgreSQL does not have, however long
\* the key lives and whichever instance wrote it.
THEOREM CachedIsStoredHolds == Spec => []CachedIsStored
<1>1. IInv => CachedIsStored
  BY DEF IInv, CacheInv
<1> QED BY <1>1, Invariance, PTL

\* However many instances, errors, kills and rebalances: each failure loses one
\* page at most, or forwards one message once more.
THEOREM DeliveryBoundedHolds == Spec => []DeliveryBounded
<1>1. IInv => LossBounded
  <2> SUFFICES ASSUME IInv PROVE LossBounded
    OBVIOUS
  <2>1. Lost \subseteq Missed
    BY DEF Lost, Missed, Consumed
  <2>2. faults \in Nat /\ IsFiniteSet(Missed) /\ Cardinality(Missed) <= faults
    BY DEF IInv, TypeOK, LossInv
  <2> QED BY <2>1, <2>2, Uncharged DEF LossBounded
<1>2. IInv => ForwardsBounded
  <2> SUFFICES ASSUME IInv, NEW o \in Offsets PROVE results[o] <= 1 + faults
    BY DEF ForwardsBounded
  <2>1. results[o] \in Nat /\ faults \in Nat
    BY DEF IInv, TypeOK
  <2>2. /\ IsFiniteSet(Holders(o))
        /\ results[o] + Cardinality(Holders(o)) + (IF ToHandOut(o) THEN 1 ELSE 0)
              <= 1 + faults
    BY DEF IInv, ForwardInv
  <2>3. Cardinality(Holders(o)) \in Nat
    BY <2>2, FS_CardinalityType
  <2> QED BY <2>1, <2>2, <2>3
<1> QED BY <1>1, <1>2, Invariance, PTL DEF DeliveryBounded

-----------------------------------------------------------------------------
CONSTANTS Workers, Jobs, UrlsOf, Invalid
VARIABLES reply, log, up, reading, hand, jobChan, crawling, published, refused
C == INSTANCE Crawler

\* Both speak of the same finite sets and their sizes.
LEMMA SameSizes ==
    \A S : (C!IsFiniteSet(S) <=> IsFiniteSet(S)) /\ C!Cardinality(S) = Cardinality(S)
<1>1. \A S : C!IsFiniteSet(S) <=> IsFiniteSet(S)
  BY DEF C!IsFiniteSet, IsFiniteSet
<1>2. \A S : C!Cardinality(S) = Cardinality(S)
  BY DEF C!Cardinality, Cardinality
<1> QED BY <1>1, <1>2

\* A set that has lost an element is smaller.
LEMMA OneLess ==
    ASSUME NEW S, IsFiniteSet(S), NEW x \in S, NEW T, T \subseteq S \ {x}
    PROVE  IsFiniteSet(T) /\ Cardinality(T) + 1 <= Cardinality(S)
<1>1. /\ IsFiniteSet(S \ {x})
      /\ Cardinality(S \ {x}) = IF x \in S THEN Cardinality(S) - 1 ELSE Cardinality(S)
  BY FS_RemoveElement
<1>2. IsFiniteSet(T) /\ Cardinality(T) <= Cardinality(S \ {x})
  BY <1>1, FS_Subset
<1>3. Cardinality(S) \in Nat /\ Cardinality(T) \in Nat
  BY <1>2, FS_CardinalityType
<1> QED BY <1>1, <1>2, <1>3

\* A set that maps into another without collisions is no larger.
LEMMA Moved ==
    ASSUME NEW T, IsFiniteSet(T), NEW S, NEW f \in [S -> T],
           \A x, y \in S : f[x] = f[y] => x = y
    PROVE  IsFiniteSet(S) /\ Cardinality(S) <= Cardinality(T)
<1>1. f \in Injection(S, T)
  BY DEF Injection, IsInjective
<1> QED BY <1>1, FS_Injection

\* A set of values has no more elements than what they are values of.
LEMMA Values ==
    ASSUME NEW S, IsFiniteSet(S), NEW f, DOMAIN f = S
    PROVE  /\ IsFiniteSet({f[x] : x \in S})
           /\ Cardinality({f[x] : x \in S}) <= Cardinality(S)
<1> DEFINE T == {f[x] : x \in S}
           g == [x \in S |-> f[x]]
<1>1. g \in Surjection(S, T)
  BY DEF Surjection
<1> QED BY <1>1, FS_Surjection

LEMMA UpTo ==
    ASSUME NEW n \in Nat
    PROVE  IsFiniteSet(1 .. n) /\ Cardinality(1 .. n) = n
<1>1. IsFiniteSet(1 .. n) /\ Cardinality(1 .. n) = IF 1 > n THEN 0 ELSE n - 1 + 1
  BY FS_Interval
<1> QED BY <1>1

\* The oldest job of a channel, and the others.
LEMMA Popped ==
    ASSUME NEW S, NEW s \in Seq(S), s # <<>>
    PROVE  /\ Len(s) \in Nat \ {0} /\ DOMAIN s = 1 .. Len(s)
           /\ Head(s) = s[1] /\ s[1] \in S
           /\ Tail(s) \in Seq(S) /\ Len(Tail(s)) = Len(s) - 1
           /\ DOMAIN Tail(s) = 1 .. (Len(s) - 1)
           /\ \A n \in 1 .. (Len(s) - 1) : Tail(s)[n] = s[n + 1]
OBVIOUS

LEMMA Sizes ==
    ASSUME C!Parameters
    PROVE  /\ Cardinality(Workers) \in Nat /\ C!Capacity \in Nat /\ C!Holds \in Nat
           /\ C!Holds = C!Capacity + Cardinality(Workers) + 1
           /\ MaxFaults \in Nat /\ Cardinality(C!Messages) \in Nat
           /\ IsFiniteSet(C!Messages)
<1>1. Cardinality(Workers) \in Nat /\ MaxFaults \in Nat
  BY SameSizes, FS_CardinalityType DEF C!Parameters
<1>2. IsFiniteSet(C!Messages)
  <2> DEFINE Of(j) == {[job |-> j, n |-> n] : n \in 1 .. Len(UrlsOf[j])}
             f == [j \in Jobs |-> Of(j)]
  <2>1. ASSUME NEW j \in Jobs PROVE IsFiniteSet(Of(j))
    <3> DEFINE g == [n \in 1 .. Len(UrlsOf[j]) |-> [job |-> j, n |-> n]]
    <3>1. IsFiniteSet(1 .. Len(UrlsOf[j])) /\ DOMAIN g = 1 .. Len(UrlsOf[j])
      BY UpTo DEF C!Parameters
    <3>2. IsFiniteSet({g[n] : n \in 1 .. Len(UrlsOf[j])})
      <4> HIDE DEF g
      <4> QED BY <3>1, Values
    <3>3. {g[n] : n \in 1 .. Len(UrlsOf[j])} = Of(j)
      OBVIOUS
    <3> QED BY <3>2, <3>3
  <2>2. IsFiniteSet({f[j] : j \in Jobs})
    <3>1. IsFiniteSet(Jobs) /\ DOMAIN f = Jobs
      BY SameSizes DEF C!Parameters
    <3> HIDE DEF f
    <3> QED BY <3>1, Values
  <2>3. \A T \in {f[j] : j \in Jobs} : IsFiniteSet(T)
    BY <2>1
  <2>4. C!Messages = UNION {f[j] : j \in Jobs}
    BY DEF C!Messages
  <2> HIDE DEF f
  <2> QED BY <2>2, <2>3, <2>4, FS_UNION
<1>3. Cardinality(C!Messages) \in Nat
  BY <1>2, FS_CardinalityType
<1> QED BY SameSizes, <1>1, <1>2, <1>3 DEF C!Capacity, C!Holds

-----------------------------------------------------------------------------
\* Types, the log and the messages in hand go together.
StateInv == C!Parameters /\ C!TypeOK /\ C!LogInv /\ C!HandInv

\* A request adds the first of its messages to the log, all of them unless it fails.
LEMMA SubmitLog ==
    ASSUME C!Parameters, C!TypeOK, NEW j \in Jobs, C!Submit(j)
    PROVE  \E n \in 0 .. Len(UrlsOf[j]) :
              /\ log' \in Seq(C!Messages) /\ Len(log') = Len(log) + n
              /\ \A o \in 1 .. Len(log) : log'[o] = log[o]
              /\ \A k \in 1 .. n : log'[Len(log) + k] = [job |-> j, n |-> k]
              /\ \/ n = Len(UrlsOf[j]) /\ faults' = faults
                 \/ C!Fault
<1> DEFINE new(n) == SubSeq(C!Batch(j), 1, n)
           m == Len(UrlsOf[j])
<1>1. m \in Nat
  BY DEF C!Parameters
<1>2. C!Batch(j) \in Seq(C!Messages) /\ Len(C!Batch(j)) = m
  <2>1. \A n \in 1 .. m : C!Batch(j)[n] \in C!Messages
    BY DEF C!Batch, C!Messages
  <2>2. C!Batch(j) = [n \in 1 .. m |-> C!Batch(j)[n]]
    BY DEF C!Batch
  <2>3. PICK b : b = C!Batch(j)
    OBVIOUS
  <2> HIDE DEF m
  <2>4. b \in [1 .. m -> C!Messages]
    BY <2>1, <2>2, <2>3
  <2> QED BY <1>1, <2>3, <2>4
<1>3. PICK n \in 0 .. m :
         \/ log' = log \o C!Batch(j) /\ n = m /\ faults' = faults
         \/ log' = log \o new(n) /\ C!Fault
  <2>1. CASE log' = log \o C!Batch(j) /\ faults' = faults
    <3>1. m \in 0 .. m
      BY <1>1
    <3> QED BY <3>1, <2>1, Zenon
  <2>2. CASE C!Fault /\ \E n \in 0 .. Len(C!Batch(j)) : log' = log \o new(n)
    BY <1>2, <2>2
  <2> HIDE DEF new
  <2> QED BY <2>1, <2>2 DEF C!Submit, new
<1>4. PICK b : log' = log \o b /\ ((b = C!Batch(j) /\ n = m) \/ b = new(n))
  <2> HIDE DEF new, m
  <2> QED BY <1>3, Zenon
<1>5. n \in Nat /\ n <= m
  BY <1>1, <1>3
<1>6. b \in Seq(C!Messages) /\ Len(b) = n /\ \A k \in 1 .. n : b[k] = C!Batch(j)[k]
  <2>1. new(n) \in Seq(C!Messages) /\ Len(new(n)) = n
        /\ \A k \in 1 .. n : new(n)[k] = C!Batch(j)[k]
    BY <1>1, <1>2, <1>5
  <2> HIDE DEF new
  <2>2. (b = C!Batch(j) /\ n = m) \/ b = new(n)
    BY <1>4
  <2>3. CASE b = C!Batch(j) /\ n = m
    BY <1>2, <2>3
  <2>4. CASE b = new(n)
    BY <2>1, <2>4
  <2> QED BY <2>2, <2>3, <2>4
<1>7. \A k \in 1 .. n : b[k] = [job |-> j, n |-> k]
  <2>1. ASSUME NEW k \in 1 .. n PROVE C!Batch(j)[k] = [job |-> j, n |-> k]
    <3>1. k \in 1 .. Len(UrlsOf[j])
      BY <1>1, <1>5
    <3> QED BY <3>1 DEF C!Batch
  <2> QED BY <1>6, <2>1
<1>8. log \in Seq(C!Messages)
  BY DEF C!TypeOK
<1>9. log' = log \o b
  BY <1>4
<1>10. /\ log' \in Seq(C!Messages) /\ Len(log') = Len(log) + n
       /\ \A o \in 1 .. Len(log) : log'[o] = log[o]
       /\ \A k \in 1 .. n : log'[Len(log) + k] = b[k]
  <2>1. PICK l \in Seq(C!Messages) : l = log
    BY <1>8
  <2>2. PICK c \in Seq(C!Messages) : c = b
    BY <1>6
  <2>3. /\ l \o c \in Seq(C!Messages) /\ Len(l \o c) = Len(l) + Len(c)
        /\ \A o \in 1 .. Len(l) : (l \o c)[o] = l[o]
        /\ \A k \in 1 .. Len(c) : (l \o c)[Len(l) + k] = c[k]
    OBVIOUS
  <2> QED BY <1>6, <1>9, <2>1, <2>2, <2>3
<1>11. (n = Len(UrlsOf[j]) /\ faults' = faults) \/ C!Fault
  BY <1>3
<1> QED BY <1>7, <1>10, <1>11

\* Messages that are written once each fit in the log.
LEMMA LogFits ==
    ASSUME C!Parameters, NEW l \in Seq(C!Messages),
           \A o, q \in 1 .. Len(l) : l[o] = l[q] => o = q
    PROVE  Len(l) <= Cardinality(C!Messages)
<1> DEFINE f == [o \in 1 .. Len(l) |-> l[o]]
<1>1. IsFiniteSet(C!Messages) /\ Len(l) \in Nat
  BY Sizes
<1>2. f \in [1 .. Len(l) -> C!Messages]
  OBVIOUS
<1>3. \A x, y \in 1 .. Len(l) : f[x] = f[y] => x = y
  OBVIOUS
<1>4. Cardinality(1 .. Len(l)) <= Cardinality(C!Messages)
  <2> HIDE DEF f
  <2> QED BY <1>1, <1>2, <1>3, Moved
<1> QED BY <1>1, <1>4, UpTo

LEMMA Domains ==
    ASSUME C!TypeOK
    PROVE  Len(log) \in Nat /\ DOMAIN log = 1 .. Len(log)
BY DEF C!TypeOK

\* A request is logged and nothing else moves.
LEMMA SubmitState ==
    ASSUME StateInv, NEW j \in Jobs, C!Submit(j)
    PROVE  StateInv'
<1>1. C!Parameters /\ C!TypeOK
  BY DEF StateInv
<1>2. PICK n \in 0 .. Len(UrlsOf[j]) :
         /\ log' \in Seq(C!Messages) /\ Len(log') = Len(log) + n
         /\ \A o \in 1 .. Len(log) : log'[o] = log[o]
         /\ \A k \in 1 .. n : log'[Len(log) + k] = [job |-> j, n |-> k]
         /\ (n = Len(UrlsOf[j]) /\ faults' = faults) \/ C!Fault
  BY <1>1, SubmitLog
<1>3. PICK L \in Nat : L = Len(log) /\ DOMAIN log = 1 .. L
  BY <1>1, Domains
<1>4. n \in Nat
  BY <1>2, <1>1 DEF C!Parameters
<1>5. PICK M \in Nat : M = Len(log') /\ DOMAIN log' = 1 .. M /\ M = L + n
  BY <1>2, <1>3, <1>4
<1>6. /\ reply[j] = "none" /\ reply' \in [Jobs -> {"none", "202", "500"}]
           /\ reply'[j] # "none"
      /\ \A k \in Jobs \ {j} : reply'[k] = reply[k]
  <2>1. PICK code \in {"202", "500"} :
           reply[j] = "none" /\ reply' = [reply EXCEPT ![j] = code]
    BY DEF C!Submit
  <2> QED BY <1>1, <2>1 DEF C!TypeOK
<1>7. \A o \in 1 .. L : log[o] \in C!Messages /\ log[o].job \in Jobs /\ log[o].job # j
  <2>1. \A o \in 1 .. L : log[o] \in C!Messages
    BY <1>1, <1>3 DEF C!TypeOK
  <2>2. \A m \in C!Messages : m.job \in Jobs
    BY DEF C!Messages
  <2>3. \A o \in 1 .. L : reply[log[o].job] # "none"
    BY <1>3 DEF StateInv, C!LogInv
  <2> QED BY <2>1, <2>2, <2>3, <1>6
<1>8. \A o \in 1 .. M : o \in 1 .. L \/ \E k \in 1 .. n : o = L + k
  <2>1. ASSUME NEW o \in 1 .. M, o \notin 1 .. L PROVE o - L \in 1 .. n /\ o = L + (o - L)
    BY <1>4, <1>5, <2>1
  <2> QED BY <2>1
<1>9. \A k \in 1 .. n : log'[L + k].job = j /\ log'[L + k].n = k
  <2>1. \A k \in 1 .. n : log'[L + k] = [job |-> j, n |-> k]
    BY <1>2, <1>3
  <2>2. ASSUME NEW k \in 1 .. n PROVE log'[L + k].job = j /\ log'[L + k].n = k
    <3>1. PICK m : m = log'[L + k] /\ m = [job |-> j, n |-> k]
      BY <2>1
    <3> QED BY <3>1
  <2> QED BY <2>2
<1>10. \A o \in 1 .. L : log'[o] = log[o]
  BY <1>2, <1>3
<1>11. C!LogInv'
  <2>1. \A o \in 1 .. M : reply'[log'[o].job] # "none"
    <3>1. ASSUME NEW o \in 1 .. L PROVE reply'[log'[o].job] # "none"
      <4>1. reply[log[o].job] # "none"
        BY <1>3 DEF StateInv, C!LogInv
      <4> QED BY <1>6, <1>7, <1>10, <4>1
    <3>2. ASSUME NEW k \in 1 .. n PROVE reply'[log'[L + k].job] # "none"
      BY <1>6, <1>9
    <3> QED BY <1>8, <3>1, <3>2
  <2>2. ASSUME NEW o \in 1 .. M, NEW q \in 1 .. M, log'[o] = log'[q] PROVE o = q
    <3>1. CASE o \in 1 .. L /\ q \in 1 .. L
      BY <1>3, <1>10, <2>2, <3>1 DEF StateInv, C!LogInv
    <3>2. CASE o \in 1 .. L /\ q \notin 1 .. L
      <4>1. log'[q].job = j
        BY <1>8, <1>9, <3>2
      <4> QED BY <1>7, <1>10, <2>2, <3>2, <4>1
    <3>3. CASE o \notin 1 .. L /\ q \in 1 .. L
      <4>1. log'[o].job = j
        BY <1>8, <1>9, <3>3
      <4> QED BY <1>7, <1>10, <2>2, <3>3, <4>1
    <3>4. CASE o \notin 1 .. L /\ q \notin 1 .. L
      <4>1. PICK k \in 1 .. n : o = L + k
        BY <1>8, <3>4
      <4>2. PICK h \in 1 .. n : q = L + h
        BY <1>8, <3>4
      <4>3. log'[o].n = k /\ log'[q].n = h
        BY <1>9, <4>1, <4>2
      <4> QED BY <2>2, <4>1, <4>2, <4>3
    <3> QED BY <3>1, <3>2, <3>3, <3>4
  <2> QED BY <1>5, <2>1, <2>2 DEF C!LogInv
<1>12. M <= Cardinality(C!Messages)
  <2>1. PICK l \in Seq(C!Messages) : l = log'
    BY <1>2
  <2>2. \A o, q \in 1 .. Len(l) : l[o] = l[q] => o = q
    BY <1>5, <1>11, <2>1 DEF C!LogInv
  <2> QED BY <1>1, <1>5, <2>1, <2>2, LogFits
<1>13. 1 .. (L + 1) \subseteq 1 .. (M + 1) /\ 0 .. L \subseteq 0 .. M
         /\ 1 .. L \subseteq 1 .. M
  BY <1>4, <1>5
<1>14. UNCHANGED <<owner, committed, up, position, reading, hand, jobChan, crawling,
                   published, refused>>
  BY DEF C!Submit, C!groupVars, C!readerVars, C!workVars, C!outVars
<1>15. faults' \in 0 .. MaxFaults
  <2>1. faults \in 0 .. MaxFaults /\ MaxFaults \in Nat
    BY <1>1 DEF C!TypeOK, C!Parameters
  <2>2. faults' = faults \/ (faults < MaxFaults /\ faults' = faults + 1)
    BY <1>2 DEF C!Fault
  <2> QED BY <2>1, <2>2
<1>16. C!TypeOK'
  <2>1. position \in [Instances -> 1 .. (L + 1)] /\ hand \in [Instances -> 0 .. L]
        /\ jobChan \in [Instances -> Seq(1 .. L)]
        /\ crawling \in [Instances -> [Workers -> 0 .. L]]
        /\ refused \subseteq 1 .. L /\ committed \in 1 .. (L + 1)
    BY <1>1, <1>3 DEF C!TypeOK
  <2>2. position \in [Instances -> 1 .. (M + 1)] /\ hand \in [Instances -> 0 .. M]
        /\ crawling \in [Instances -> [Workers -> 0 .. M]]
        /\ refused \subseteq 1 .. M /\ committed \in 1 .. (M + 1)
    BY <1>13, <2>1
  <2>3. jobChan \in [Instances -> Seq(1 .. M)]
    <3>1. \A s \in Seq(1 .. L) : s \in Seq(1 .. M)
      BY <1>13
    <3> QED BY <2>1, <3>1
  <2> QED BY SameSizes, <1>1, <1>2, <1>5, <1>6, <1>12, <1>14, <1>15, <2>2, <2>3 DEF C!TypeOK
<1>17. C!HandInv'
  BY <1>3, <1>5, <1>13, <1>14 DEF StateInv, C!HandInv
<1> QED BY <1>1, <1>11, <1>16, <1>17 DEF StateInv, C!Parameters

\* What the types come to once the log is as long as L.
Typed(L) ==
    /\ owner \in Instances \cup {Nobody} /\ up \subseteq Instances
    /\ committed \in 1 .. (L + 1) /\ position \in [Instances -> 1 .. (L + 1)]
    /\ reading \in [Instances -> {"fetch", "commit", "put"}]
    /\ hand \in [Instances -> 0 .. L]
    /\ \A i \in Instances : reading[i] # "fetch" => hand[i] \in 1 .. L
    /\ jobChan \in [Instances -> Seq(1 .. L)]
    /\ \A i \in Instances : Len(jobChan[i]) <= C!Capacity
    /\ crawling \in [Instances -> [Workers -> 0 .. L]]
    /\ published \in [C!Offsets -> Nat] /\ refused \subseteq 1 .. L

LEMMA TypedIs ==
    ASSUME StateInv
    PROVE  \E L \in Nat : /\ L = Len(log) /\ DOMAIN log = 1 .. L /\ Typed(L)
                          /\ 1 .. L \subseteq C!Offsets /\ faults \in 0 .. MaxFaults
<1>1. C!TypeOK /\ C!Parameters
  BY DEF StateInv
<1>2. PICK L \in Nat : L = Len(log) /\ DOMAIN log = 1 .. L
  BY <1>1, Domains
<1>3. Typed(L)
  BY <1>1, <1>2 DEF StateInv, C!TypeOK, C!HandInv, Typed
<1>4. L <= Cardinality(C!Messages) /\ Cardinality(C!Messages) \in Nat
  BY SameSizes, <1>1, <1>2, Sizes DEF C!TypeOK
<1>5. 1 .. L \subseteq C!Offsets
  BY SameSizes, <1>4 DEF C!Offsets
<1> QED BY <1>1, <1>2, <1>3, <1>5 DEF C!TypeOK

LEMMA TypedKept ==
    ASSUME StateInv, NEW L \in Nat, L = Len(log), DOMAIN log = 1 .. L,
           log' = log, reply' = reply, Typed(L)',
           faults' = faults \/ C!Fault
    PROVE  StateInv'
<1>1. C!TypeOK /\ C!Parameters
  BY DEF StateInv
<1>2. faults' \in 0 .. MaxFaults
  <2>1. faults \in 0 .. MaxFaults /\ MaxFaults \in Nat
    BY <1>1 DEF C!TypeOK, C!Parameters
  <2> QED BY <2>1 DEF C!Fault
<1>3. C!TypeOK'
  BY <1>1, <1>2 DEF Typed, C!TypeOK
<1>4. C!HandInv'
  BY DEF Typed, C!HandInv
<1>5. C!LogInv'
  BY DEF StateInv, C!LogInv
<1> QED BY <1>1, <1>3, <1>4, <1>5 DEF StateInv, C!Parameters

\* Readers, workers, the scheduler and the group keep the types.
LEMMA StepState ==
    ASSUME StateInv, NEW i \in Instances,
           \/ C!Reader(i) \/ C!Recover(i) \/ C!Crash(i) \/ C!Revoke
           \/ \E w \in Workers : C!Worker(i, w)
    PROVE  StateInv' /\ log' = log /\ reply' = reply
<1>1. PICK L \in Nat : /\ L = Len(log) /\ DOMAIN log = 1 .. L /\ Typed(L)
                       /\ 1 .. L \subseteq C!Offsets /\ faults \in 0 .. MaxFaults
  BY TypedIs
<1>2. Nobody \notin Instances /\ MaxFaults \in Nat /\ C!Capacity \in Nat
  BY Sizes DEF StateInv, C!Parameters
<1>3. \A k \in 0 .. L : k + 1 \in 1 .. (L + 1)
  BY <1>1
<1>4. 1 .. L \subseteq 0 .. L /\ 0 \in 0 .. L
  BY <1>1
<1> USE <1>1, <1>2 DEF Typed, C!apiVars, C!groupVars, C!readerVars, C!workVars, C!outVars
<1>5. CASE C!Fetch(i)
  <2>1. position[i] \in 1 .. L
    BY <1>5 DEF C!Fetch
  <2>2. hand' \in [Instances -> 0 .. L] /\ hand'[i] \in 1 .. L
        /\ \A k \in Instances \ {i} : hand'[k] = hand[k]
    BY <1>5, <1>4, <2>1 DEF C!Fetch
  <2>3. position' \in [Instances -> 1 .. (L + 1)]
    BY <1>5, <1>3, <1>4, <2>1 DEF C!Fetch
  <2>4. reading' \in [Instances -> {"fetch", "commit", "put"}]
        /\ \A k \in Instances \ {i} : reading'[k] = reading[k]
    BY <1>5 DEF C!Fetch
  <2>5. UNCHANGED <<owner, up, committed, jobChan, crawling, published, refused, log,
                    reply, faults>>
    BY <1>5 DEF C!Fetch
  <2>6. Typed(L)'
    BY <2>2, <2>3, <2>4, <2>5
  <2> QED BY <2>5, <2>6, TypedKept
<1>6. CASE C!CommitRead(i)
  <2>1. hand[i] \in 0 .. L /\ hand[i] + 1 \in 1 .. (L + 1) /\ reading[i] # "fetch"
    BY <1>6, <1>3 DEF C!CommitRead
  <2>2. committed' \in 1 .. (L + 1)
    BY <1>6, <2>1 DEF C!CommitRead
  <2>3. reading' \in [Instances -> {"fetch", "commit", "put"}]
        /\ \A k \in Instances : reading'[k] # "fetch" => reading[k] # "fetch"
    BY <1>6, <2>1 DEF C!CommitRead
  <2>4. UNCHANGED <<owner, up, position, hand, jobChan, crawling, published, refused,
                    log, reply>>
        /\ (faults' = faults \/ C!Fault)
    BY <1>6 DEF C!CommitRead
  <2>5. Typed(L)'
    BY <2>2, <2>3, <2>4
  <2> QED BY <2>4, <2>5, TypedKept
<1>7. CASE C!Put(i)
  <2>1. hand[i] \in 1 .. L /\ Len(jobChan[i]) \in Nat
    BY <1>7 DEF C!Put
  <2>2. reading' \in [Instances -> {"fetch", "commit", "put"}]
        /\ \A k \in Instances : reading'[k] # "fetch" => reading[k] # "fetch"
    BY <1>7 DEF C!Put
  <2>3. UNCHANGED <<owner, up, committed, position, hand, crawling, published, log,
                    reply, faults>>
    BY <1>7 DEF C!Put
  <2>4. CASE refused' = refused \cup {hand[i]} /\ jobChan' = jobChan
    <3>1. Typed(L)'
      BY <2>1, <2>2, <2>3, <2>4
    <3> QED BY <2>3, <3>1, TypedKept
  <2>5. CASE /\ refused' = refused /\ Len(jobChan[i]) < C!Capacity
             /\ jobChan' = [jobChan EXCEPT ![i] = Append(jobChan[i], hand[i])]
    <3>1. Append(jobChan[i], hand[i]) \in Seq(1 .. L)
          /\ Len(Append(jobChan[i], hand[i])) = Len(jobChan[i]) + 1
      BY <2>1
    <3>2. Len(jobChan[i]) + 1 <= C!Capacity
      BY <2>1, <2>5
    <3>3. jobChan' \in [Instances -> Seq(1 .. L)]
      BY <2>5, <3>1
    <3>4. \A k \in Instances : Len(jobChan'[k]) <= C!Capacity
      <4>1. jobChan'[i] = Append(jobChan[i], hand[i])
              /\ \A k \in Instances \ {i} : jobChan'[k] = jobChan[k]
        BY <2>5
      <4> QED BY <3>1, <3>2, <4>1
    <3>5. Typed(L)'
      BY <2>2, <2>3, <2>5, <3>3, <3>4
    <3> QED BY <2>3, <3>5, TypedKept
  <2> QED BY <1>7, <2>4, <2>5 DEF C!Put
<1>8. ASSUME NEW w \in Workers, C!Take(i, w) PROVE StateInv' /\ log' = log /\ reply' = reply
  <2>1. jobChan[i] \in Seq(1 .. L) /\ jobChan[i] # <<>>
    BY <1>8 DEF C!Take
  <2>2. Head(jobChan[i]) \in 1 .. L /\ Tail(jobChan[i]) \in Seq(1 .. L)
        /\ Len(Tail(jobChan[i])) <= Len(jobChan[i]) /\ Len(Tail(jobChan[i])) \in Nat
        /\ Len(jobChan[i]) \in Nat
    <3>1. /\ Len(jobChan[i]) \in Nat \ {0}
          /\ Head(jobChan[i]) = jobChan[i][1] /\ jobChan[i][1] \in 1 .. L
          /\ Tail(jobChan[i]) \in Seq(1 .. L) /\ Len(Tail(jobChan[i])) = Len(jobChan[i]) - 1
      BY <2>1, Popped
    <3>2. Len(Tail(jobChan[i])) <= Len(jobChan[i]) /\ Len(Tail(jobChan[i])) \in Nat
      <4>1. PICK n \in Nat \ {0} : n = Len(jobChan[i])
        BY <3>1
      <4> HIDE DEF Typed
      <4> QED BY <3>1, <4>1
    <3> HIDE DEF Typed
    <3> QED BY <3>1, <3>2
  <2>3. crawling' \in [Instances -> [Workers -> 0 .. L]]
    BY <1>8, <1>4, <2>2 DEF C!Take
  <2>4. jobChan' \in [Instances -> Seq(1 .. L)]
    BY <1>8, <2>2 DEF C!Take
  <2>5. \A k \in Instances : Len(jobChan'[k]) <= C!Capacity
    <3>1. Len(Tail(jobChan[i])) <= C!Capacity
      BY <2>2
    <3>2. jobChan'[i] = Tail(jobChan[i])
            /\ \A k \in Instances \ {i} : jobChan'[k] = jobChan[k]
      BY <1>8 DEF C!Take
    <3> QED BY <3>1, <3>2
  <2>6. UNCHANGED <<owner, up, committed, position, hand, reading, published, refused,
                    log, reply, faults>>
    BY <1>8 DEF C!Take
  <2>7. Typed(L)'
    BY <2>3, <2>4, <2>5, <2>6
  <2> QED BY <2>6, <2>7, TypedKept
<1>9. ASSUME NEW w \in Workers, C!Crawl(i, w)
      PROVE  StateInv' /\ log' = log /\ reply' = reply
  <2>1. crawling[i][w] \in 1 .. L
    BY <1>9 DEF C!Crawl
  <2>2. crawling' \in [Instances -> [Workers -> 0 .. L]]
    BY <1>9, <1>4 DEF C!Crawl, C!Release
  <2>3. published' \in [C!Offsets -> Nat]
    <3>1. \A x \in Nat : x + 1 \in Nat /\ x + 0 \in Nat /\ x + 2 \in Nat
      OBVIOUS
    <3>2. published' = published
          \/ \E n \in {0, 1, 2} :
                published' = [published EXCEPT ![crawling[i][w]] = @ + n]
      BY <1>9 DEF C!Crawl
    <3>3. CASE published' = published
      BY <3>3
    <3>4. ASSUME NEW n \in {0, 1, 2},
                 published' = [published EXCEPT ![crawling[i][w]] = @ + n]
          PROVE  published' \in [C!Offsets -> Nat]
      <4>1. crawling[i][w] \in C!Offsets
        BY <2>1
      <4>2. published \in [C!Offsets -> Nat]
        OBVIOUS
      <4> QED BY <3>1, <3>4, <4>1, <4>2
    <3> QED BY <3>2, <3>3, <3>4
  <2>4. refused' \subseteq 1 .. L
    BY <1>9, <2>1 DEF C!Crawl
  <2>5. UNCHANGED <<owner, up, committed, position, hand, reading, jobChan, log, reply>>
        /\ (faults' = faults \/ C!Fault)
    BY <1>9 DEF C!Crawl
  <2>6. Typed(L)'
    BY <2>2, <2>3, <2>4, <2>5
  <2> QED BY <2>5, <2>6, TypedKept
<1>10. CASE C!Crash(i)
  <2>1. C!Idle \in [Workers -> 0 .. L]
    BY <1>4 DEF C!Idle
  <2>2. hand' \in [Instances -> 0 .. L] /\ crawling' \in [Instances -> [Workers -> 0 .. L]]
    BY <1>10, <1>4, <2>1 DEF C!Crash
  <2>3. reading' \in [Instances -> {"fetch", "commit", "put"}]
        /\ \A k \in Instances : reading'[k] # "fetch" => reading[k] # "fetch"
             /\ hand'[k] = hand[k]
    BY <1>10 DEF C!Crash
  <2>4. jobChan' \in [Instances -> Seq(1 .. L)]
          /\ \A k \in Instances : Len(jobChan'[k]) <= C!Capacity
    <3>1. <<>> \in Seq(1 .. L) /\ Len(<<>>) = 0
      OBVIOUS
    <3> QED BY <1>10, <3>1 DEF C!Crash
  <2>5. owner' \in Instances \cup {Nobody} /\ up' \subseteq Instances
    BY <1>10 DEF C!Crash
  <2>6. UNCHANGED <<committed, position, published, refused, log, reply>> /\ C!Fault
    BY <1>10 DEF C!Crash
  <2>7. Typed(L)'
    BY <2>2, <2>3, <2>4, <2>5, <2>6
  <2> QED BY <2>6, <2>7, TypedKept
<1>11. CASE C!Restart(i)
  <2>1. up' \subseteq Instances /\ faults' = faults /\ log' = log /\ reply' = reply
    BY <1>11 DEF C!Restart
  <2>2. Typed(L)'
    BY <1>11, <2>1 DEF C!Restart
  <2> QED BY <2>1, <2>2, TypedKept
<1>12. CASE C!Revoke
  <2>1. log' = log /\ reply' = reply /\ C!Fault
    BY <1>12 DEF C!Revoke
  <2>2. Typed(L)'
    BY <1>12 DEF C!Revoke
  <2> QED BY <2>1, <2>2, TypedKept
<1>13. CASE C!Assign(i)
  <2>1. log' = log /\ reply' = reply /\ faults' = faults
    BY <1>13 DEF C!Assign
  <2>2. Typed(L)'
    BY <1>13 DEF C!Assign
  <2> QED BY <2>1, <2>2, TypedKept
<1> QED BY <1>5, <1>6, <1>7, <1>8, <1>9, <1>10, <1>11, <1>12, <1>13
           DEF C!Reader, C!Recover, C!Worker

\* Nothing happens to what does not move.
LEMMA StutterState ==
    ASSUME StateInv, UNCHANGED C!vars
    PROVE  StateInv'
BY DEF C!vars, StateInv, C!Parameters, C!TypeOK, C!LogInv, C!HandInv

LEMMA InitState ==
    ASSUME C!Parameters, C!Init
    PROVE  StateInv
<1>1. log = <<>> /\ Len(log) = 0 /\ DOMAIN log = {} /\ log \in Seq(C!Messages)
  BY DEF C!Init
<1>2. Cardinality(C!Messages) \in Nat /\ C!Capacity \in Nat /\ MaxFaults \in Nat
  BY Sizes
<1>3. C!TypeOK
  <2>1. C!Idle \in [Workers -> 0 .. 0] /\ 1 \in 1 .. (0 + 1) /\ 0 \in 0 .. 0
          /\ 0 \in 0 .. MaxFaults
    BY <1>2 DEF C!Idle
  <2>2. jobChan \in [Instances -> Seq(DOMAIN log)]
          /\ \A i \in Instances : Len(jobChan[i]) <= C!Capacity
    <3>1. <<>> \in Seq(DOMAIN log) /\ Len(<<>>) = 0 /\ 0 <= C!Capacity
      BY <1>2
    <3> QED BY <3>1 DEF C!Init
  <2> QED BY SameSizes, <1>1, <1>2, <2>1, <2>2 DEF C!Init, C!TypeOK, C!Parameters
<1>4. C!LogInv /\ C!HandInv
  BY <1>1 DEF C!Init, C!LogInv, C!HandInv
<1> QED BY <1>3, <1>4 DEF StateInv

-----------------------------------------------------------------------------
\* The copies of o by where they are, and what a step may do to their number.
InChannels(c, o) == {p \in Instances \X {"channel"} \X (1 .. C!Capacity) :
                        p[3] \in DOMAIN c[p[1]] /\ c[p[1]][p[3]] = o}
WithWorkers(k, o) == {p \in Instances \X {"worker"} \X Workers : k[p[1]][p[3]] = o}
WithReaders(r, h, o) == {p \in Instances \X {"hand"} \X {0} :
                            r[p[1]] # "fetch" /\ h[p[1]] = o}
CopiesMove(o) ==
    /\ IsFiniteSet(C!Copies(o)')
    /\ \/ /\ published'[o] = published[o]
          /\ Cardinality(C!Copies(o)') <= Cardinality(C!Copies(o))
          /\ C!ToHandOut(o)' <= C!ToHandOut(o) /\ faults' = faults
       \/ /\ published'[o] = published[o]
          /\ Cardinality(C!Copies(o)') <= Cardinality(C!Copies(o))
          /\ faults' = faults + 1
       \/ /\ published'[o] = published[o]
          /\ Cardinality(C!Copies(o)') <= Cardinality(C!Copies(o)) + 1
          /\ C!ToHandOut(o) = 1 /\ C!ToHandOut(o)' = 0 /\ faults' = faults
       \/ /\ published'[o] = published[o] + 1
          /\ Cardinality(C!Copies(o)') + 1 <= Cardinality(C!Copies(o))
          /\ C!ToHandOut(o)' = C!ToHandOut(o) /\ faults' = faults
       \/ /\ published'[o] \in {published[o], published[o] + 2}
          /\ Cardinality(C!Copies(o)') + 1 <= Cardinality(C!Copies(o))
          /\ C!ToHandOut(o)' = C!ToHandOut(o) /\ faults' = faults + 1

LEMMA CopiesCount ==
    ASSUME NEW p \in Nat, NEW c \in Nat, NEW h \in {0, 1}, NEW f \in Nat,
           NEW q \in Nat, NEW d \in Nat, NEW g \in {0, 1}, NEW e \in Nat,
           p + c + h <= 1 + f,
           \/ q = p /\ d <= c /\ g <= h /\ e = f
           \/ q = p /\ d <= c /\ e = f + 1
           \/ q = p /\ d <= c + 1 /\ h = 1 /\ g = 0 /\ e = f
           \/ q = p + 1 /\ d + 1 <= c /\ g = h /\ e = f
           \/ q \in {p, p + 2} /\ d + 1 <= c /\ g = h /\ e = f + 1
    PROVE  q + d + g <= 1 + e
OBVIOUS

LEMMA CopiesKept ==
    ASSUME StateInv, StateInv', C!CopiesInv, \A o \in C!Offsets : CopiesMove(o)
    PROVE  C!CopiesInv'
<1> SUFFICES ASSUME NEW o \in C!Offsets
             PROVE  /\ IsFiniteSet(C!Copies(o)')
                    /\ published'[o] + Cardinality(C!Copies(o)') + C!ToHandOut(o)'
                         <= 1 + faults'
  BY SameSizes DEF C!CopiesInv
<1>1. CopiesMove(o) /\ IsFiniteSet(C!Copies(o)') /\ IsFiniteSet(C!Copies(o))
      /\ published[o] + Cardinality(C!Copies(o)) + C!ToHandOut(o) <= 1 + faults
  BY SameSizes DEF CopiesMove, C!CopiesInv
<1>2. Cardinality(C!Copies(o)) \in Nat /\ Cardinality(C!Copies(o)') \in Nat
  <2> HIDE DEF C!Copies
  <2> QED BY <1>1, FS_CardinalityType
<1>3. C!ToHandOut(o) \in {0, 1} /\ C!ToHandOut(o)' \in {0, 1}
  BY DEF C!ToHandOut
<1>4. /\ MaxFaults \in Nat /\ faults \in 0 .. MaxFaults /\ faults' \in 0 .. MaxFaults
      /\ published[o] \in Nat /\ published'[o] \in Nat
  BY DEF StateInv, C!Parameters, C!TypeOK
<1>5. PICK p \in Nat, c \in Nat, h \in {0, 1}, f \in Nat :
         p = published[o] /\ c = Cardinality(C!Copies(o)) /\ h = C!ToHandOut(o)
           /\ f = faults
  BY <1>2, <1>3, <1>4
<1>6. PICK q \in Nat, d \in Nat, g \in {0, 1}, e \in Nat :
         q = published'[o] /\ d = Cardinality(C!Copies(o)') /\ g = C!ToHandOut(o)'
           /\ e = faults'
  BY <1>2, <1>3, <1>4
<1>7. p + c + h <= 1 + f
  BY <1>1, <1>5
<1>8. \/ q = p /\ d <= c /\ g <= h /\ e = f
      \/ q = p /\ d <= c /\ e = f + 1
      \/ q = p /\ d <= c + 1 /\ h = 1 /\ g = 0 /\ e = f
      \/ q = p + 1 /\ d + 1 <= c /\ g = h /\ e = f
      \/ q \in {p, p + 2} /\ d + 1 <= c /\ g = h /\ e = f + 1
  BY <1>1, <1>5, <1>6 DEF CopiesMove
<1>9. q + d + g <= 1 + e
  BY <1>7, <1>8, CopiesCount
<1> QED BY <1>1, <1>6, <1>9

LEMMA CopiesAre ==
    ASSUME NEW o
    PROVE  /\ C!Copies(o) = InChannels(jobChan, o) \cup WithWorkers(crawling, o)
                          \cup WithReaders(reading, hand, o)
           /\ C!Copies(o)' = InChannels(jobChan', o) \cup WithWorkers(crawling', o)
                          \cup WithReaders(reading', hand', o)
BY DEF C!Copies, InChannels, WithWorkers, WithReaders

\* A step that makes no new copy and leaves the offsets to hand out.
LEMMA NoMoreCopies ==
    ASSUME C!CopiesInv, NEW o \in C!Offsets,
           InChannels(jobChan', o) \subseteq InChannels(jobChan, o),
           WithWorkers(crawling', o) \subseteq WithWorkers(crawling, o),
           WithReaders(reading', hand', o) \subseteq WithReaders(reading, hand, o),
           published' = published,
           \/ C!ToHandOut(o)' <= C!ToHandOut(o) /\ faults' = faults
           \/ faults' = faults + 1
    PROVE  CopiesMove(o)
<1>1. C!Copies(o)' \subseteq C!Copies(o)
  BY CopiesAre
<1>2. IsFiniteSet(C!Copies(o))
  BY SameSizes DEF C!CopiesInv
<1>3. IsFiniteSet(C!Copies(o)') /\ Cardinality(C!Copies(o)') <= Cardinality(C!Copies(o))
  <2> HIDE DEF C!Copies
  <2> QED BY <1>1, <1>2, FS_Subset
<1> QED BY <1>3 DEF CopiesMove

\* A reader gets a message: one copy more of what could still be handed out.
LEMMA FetchCopies ==
    ASSUME StateInv, C!CopiesInv, NEW i \in Instances, C!Fetch(i), NEW o \in C!Offsets
    PROVE  CopiesMove(o)
<1>1. PICK L \in Nat : /\ L = Len(log) /\ DOMAIN log = 1 .. L /\ Typed(L)
                       /\ 1 .. L \subseteq C!Offsets /\ faults \in 0 .. MaxFaults
  BY TypedIs
<1>2. PICK x \in 1 .. L : x = position[i]
  BY <1>1 DEF C!Fetch
<1>3. /\ owner = i /\ owner' = i /\ i # Nobody /\ position'[i] = x + 1
      /\ jobChan' = jobChan /\ crawling' = crawling /\ published' = published
           /\ faults' = faults
  BY <1>1, <1>2 DEF C!Fetch, Typed, StateInv, C!Parameters, C!groupVars, C!workVars,
     C!outVars
<1>4. o \in Nat
  BY Sizes DEF C!Offsets, StateInv
<1>5. CASE o = x
  <2>1. C!ToHandOut(o) = 1 /\ C!ToHandOut(o)' = 0
    BY <1>2, <1>3, <1>4, <1>5 DEF C!ToHandOut
  <2>2. C!Copies(o)' \subseteq C!Copies(o) \cup {<<i, "hand", 0>>}
    <3>1. WithReaders(reading', hand', o)
             \subseteq WithReaders(reading, hand, o) \cup {<<i, "hand", 0>>}
      BY <1>1 DEF C!Fetch, Typed, WithReaders
    <3> QED BY <1>3, <3>1, CopiesAre
  <2>3. IsFiniteSet(C!Copies(o))
    BY SameSizes DEF C!CopiesInv
  <2>4. IsFiniteSet(C!Copies(o)')
          /\ Cardinality(C!Copies(o)') <= Cardinality(C!Copies(o)) + 1
    <3>1. PICK S, T, n : S = C!Copies(o) /\ T = C!Copies(o)' /\ n = Cardinality(S)
      OBVIOUS
    <3>2. n \in Nat /\ Cardinality(S) <= n
      BY <2>3, <3>1, FS_CardinalityType
    <3>3. PICK token : token = <<i, "hand", 0>>
      OBVIOUS
    <3>4. IsFiniteSet(S) /\ T \subseteq S \cup {token}
      BY <2>2, <2>3, <3>1, <3>3
    <3>5. IsFiniteSet(T) /\ Cardinality(T) <= n + 1
      BY <3>2, <3>4, Charged
    <3> QED BY <3>1, <3>5
  <2> QED BY <1>3, <2>1, <2>4 DEF CopiesMove
<1>6. CASE o # x
  <2>1. C!ToHandOut(o)' <= C!ToHandOut(o)
    BY <1>2, <1>3, <1>4 DEF C!ToHandOut
  <2>2. WithReaders(reading', hand', o) \subseteq WithReaders(reading, hand, o)
    BY <1>1, <1>2, <1>6 DEF C!Fetch, Typed, WithReaders
  <2> QED BY <1>3, <2>1, <2>2, NoMoreCopies
<1> QED BY <1>5, <1>6

\* What comes in exchange for another copy.
LEMMA CopiesExchanged ==
    ASSUME C!CopiesInv, NEW o \in C!Offsets, NEW f \in [C!Copies(o)' -> C!Copies(o)],
           \A p, q \in C!Copies(o)' : f[p] = f[q] => p = q,
           published' = published, C!ToHandOut(o)' = C!ToHandOut(o), faults' = faults
    PROVE  CopiesMove(o)
<1>1. IsFiniteSet(C!Copies(o))
  BY SameSizes DEF C!CopiesInv
<1>2. IsFiniteSet(C!Copies(o)') /\ Cardinality(C!Copies(o)') <= Cardinality(C!Copies(o))
  <2>1. PICK S, T : S = C!Copies(o)' /\ T = C!Copies(o)
    OBVIOUS
  <2>2. IsFiniteSet(S) /\ Cardinality(S) <= Cardinality(T)
    BY <1>1, <2>1, Moved
  <2> QED BY <2>1, <2>2
<1>3. C!ToHandOut(o)' <= C!ToHandOut(o)
  BY DEF C!ToHandOut
<1> QED BY <1>2, <1>3 DEF CopiesMove

\* The copy in the reader's hand becomes the last of the channel.
LEMMA PutCopies ==
    ASSUME StateInv, C!CopiesInv, NEW i \in Instances, C!Put(i), NEW o \in C!Offsets
    PROVE  CopiesMove(o)
<1>1. PICK L \in Nat : /\ L = Len(log) /\ DOMAIN log = 1 .. L /\ Typed(L)
                       /\ 1 .. L \subseteq C!Offsets /\ faults \in 0 .. MaxFaults
  BY TypedIs
<1>2. /\ reading[i] = "put" /\ reading' = [reading EXCEPT ![i] = "fetch"]
           /\ reading'[i] = "fetch"
      /\ \A k \in Instances : reading'[k] # "fetch" => reading[k] # "fetch" /\ k # i
      /\ hand' = hand /\ crawling' = crawling /\ published' = published /\ faults' = faults
      /\ owner' = owner /\ position' = position
  BY <1>1 DEF C!Put, Typed, C!groupVars
<1>3. C!ToHandOut(o)' = C!ToHandOut(o)
  BY <1>2 DEF C!ToHandOut
<1>4. C!ToHandOut(o)' <= C!ToHandOut(o)
  BY <1>3 DEF C!ToHandOut
<1>5. WithReaders(reading', hand', o) \subseteq WithReaders(reading, hand, o)
  BY <1>2 DEF WithReaders
<1>6. CASE jobChan' = jobChan
  BY <1>2, <1>4, <1>5, <1>6, NoMoreCopies
<1>7. CASE /\ Len(jobChan[i]) < C!Capacity
           /\ jobChan' = [jobChan EXCEPT ![i] = Append(jobChan[i], hand[i])]
  <2>1. PICK n \in Nat : n = Len(jobChan[i])
    BY <1>1 DEF Typed
  <2>2. /\ DOMAIN jobChan'[i] = 1 .. (n + 1) /\ DOMAIN jobChan[i] = 1 .. n
        /\ jobChan'[i][n + 1] = hand[i]
        /\ \A k \in 1 .. n : jobChan'[i][k] = jobChan[i][k]
        /\ \A v \in Instances \ {i} : jobChan'[v] = jobChan[v]
    <3>1. PICK q \in Seq(1 .. L) : q = jobChan[i] /\ n = Len(q)
      BY <1>1, <2>1 DEF Typed
    <3>2. PICK h \in 1 .. L : h = hand[i]
      BY <1>1, <1>2 DEF Typed
    <3>3. /\ DOMAIN Append(q, h) = 1 .. (n + 1) /\ DOMAIN q = 1 .. n
               /\ Append(q, h)[n + 1] = h
          /\ \A k \in 1 .. n : Append(q, h)[k] = q[k]
      BY <3>1
    <3>4. jobChan'[i] = Append(q, h) /\ \A v \in Instances \ {i} : jobChan'[v] = jobChan[v]
      BY <1>1, <1>7, <3>1, <3>2 DEF Typed
    <3> QED BY <3>1, <3>2, <3>3, <3>4
  <2> DEFINE last == <<i, "channel", n + 1>>
             held == <<i, "hand", 0>>
             f == [p \in C!Copies(o)' |-> IF p = last THEN held ELSE p]
  <2>3. ASSUME NEW p \in InChannels(jobChan', o), p # last
        PROVE  p \in InChannels(jobChan, o)
    <3>1. PICK v \in Instances, k \in 1 .. C!Capacity : p = <<v, "channel", k>>
      BY DEF InChannels
    <3>2. k \in DOMAIN jobChan'[v] /\ jobChan'[v][k] = o
      BY <3>1 DEF InChannels
    <3>3. k \in DOMAIN jobChan[v] /\ jobChan[v][k] = o
      <4>1. CASE v = i
        <5>1. k \in 1 .. (n + 1) /\ k # n + 1
          BY <2>2, <2>3, <3>1, <3>2, <4>1
        <5>2. k \in 1 .. n
          BY <2>1, <5>1
        <5> QED BY <2>2, <3>2, <4>1, <5>2
      <4>2. CASE v # i
        BY <2>2, <3>2, <4>2
      <4> QED BY <4>1, <4>2
    <3> QED BY <3>1, <3>3 DEF InChannels
  <2>4. last \in C!Copies(o)' => held \in C!Copies(o)
    <3>1. ASSUME last \in C!Copies(o)' PROVE hand[i] = o
      <4>1. last \in InChannels(jobChan', o)
        <5>1. last \notin WithWorkers(crawling', o)
                /\ last \notin WithReaders(reading', hand', o)
          BY DEF WithWorkers, WithReaders
        <5> QED BY <3>1, <5>1, CopiesAre
      <4>2. jobChan'[i][n + 1] = o
        BY <4>1 DEF InChannels
      <4> QED BY <2>2, <4>2
    <3>2. hand[i] = o => held \in WithReaders(reading, hand, o)
      BY <1>2 DEF WithReaders
    <3> QED BY <3>1, <3>2, CopiesAre
  <2>5. ASSUME NEW p \in C!Copies(o)', p # last PROVE p \in C!Copies(o)
    <3>1. p \in InChannels(jobChan', o) => p \in InChannels(jobChan, o)
      BY <2>3, <2>5
    <3> QED BY <1>2, <1>5, <2>5, <3>1, CopiesAre
  <2>6. held \notin C!Copies(o)'
    <3>1. held \notin InChannels(jobChan', o) /\ held \notin WithWorkers(crawling', o)
      BY DEF InChannels, WithWorkers
    <3>2. held \notin WithReaders(reading', hand', o)
      BY <1>2 DEF WithReaders
    <3> QED BY <3>1, <3>2, CopiesAre
  <2> HIDE DEF last, held
  <2>7. f \in [C!Copies(o)' -> C!Copies(o)]
    BY <2>4, <2>5
  <2>8. \A p, q \in C!Copies(o)' : f[p] = f[q] => p = q
    BY <2>6
  <2> HIDE DEF f
  <2> QED BY <1>2, <1>3, <2>7, <2>8, CopiesExchanged
<1> QED BY <1>6, <1>7 DEF C!Put

\* The copy at the head of the channel becomes the worker's, the others move up.
LEMMA TakeCopies ==
    ASSUME StateInv, C!CopiesInv, NEW i \in Instances, NEW w \in Workers, C!Take(i, w),
           NEW o \in C!Offsets
    PROVE  CopiesMove(o)
<1>1. PICK L \in Nat : /\ L = Len(log) /\ DOMAIN log = 1 .. L /\ Typed(L)
                       /\ 1 .. L \subseteq C!Offsets /\ faults \in 0 .. MaxFaults
  BY TypedIs
<1>2. /\ reading' = reading /\ hand' = hand /\ published' = published /\ faults' = faults
      /\ owner' = owner /\ position' = position
  BY DEF C!Take, C!groupVars, C!readerVars, C!outVars
<1>3. C!ToHandOut(o)' = C!ToHandOut(o)
  BY <1>2 DEF C!ToHandOut
<1>4. o \in Nat /\ o # 0 /\ C!Capacity \in Nat
  BY Sizes DEF C!Offsets, StateInv
<1>5. /\ jobChan' = [jobChan EXCEPT ![i] = Tail(jobChan[i])]
      /\ crawling' = [crawling EXCEPT ![i][w] = Head(jobChan[i])]
      /\ crawling[i][w] = 0 /\ jobChan[i] # <<>> /\ jobChan[i] \in Seq(1 .. L)
      /\ Len(jobChan[i]) <= C!Capacity
  BY <1>1 DEF C!Take, Typed
<1>6. PICK n \in Nat \ {0} : n = Len(jobChan[i])
  BY <1>5, Popped
<1>7. /\ DOMAIN jobChan[i] = 1 .. n /\ DOMAIN jobChan'[i] = 1 .. (n - 1)
      /\ \A k \in 1 .. (n - 1) : jobChan'[i][k] = jobChan[i][k + 1]
      /\ Head(jobChan[i]) = jobChan[i][1]
  <2>1. jobChan'[i] = Tail(jobChan[i])
    BY <1>1, <1>5 DEF Typed
  <2>2. PICK q \in Seq(1 .. L) : q = jobChan[i] /\ q # <<>> /\ n = Len(q)
    BY <1>5, <1>6
  <2>3. /\ DOMAIN q = 1 .. n /\ DOMAIN Tail(q) = 1 .. (n - 1) /\ Head(q) = q[1]
        /\ \A k \in 1 .. (n - 1) : Tail(q)[k] = q[k + 1]
    BY <2>2, Popped
  <2> QED BY <2>1, <2>2, <2>3
<1>8. \A v \in Instances \ {i} : jobChan'[v] = jobChan[v]
  BY <1>1, <1>5 DEF Typed
<1>9. \A k \in 1 .. (n - 1) : k + 1 \in 1 .. n /\ k + 1 \in 1 .. C!Capacity /\ k + 1 # 1
  BY <1>4, <1>5, <1>6
<1>10. 1 \in 1 .. n /\ 1 \in 1 .. C!Capacity
  BY <1>4, <1>5, <1>6
<1> DEFINE taken == <<i, "worker", w>>
           head == <<i, "channel", 1>>
           up1(p) == <<i, "channel", p[3] + 1>>
           moves(p) == p[1] = i /\ p[2] = "channel"
           f == [p \in C!Copies(o)' |-> IF moves(p) THEN up1(p)
             ELSE IF p = taken THEN head ELSE p]
<1>11. ASSUME NEW p \in InChannels(jobChan', o)
       PROVE  IF moves(p) THEN p[3] \in 1 .. (n - 1) /\ up1(p) \in InChannels(jobChan, o)
                          ELSE p \in InChannels(jobChan, o)
  <2>1. PICK v \in Instances, k \in 1 .. C!Capacity : p = <<v, "channel", k>>
    BY DEF InChannels
  <2>2. k \in DOMAIN jobChan'[v] /\ jobChan'[v][k] = o
    BY <2>1 DEF InChannels
  <2>3. CASE v = i
    <3>1. k \in 1 .. (n - 1) /\ jobChan[i][k + 1] = o
      BY <1>7, <2>2, <2>3
    <3>2. k + 1 \in DOMAIN jobChan[i] /\ k + 1 \in 1 .. C!Capacity
      BY <1>7, <1>9, <3>1
    <3> QED BY <2>1, <2>3, <3>1, <3>2 DEF InChannels
  <2>4. CASE v # i
    <3>1. jobChan'[v] = jobChan[v]
      BY <1>8, <2>4
    <3> QED BY <2>1, <2>2, <2>4, <3>1 DEF InChannels
  <2> QED BY <2>3, <2>4
<1>12. ASSUME NEW p \in WithWorkers(crawling', o)
       PROVE  /\ ~moves(p) /\ p # head
              /\ IF p = taken THEN head \in InChannels(jobChan, o)
                   ELSE p \in WithWorkers(crawling, o)
  <2>1. PICK v \in Instances, u \in Workers : p = <<v, "worker", u>>
    BY DEF WithWorkers
  <2>2. crawling'[v][u] = o
    BY <2>1 DEF WithWorkers
  <2>3. CASE v = i /\ u = w
    <3>1. crawling'[i][w] = jobChan[i][1]
      BY <1>1, <1>5, <1>7 DEF Typed
    <3>2. jobChan[i][1] = o
      BY <2>2, <2>3, <3>1
    <3> QED BY <1>7, <1>10, <2>1, <2>3, <3>2 DEF InChannels
  <2>4. CASE ~(v = i /\ u = w)
    <3>1. crawling'[v][u] = crawling[v][u]
      BY <1>1, <1>5, <2>4 DEF Typed
    <3> QED BY <2>1, <2>2, <2>4, <3>1 DEF WithWorkers
  <2> QED BY <2>3, <2>4
<1>13. ASSUME NEW p \in WithReaders(reading', hand', o)
       PROVE  ~moves(p) /\ p # taken /\ p # head /\ p \in WithReaders(reading, hand, o)
  BY <1>2 DEF WithReaders
<1>14. \A p \in InChannels(jobChan', o) : p # taken
  BY DEF InChannels
<1>15. ASSUME NEW p \in C!Copies(o)'
       PROVE  /\ f[p] \in C!Copies(o)
              /\ moves(p) => p = <<i, "channel", p[3]>> /\ p[3] \in 1 .. (n - 1)
  <2>1. CASE p \in InChannels(jobChan', o)
    <3>1. p = <<p[1], p[2], p[3]>>
      BY <2>1 DEF InChannels
    <3> QED BY <1>11, <1>14, <2>1, <3>1, CopiesAre
  <2>2. CASE p \in WithWorkers(crawling', o)
    BY <1>12, <2>2, CopiesAre
  <2>3. CASE p \in WithReaders(reading', hand', o)
    BY <1>13, <2>3, CopiesAre
  <2> QED BY <2>1, <2>2, <2>3, CopiesAre
<1>16. f \in [C!Copies(o)' -> C!Copies(o)]
  BY <1>15
<1>17. ASSUME NEW p \in C!Copies(o)', NEW q \in C!Copies(o)', f[p] = f[q] PROVE p = q
  <2>1. CASE moves(p) /\ moves(q)
    <3>1. up1(p) = up1(q)
      BY <1>17, <2>1
    <3>2. p[3] + 1 = q[3] + 1
      BY <3>1
    <3>3. p[3] \in 1 .. (n - 1) /\ q[3] \in 1 .. (n - 1)
      BY <1>15, <2>1
    <3>4. \A k, h \in 1 .. (n - 1) : k + 1 = h + 1 => k = h
      BY <1>6
    <3>5. p[3] = q[3]
      BY <3>2, <3>3, <3>4
    <3> QED BY <1>15, <2>1, <3>5
  <2>2. ASSUME NEW s \in C!Copies(o)', NEW t \in C!Copies(o)', moves(s), ~moves(t)
        PROVE  f[s] # f[t]
    <3>1. f[s] = up1(s) /\ up1(s) # head
      <4>1. s[3] + 1 # 1
        BY <1>9, <1>15, <2>2
      <4> QED BY <2>2, <4>1
    <3>2. f[t] = IF t = taken THEN head ELSE t
      BY <2>2
    <3>3. moves(up1(s))
      OBVIOUS
    <3> QED BY <2>2, <3>1, <3>2, <3>3
  <2>3. CASE ~moves(p) /\ ~moves(q)
    <3>1. moves(head)
      OBVIOUS
    <3> QED BY <1>17, <2>3, <3>1
  <2> QED BY <1>17, <2>1, <2>2, <2>3
<1> HIDE DEF f
<1> QED BY <1>2, <1>3, <1>16, <1>17, CopiesExchanged

\* The worker's copy is done with: it is published, or not, or twice.
LEMMA CrawlCopies ==
    ASSUME StateInv, C!CopiesInv, NEW i \in Instances, NEW w \in Workers, C!Crawl(i, w),
           NEW o \in C!Offsets
    PROVE  CopiesMove(o)
<1>1. PICK L \in Nat : /\ L = Len(log) /\ DOMAIN log = 1 .. L /\ Typed(L)
                       /\ 1 .. L \subseteq C!Offsets /\ faults \in 0 .. MaxFaults
  BY TypedIs
<1>2. PICK x \in 1 .. L : x = crawling[i][w]
  BY <1>1 DEF C!Crawl, Typed
<1>3. /\ reading' = reading /\ hand' = hand /\ jobChan' = jobChan
      /\ owner' = owner /\ position' = position
      /\ crawling' = [crawling EXCEPT ![i][w] = 0]
  BY DEF C!Crawl, C!Release, C!groupVars, C!readerVars
<1>4. C!ToHandOut(o)' = C!ToHandOut(o) /\ C!ToHandOut(o)' <= C!ToHandOut(o)
  BY <1>3 DEF C!ToHandOut
<1>5. o \in Nat /\ o # 0
  BY Sizes DEF C!Offsets, StateInv
<1>6. WithWorkers(crawling', o) \subseteq WithWorkers(crawling, o) \ {<<i, "worker", w>>}
  <2>1. ASSUME NEW v \in Instances, NEW u \in Workers, crawling'[v][u] = o
        PROVE  crawling[v][u] = o /\ ~(v = i /\ u = w)
    BY <1>1, <1>3, <1>5, <2>1 DEF Typed
  <2> QED BY <2>1 DEF WithWorkers
<1>7. /\ \/ published' = [published EXCEPT ![x] = @ + 1] /\ faults' = faults
         \/ published' = published /\ faults' = faults
         \/ /\ faults' = faults + 1
            /\ \E n \in {0, 2} : published' = [published EXCEPT ![x] = @ + n]
      /\ x \in C!Offsets /\ published \in [C!Offsets -> Nat]
  BY <1>1, <1>2 DEF C!Crawl, C!Fault, Typed
<1>8. IsFiniteSet(C!Copies(o))
  BY SameSizes DEF C!CopiesInv
<1>9. CASE o # x
  <2>1. published'[o] = published[o] /\ (faults' = faults \/ faults' = faults + 1)
    BY <1>7, <1>9
  <2>2. C!Copies(o)' \subseteq C!Copies(o)
    BY <1>3, <1>6, CopiesAre
  <2>3. IsFiniteSet(C!Copies(o)') /\ Cardinality(C!Copies(o)') <= Cardinality(C!Copies(o))
    <3> HIDE DEF C!Copies
    <3> QED BY <1>8, <2>2, FS_Subset
  <2> QED BY <1>4, <2>1, <2>3 DEF CopiesMove
<1>10. CASE o = x
  <2> DEFINE token == <<i, "worker", w>>
  <2>1. token \in C!Copies(o) /\ C!Copies(o)' \subseteq C!Copies(o) \ {token}
    <3>1. token \in WithWorkers(crawling, o)
      BY <1>2, <1>10 DEF WithWorkers
    <3>2. token \notin InChannels(jobChan, o) /\ token \notin WithReaders(reading, hand, o)
      BY DEF InChannels, WithReaders
    <3>3. token \in C!Copies(o)
      BY <3>1, CopiesAre
    <3>4. token \notin WithWorkers(crawling', o)
            /\ WithWorkers(crawling', o) \subseteq WithWorkers(crawling, o)
      BY <1>6
    <3>5. C!Copies(o)' \subseteq C!Copies(o)
      BY <1>3, <3>4, CopiesAre
    <3>6. token \notin C!Copies(o)'
      BY <1>3, <3>2, <3>4, CopiesAre
    <3> HIDE DEF token
    <3> QED BY <3>3, <3>5, <3>6
  <2>2. IsFiniteSet(C!Copies(o)')
          /\ Cardinality(C!Copies(o)') + 1 <= Cardinality(C!Copies(o))
    <3> HIDE DEF token
    <3>1. PICK S, T : S = C!Copies(o) /\ T = C!Copies(o)'
      OBVIOUS
    <3> QED BY <1>8, <2>1, <3>1, OneLess
  <2>3. published[x] \in Nat
    BY <1>7
  <2>4. \/ published'[o] = published[o] + 1 /\ faults' = faults
        \/ published'[o] = published[o] /\ faults' = faults
        \/ published'[o] \in {published[o], published[o] + 2} /\ faults' = faults + 1
    <3>1. ASSUME NEW n \in {0, 2}, published' = [published EXCEPT ![x] = @ + n]
          PROVE  published'[o] \in {published[o], published[o] + 2}
      BY <1>7, <1>10, <2>3, <3>1
    <3> QED BY <1>7, <1>10, <3>1
  <2>5. Cardinality(C!Copies(o)') <= Cardinality(C!Copies(o))
    <3>1. Cardinality(C!Copies(o)) \in Nat /\ Cardinality(C!Copies(o)') \in Nat
      BY <1>8, <2>2, FS_CardinalityType
    <3> QED BY <2>2, <3>1
  <2> QED BY <1>4, <2>2, <2>4, <2>5 DEF CopiesMove
<1> QED BY <1>9, <1>10

\* Requests, commits, restarts, crashes and the group make no copy.
LEMMA OtherCopies ==
    ASSUME StateInv, C!CopiesInv, NEW o \in C!Offsets,
           \/ \E j \in Jobs : C!Submit(j)
           \/ \E i \in Instances : C!CommitRead(i) \/ C!Crash(i) \/ C!Restart(i)
                \/ C!Assign(i)
           \/ C!Revoke
           \/ UNCHANGED C!vars
    PROVE  CopiesMove(o)
<1>1. PICK L \in Nat : /\ L = Len(log) /\ DOMAIN log = 1 .. L /\ Typed(L)
                       /\ 1 .. L \subseteq C!Offsets /\ faults \in 0 .. MaxFaults
  BY TypedIs
<1>2. o \in Nat /\ o # 0
  BY Sizes DEF C!Offsets, StateInv
<1>3. ASSUME UNCHANGED <<C!readerVars, C!workVars, C!groupVars, published>>,
             faults' = faults \/ faults' = faults + 1
      PROVE  CopiesMove(o)
  <2>1. C!ToHandOut(o)' <= C!ToHandOut(o)
    BY <1>3 DEF C!ToHandOut, C!readerVars, C!groupVars
  <2> QED BY <1>3, <2>1, NoMoreCopies DEF C!readerVars, C!workVars
<1>4. ASSUME NEW j \in Jobs, C!Submit(j) PROVE CopiesMove(o)
  BY <1>3, <1>4 DEF C!Submit, C!Fault, C!outVars
<1>5. ASSUME NEW i \in Instances, C!CommitRead(i) PROVE CopiesMove(o)
  <2>1. /\ owner' = owner /\ position' = position /\ hand' = hand /\ published' = published
        /\ jobChan' = jobChan /\ crawling' = crawling
        /\ faults' = faults \/ faults' = faults + 1
    BY <1>5 DEF C!CommitRead, C!Fault, C!workVars, C!outVars
  <2>2. \A k \in Instances : reading'[k] # "fetch" => reading[k] # "fetch"
    BY <1>1, <1>5 DEF C!CommitRead, Typed
  <2>3. WithReaders(reading', hand', o) \subseteq WithReaders(reading, hand, o)
    BY <2>1, <2>2 DEF WithReaders
  <2>4. C!ToHandOut(o)' <= C!ToHandOut(o)
    BY <2>1 DEF C!ToHandOut
  <2> QED BY <2>1, <2>3, <2>4, NoMoreCopies
<1>6. ASSUME NEW i \in Instances, C!Crash(i) PROVE CopiesMove(o)
  <2>1. WithReaders(reading', hand', o) \subseteq WithReaders(reading, hand, o)
    <3>1. \A k \in Instances : reading'[k] # "fetch" => reading[k] # "fetch"
            /\ hand'[k] = hand[k]
      BY <1>1, <1>6 DEF C!Crash, Typed
    <3> QED BY <3>1 DEF WithReaders
  <2>2. InChannels(jobChan', o) \subseteq InChannels(jobChan, o)
    <3>1. jobChan'[i] = <<>> /\ \A k \in Instances \ {i} : jobChan'[k] = jobChan[k]
      BY <1>1, <1>6 DEF C!Crash, Typed
    <3>2. DOMAIN jobChan'[i] = {}
      BY <3>1
    <3>3. ASSUME NEW k \in Instances, NEW n \in DOMAIN jobChan'[k]
          PROVE  jobChan'[k] = jobChan[k]
      BY <3>1, <3>2, <3>3
    <3> QED BY <3>3 DEF InChannels
  <2>3. WithWorkers(crawling', o) \subseteq WithWorkers(crawling, o)
    <3>1. ASSUME NEW k \in Instances, NEW w \in Workers, crawling'[k][w] = o
          PROVE  crawling[k][w] = o
      <4>1. CASE k = i
        BY <1>1, <1>2, <1>6, <3>1, <4>1 DEF C!Crash, C!Idle, Typed
      <4>2. CASE k # i
        BY <1>1, <1>6, <3>1, <4>2 DEF C!Crash, Typed
      <4> QED BY <4>1, <4>2
    <3> QED BY <3>1 DEF WithWorkers
  <2>4. published' = published /\ faults' = faults + 1
    BY <1>6 DEF C!Crash, C!Fault, C!outVars
  <2> QED BY <2>1, <2>2, <2>3, <2>4, NoMoreCopies
<1>7. ASSUME NEW i \in Instances, C!Restart(i) PROVE CopiesMove(o)
  BY <1>3, <1>7 DEF C!Restart, C!outVars
<1>8. CASE C!Revoke
  <2>1. UNCHANGED <<reading, hand, jobChan, crawling, published>> /\ faults' = faults + 1
    BY <1>8 DEF C!Revoke, C!Fault, C!readerVars, C!workVars, C!outVars
  <2> QED BY <2>1, NoMoreCopies
<1>9. ASSUME NEW i \in Instances, C!Assign(i) PROVE CopiesMove(o)
  <2>1. UNCHANGED <<reading, hand, jobChan, crawling, published, faults>> /\ owner = Nobody
    BY <1>9 DEF C!Assign, C!workVars, C!outVars
  <2>2. C!ToHandOut(o)' <= C!ToHandOut(o)
    BY <2>1 DEF C!ToHandOut
  <2> QED BY <2>1, <2>2, NoMoreCopies
<1>10. CASE UNCHANGED C!vars
  BY <1>3, <1>10 DEF C!vars, C!readerVars, C!workVars, C!groupVars
<1> QED BY <1>4, <1>5, <1>6, <1>7, <1>8, <1>9, <1>10

\* No step breaks the account of copies.
LEMMA CopiesStep ==
    ASSUME StateInv, StateInv', C!CopiesInv, [C!Next]_(C!vars)
    PROVE  C!CopiesInv'
<1> SUFFICES ASSUME NEW o \in C!Offsets PROVE CopiesMove(o)
  BY CopiesKept
<1> QED BY FetchCopies, PutCopies, TakeCopies, CrawlCopies, OtherCopies
        DEF C!Next, C!Reader, C!Worker, C!Recover

LEMMA InitCopies ==
    ASSUME C!Parameters, C!Init
    PROVE  C!CopiesInv
<1> SUFFICES ASSUME NEW o \in C!Offsets
             PROVE  /\ IsFiniteSet(C!Copies(o))
                    /\ published[o] + Cardinality(C!Copies(o)) + C!ToHandOut(o)
                         <= 1 + faults
  BY SameSizes DEF C!CopiesInv
<1>1. o \in Nat /\ o # 0
  BY Sizes DEF C!Offsets
<1>2. C!Copies(o) = {}
  <2>1. InChannels(jobChan, o) = {} /\ WithReaders(reading, hand, o) = {}
    BY DEF C!Init, InChannels, WithReaders
  <2>2. WithWorkers(crawling, o) = {}
    BY <1>1 DEF C!Init, C!Idle, WithWorkers
  <2> QED BY <2>1, <2>2, CopiesAre
<1>3. C!ToHandOut(o) \in {0, 1} /\ published[o] = 0 /\ faults = 0
  BY DEF C!ToHandOut, C!Init
<1> QED BY <1>2, <1>3, FS_EmptySet

-----------------------------------------------------------------------------
\* A larger number of failures owes more.
LEMMA Times ==
    ASSUME NEW a \in Nat, NEW b \in Nat, NEW h \in Nat, a <= b
    PROVE  /\ a * h \in Nat /\ b * h \in Nat /\ a * h <= b * h
           /\ (a + 1) * h = a * h + h
<1>1. b - a \in Nat /\ b = a + (b - a)
  OBVIOUS
<1>2. PICK k \in Nat : b = a + k
  BY <1>1
<1>3. k * h \in Nat /\ a * h \in Nat /\ (a + k) * h = a * h + k * h
  OBVIOUS
<1>4. (a + 1) * h = a * h + h
  OBVIOUS
<1> QED BY <1>2, <1>3, <1>4

\* f failures pay for the messages R and the requests K.
Paid(R, K, h, f) ==
    /\ IsFiniteSet(R) /\ IsFiniteSet(K)
    /\ Cardinality(R) + Cardinality(K) * h <= f * h

\* A failure pays for h messages, or for one request that is cut short.
LEMMA Owed ==
    ASSUME NEW R, NEW K, NEW h \in Nat, NEW f \in Nat, Paid(R, K, h, f),
           NEW S, NEW D, NEW e \in Nat,
           \/ S \subseteq R /\ D \subseteq K /\ e = f
           \/ /\ D \subseteq K /\ e = f + 1
              /\ \E X : IsFiniteSet(X) /\ Cardinality(X) <= h /\ S \subseteq R \cup X
           \/ S \subseteq R /\ (\E x : D \subseteq K \cup {x}) /\ e = f + 1
    PROVE  Paid(S, D, h, e)
<1>0. /\ IsFiniteSet(R) /\ IsFiniteSet(K)
      /\ Cardinality(R) + Cardinality(K) * h <= f * h
  BY DEF Paid
<1>1. PICK r \in Nat, c \in Nat : r = Cardinality(R) /\ c = Cardinality(K)
  BY <1>0, FS_CardinalityType
<1>2. S \subseteq R => IsFiniteSet(S) /\ Cardinality(S) \in Nat /\ Cardinality(S) <= r
  <2>1. ASSUME S \subseteq R PROVE IsFiniteSet(S) /\ Cardinality(S) <= Cardinality(R)
    BY <1>0, <2>1, FS_Subset
  <2> QED BY <1>1, <2>1, FS_CardinalityType
<1>3. D \subseteq K => IsFiniteSet(D) /\ Cardinality(D) \in Nat /\ Cardinality(D) <= c
  <2>1. ASSUME D \subseteq K PROVE IsFiniteSet(D) /\ Cardinality(D) <= Cardinality(K)
    BY <1>0, <2>1, FS_Subset
  <2> QED BY <1>1, <2>1, FS_CardinalityType
<1>4. r + c * h <= f * h
  BY <1>0, <1>1
<1>5. CASE S \subseteq R /\ D \subseteq K /\ e = f
  <2>1. PICK s \in Nat, d \in Nat :
           s = Cardinality(S) /\ d = Cardinality(D) /\ s <= r /\ d <= c
    BY <1>2, <1>3, <1>5
  <2>2. d * h \in Nat /\ c * h \in Nat /\ d * h <= c * h /\ f * h \in Nat
    BY <2>1, Times
  <2>3. s + d * h <= f * h
    BY <1>4, <2>1, <2>2
  <2> QED BY <1>2, <1>3, <1>5, <2>1, <2>3 DEF Paid
<1>6. ASSUME NEW X, IsFiniteSet(X), Cardinality(X) <= h, S \subseteq R \cup X,
             D \subseteq K, e = f + 1
      PROVE  Paid(S, D, h, e)
  <2>1. PICK x \in Nat, y \in Nat : x = Cardinality(X) /\ y = Cardinality(R \cap X)
    BY <1>0, <1>6, FS_Intersection, FS_CardinalityType
  <2>2. IsFiniteSet(R \cup X) /\ Cardinality(R \cup X) = r + x - y
    BY <1>0, <1>1, <1>6, <2>1, FS_Union
  <2>3. IsFiniteSet(S) /\ Cardinality(S) <= Cardinality(R \cup X)
    BY <1>6, <2>2, FS_Subset
  <2>4. PICK s \in Nat : s = Cardinality(S) /\ s <= r + h
    <3>1. Cardinality(S) \in Nat
      BY <2>3, FS_CardinalityType
    <3>2. r + x - y <= r + h
      BY <1>6, <2>1
    <3> QED BY <2>1, <2>2, <2>3, <3>1, <3>2
  <2>5. PICK d \in Nat : d = Cardinality(D) /\ d <= c /\ IsFiniteSet(D)
    BY <1>3, <1>6
  <2>6. d * h \in Nat /\ c * h \in Nat /\ d * h <= c * h
    BY <2>5, Times
  <2>7. f * h \in Nat /\ (f + 1) * h = f * h + h
    BY Times
  <2>8. s + d * h <= (f + 1) * h
    BY <1>4, <2>4, <2>6, <2>7
  <2> QED BY <1>6, <2>3, <2>4, <2>5, <2>8 DEF Paid
<1>7. ASSUME S \subseteq R, NEW x, D \subseteq K \cup {x}, e = f + 1
      PROVE  Paid(S, D, h, e)
  <2>1. IsFiniteSet(D) /\ Cardinality(D) <= c + 1
    <3>1. IsFiniteSet(K) /\ Cardinality(K) <= c
      BY <1>0, <1>1
    <3>2. D \subseteq K \cup {x}
      BY <1>7
    <3> QED BY <3>1, <3>2, Charged
  <2>2. PICK s \in Nat, d \in Nat :
           s = Cardinality(S) /\ d = Cardinality(D) /\ s <= r /\ d <= c + 1
    BY <1>2, <1>7, <2>1, FS_CardinalityType
  <2>3. d * h \in Nat /\ d * h <= (c + 1) * h
    BY <2>2, Times
  <2>4. c * h \in Nat /\ (c + 1) * h = c * h + h /\ f * h \in Nat /\ (f + 1) * h = f * h + h
    BY Times
  <2>5. s + d * h <= (f + 1) * h
    BY <1>4, <2>2, <2>3, <2>4
  <2> QED BY <1>2, <1>7, <2>1, <2>2, <2>5 DEF Paid
<1> QED BY <1>5, <1>6, <1>7

\* Nothing that was ever handed out is beyond t.
UpToDate(t) ==
    /\ t \in 0 .. Len(log) /\ committed <= t + 1
    /\ \A i \in Instances : position[i] <= t + 1 /\ hand[i] <= t

\* What a step may add to what is owed.
RiskMove(t, u) ==
    \/ C!AtRisk(u)' \subseteq C!AtRisk(t) /\ C!CutShort' \subseteq C!CutShort
         /\ faults' = faults
    \/ /\ C!CutShort' \subseteq C!CutShort /\ faults' = faults + 1
       /\ \E X : IsFiniteSet(X) /\ Cardinality(X) <= C!Holds
            /\ C!AtRisk(u)' \subseteq C!AtRisk(t) \cup X
    \/ /\ C!AtRisk(u)' \subseteq C!AtRisk(t)
       /\ (\E j : C!CutShort' \subseteq C!CutShort \cup {j}) /\ faults' = faults + 1

LEMMA RiskKept ==
    ASSUME StateInv, StateInv', IsFiniteSet(C!CutShort), NEW t, UpToDate(t),
           Cardinality(C!AtRisk(t)) + Cardinality(C!CutShort) * C!Holds <= faults * C!Holds,
           NEW u, UpToDate(u)', RiskMove(t, u)
    PROVE  C!RiskInv'
<1>1. C!Holds \in Nat /\ faults \in Nat /\ faults' \in Nat
  BY Sizes DEF StateInv, C!TypeOK
<1>2. IsFiniteSet(C!AtRisk(t))
  <2>1. t \in Nat
    BY Domains DEF UpToDate, StateInv
  <2>2. C!AtRisk(t) \subseteq 1 .. t
    BY DEF C!AtRisk
  <2> QED BY <2>1, <2>2, UpTo, FS_Subset
<1>3. PICK h \in Nat, f \in Nat, e \in Nat : h = C!Holds /\ f = faults /\ e = faults'
  BY <1>1
<1>4. PICK R, K : R = C!AtRisk(t) /\ K = C!CutShort
  OBVIOUS
<1>5. PICK S, D : S = C!AtRisk(u)' /\ D = C!CutShort'
  OBVIOUS
<1>6. Paid(R, K, h, f)
  BY <1>2, <1>3, <1>4 DEF Paid
<1>7. \/ S \subseteq R /\ D \subseteq K /\ e = f
      \/ /\ D \subseteq K /\ e = f + 1
         /\ \E X : IsFiniteSet(X) /\ Cardinality(X) <= h /\ S \subseteq R \cup X
      \/ S \subseteq R /\ (\E x : D \subseteq K \cup {x}) /\ e = f + 1
  BY <1>3, <1>4, <1>5 DEF RiskMove
<1>8. Paid(S, D, h, e)
  BY <1>6, <1>7, Owed
<1>9. C!Holds' = C!Holds
  BY DEF C!Holds, C!Capacity
<1> QED BY SameSizes, <1>3, <1>5, <1>8, <1>9 DEF Paid, C!RiskInv, UpToDate

\* What stays in some instance, is served, or is charged to a failure.
LEMMA RiskGrows ==
    ASSUME NEW t, NEW X, \A o \in 1 .. t : C!Served(o) => C!Served(o)',
           \A i \in Instances : \A o \in C!Safe(i) :
              o \in 1 .. t => o \in X \/ C!Served(o)'
                \/ \E k \in Instances : o \in C!Safe(k)'
    PROVE  C!AtRisk(t)' \subseteq C!AtRisk(t) \cup X
<1> SUFFICES ASSUME NEW o \in C!AtRisk(t)', o \notin X PROVE o \in C!AtRisk(t)
  OBVIOUS
<1>1. o \in 1 .. t /\ ~C!Served(o)' /\ \A k \in Instances : o \notin C!Safe(k)'
  BY DEF C!AtRisk
<1> QED BY <1>1 DEF C!AtRisk

LEMMA CutKept ==
    ASSUME log' = log, reply' = reply
    PROVE  C!CutShort' = C!CutShort
BY DEF C!CutShort, C!Written

LEMMA ServedKept ==
    ASSUME published' = published, refused' = refused
    PROVE  \A o : C!Served(o) => C!Served(o)'
BY DEF C!Served

LEMMA MemoryKept ==
    ASSUME NEW i, jobChan'[i] = jobChan[i], crawling'[i] = crawling[i]
    PROVE  C!InMemory(i)' = C!InMemory(i)
BY DEF C!InMemory

\* A step that charges nothing, and one that charges X to a failure.
LEMMA Uncharge ==
    ASSUME NEW t, UpToDate(t)', log' = log, reply' = reply, faults' = faults,
           \A o \in 1 .. t : C!Served(o) => C!Served(o)',
           \A i \in Instances : \A o \in C!Safe(i) :
              o \in 1 .. t => C!Served(o)' \/ \E k \in Instances : o \in C!Safe(k)'
    PROVE  \E u : UpToDate(u)' /\ RiskMove(t, u)
<1>1. C!AtRisk(t)' \subseteq C!AtRisk(t) \cup {}
  BY RiskGrows
<1>2. C!CutShort' \subseteq C!CutShort
  BY CutKept
<1> QED BY <1>1, <1>2 DEF RiskMove

LEMMA Charge ==
    ASSUME NEW t, UpToDate(t)', log' = log, reply' = reply, faults' = faults + 1,
           NEW X, IsFiniteSet(X), Cardinality(X) <= C!Holds,
           \A o \in 1 .. t : C!Served(o) => C!Served(o)',
           \A i \in Instances : \A o \in C!Safe(i) :
              o \in 1 .. t => o \in X \/ C!Served(o)'
                \/ \E k \in Instances : o \in C!Safe(k)'
    PROVE  \E u : UpToDate(u)' /\ RiskMove(t, u)
<1>1. C!AtRisk(t)' \subseteq C!AtRisk(t) \cup X
  BY RiskGrows
<1>2. C!CutShort' \subseteq C!CutShort
  BY CutKept
<1> QED BY <1>1, <1>2 DEF RiskMove

\* One message is within what a failure pays for.
LEMMA OneIsCharged ==
    ASSUME C!Parameters, NEW x
    PROVE  IsFiniteSet({x}) /\ Cardinality({x}) <= C!Holds
<1>1. IsFiniteSet({x}) /\ Cardinality({x}) = 1
  BY FS_Singleton
<1> QED BY <1>1, Sizes

LEMMA SubmitRisk ==
    ASSUME StateInv, NEW j \in Jobs, C!Submit(j), NEW t, UpToDate(t)
    PROVE  \E u : UpToDate(u)' /\ RiskMove(t, u)
<1>1. C!Parameters /\ C!TypeOK
  BY DEF StateInv
<1>2. PICK n \in 0 .. Len(UrlsOf[j]) :
         /\ log' \in Seq(C!Messages) /\ Len(log') = Len(log) + n
         /\ \A o \in 1 .. Len(log) : log'[o] = log[o]
         /\ \A k \in 1 .. n : log'[Len(log) + k] = [job |-> j, n |-> k]
         /\ (n = Len(UrlsOf[j]) /\ faults' = faults) \/ C!Fault
  BY <1>1, SubmitLog
<1>3. PICK L \in Nat : L = Len(log) /\ DOMAIN log = 1 .. L
  BY <1>1, Domains
<1>4. n \in Nat
  BY <1>2, <1>1 DEF C!Parameters
<1>5. PICK M \in Nat : M = Len(log') /\ DOMAIN log' = 1 .. M /\ M = L + n
  BY <1>2, <1>3, <1>4
<1>6. UNCHANGED <<owner, committed, position, reading, hand, jobChan, crawling,
                  published, refused>>
  BY DEF C!Submit, C!groupVars, C!readerVars, C!workVars, C!outVars
<1>7. UpToDate(t)'
  <2>1. t \in 0 .. L /\ 0 .. L \subseteq 0 .. M
    BY <1>3, <1>4, <1>5 DEF UpToDate
  <2> QED BY <1>5, <1>6, <2>1 DEF UpToDate
<1>8. C!AtRisk(t)' \subseteq C!AtRisk(t)
  BY <1>6 DEF C!AtRisk, C!Served, C!Safe, C!InMemory
<1>9. C!Written \subseteq C!Written'
  <2>1. \A o \in 1 .. L : o \in 1 .. M /\ log'[o] = log[o]
    BY <1>2, <1>3, <1>4, <1>5
  <2> QED BY <1>3, <1>5, <2>1 DEF C!Written
<1>10. \A k \in Jobs \ {j} : reply'[k] = reply[k]
  BY <1>1 DEF C!Submit, C!TypeOK
<1>11. C!CutShort' \subseteq C!CutShort \cup {j}
  BY <1>9, <1>10 DEF C!CutShort
<1>12. CASE C!Fault
  BY <1>7, <1>8, <1>11, <1>12 DEF C!Fault, RiskMove
<1>13. CASE n = Len(UrlsOf[j]) /\ faults' = faults
  <2>1. \A k \in 1 .. n : L + k \in 1 .. M
    BY <1>4, <1>5
  <2>2. \A k \in 1 .. n : log'[L + k] = [job |-> j, n |-> k]
    BY <1>2, <1>3
  <2>3. \A k \in 1 .. n : [job |-> j, n |-> k] \in C!Written'
    BY <1>5, <2>1, <2>2 DEF C!Written
  <2>4. j \notin C!CutShort'
    BY <1>13, <2>3 DEF C!CutShort
  <2>5. C!CutShort' \subseteq C!CutShort
    BY <1>11, <2>4
  <2> QED BY <1>7, <1>8, <1>13, <2>5 DEF RiskMove
<1> QED BY <1>2, <1>12, <1>13

\* A message handed out for the first time is safe in the reader's hand.
LEMMA FetchRisk ==
    ASSUME StateInv, NEW i \in Instances, C!Fetch(i), NEW t, UpToDate(t)
    PROVE  \E u : UpToDate(u)' /\ RiskMove(t, u)
<1>1. PICK L \in Nat : /\ L = Len(log) /\ DOMAIN log = 1 .. L /\ Typed(L)
                       /\ 1 .. L \subseteq C!Offsets /\ faults \in 0 .. MaxFaults
  BY TypedIs
<1>2. PICK x \in 1 .. L : x = position[i]
  BY <1>1 DEF C!Fetch
<1>3. t \in 0 .. L /\ x <= t + 1
  BY <1>1, <1>2 DEF UpToDate
<1>4. /\ owner' = i /\ reading[i] = "fetch" /\ reading'[i] = "commit" /\ hand'[i] = x
      /\ position'[i] = x + 1
      /\ \A k \in Instances \ {i} :
            reading'[k] = reading[k] /\ hand'[k] = hand[k] /\ position'[k] = position[k]
      /\ UNCHANGED <<owner, committed, jobChan, crawling, published, refused, log, reply,
                     faults>>
  BY <1>1, <1>2 DEF C!Fetch, Typed, C!apiVars, C!groupVars, C!workVars, C!outVars
<1>5. \A k \in Instances : \A o \in C!Safe(k) : o \in C!Safe(k)'
  <2>1. \A k \in Instances : C!InMemory(k)' = C!InMemory(k)
    BY <1>4, MemoryKept
  <2> QED BY <1>4, <2>1 DEF C!Safe
<1>6. x \in C!Safe(i)'
  BY <1>4 DEF C!Safe
<1>7. PICK u \in 0 .. L : u = IF x = t + 1 THEN t + 1 ELSE t
  BY <1>2, <1>3
<1>8. t <= u /\ x <= u /\ t \in Nat /\ u \in Nat
  BY <1>2, <1>3, <1>7
<1>9. UpToDate(u)'
  <2>1. committed <= u + 1
    <3>1. committed <= t + 1 /\ committed \in 1 .. (L + 1)
      BY <1>1 DEF UpToDate, Typed
    <3> QED BY <1>8, <3>1
  <2>2. ASSUME NEW k \in Instances PROVE position'[k] <= u + 1 /\ hand'[k] <= u
    <3>1. CASE k = i
      <4>1. x + 1 <= u + 1
        BY <1>8
      <4> QED BY <1>4, <1>8, <3>1, <4>1
    <3>2. CASE k # i
      <4>1. position[k] <= t + 1 /\ hand[k] <= t /\ position[k] \in 1 .. (L + 1)
              /\ hand[k] \in 0 .. L
        BY <1>1 DEF UpToDate, Typed
      <4>2. position[k] <= u + 1 /\ hand[k] <= u
        BY <1>8, <4>1
      <4> QED BY <1>4, <3>2, <4>2
    <3> QED BY <3>1, <3>2
  <2> QED BY <1>1, <1>4, <2>1, <2>2 DEF UpToDate
<1>10. C!AtRisk(t)' \subseteq C!AtRisk(t) \cup {}
  BY <1>4, <1>5, ServedKept, RiskGrows
<1>11. C!AtRisk(u)' \subseteq C!AtRisk(t)
  <2>1. ASSUME NEW o \in C!AtRisk(u)' PROVE o \in C!AtRisk(t)'
    <3>1. o \in 1 .. u /\ o # x
      BY <1>6, <2>1 DEF C!AtRisk
    <3>2. o \in 1 .. t
      BY <1>3, <1>7, <1>8, <3>1
    <3> QED BY <2>1, <3>2 DEF C!AtRisk
  <2> QED BY <1>10, <2>1
<1>12. C!CutShort' \subseteq C!CutShort
  BY <1>4, CutKept
<1> QED BY <1>4, <1>9, <1>11, <1>12 DEF RiskMove

\* A commit that fails drops what the reader has in hand.
LEMMA CommitRisk ==
    ASSUME StateInv, NEW i \in Instances, C!CommitRead(i), NEW t, UpToDate(t)
    PROVE  \E u : UpToDate(u)' /\ RiskMove(t, u)
<1>1. PICK L \in Nat : /\ L = Len(log) /\ DOMAIN log = 1 .. L /\ Typed(L)
                       /\ 1 .. L \subseteq C!Offsets /\ faults \in 0 .. MaxFaults
  BY TypedIs
<1>2. /\ reading[i] = "commit" /\ hand[i] \in 0 .. L
      /\ UNCHANGED <<owner, position, hand, jobChan, crawling, published, refused, log,
                     reply>>
  BY <1>1 DEF C!CommitRead, Typed, C!apiVars, C!workVars, C!outVars
<1>3. \A k \in Instances : C!InMemory(k)' = C!InMemory(k)
  BY <1>2, MemoryKept
<1>4. UpToDate(t)'
  <2>1. t \in 0 .. L /\ hand[i] <= t
    BY <1>1 DEF UpToDate
  <2>2. hand[i] + 1 <= t + 1
    BY <1>1, <1>2, <2>1
  <2>3. committed' <= t + 1
    BY <2>2 DEF C!CommitRead, UpToDate
  <2> QED BY <1>2, <2>3 DEF UpToDate
<1>5. \A k \in Instances \ {i} : reading'[k] = reading[k]
  BY <1>1 DEF C!CommitRead, Typed
<1>6. \A k \in Instances \ {i} : \A o \in C!Safe(k) : o \in C!Safe(k)'
  BY <1>2, <1>3, <1>5 DEF C!Safe
<1>7. CASE reading'[i] = "put" /\ faults' = faults
  <2>1. \A o \in C!Safe(i) : o \in C!Safe(i)'
    BY <1>2, <1>3, <1>7 DEF C!Safe
  <2> QED BY <1>2, <1>4, <1>6, <1>7, <2>1, ServedKept, Uncharge
<1>8. CASE owner # i /\ faults' = faults
  <2>1. \A o \in C!Safe(i) : o \in C!Safe(i)'
    BY <1>2, <1>3, <1>8 DEF C!Safe
  <2> QED BY <1>2, <1>4, <1>6, <1>8, <2>1, ServedKept, Uncharge
<1>9. CASE C!Fault
  <2>1. \A o \in C!Safe(i) : o \in {hand[i]} \/ o \in C!Safe(i)'
    BY <1>2, <1>3 DEF C!Safe
  <2>2. PICK X : X = {hand[i]}
    OBVIOUS
  <2>3. IsFiniteSet(X) /\ Cardinality(X) <= C!Holds
    BY <2>2, OneIsCharged DEF StateInv
  <2>4. \A k \in Instances : \A o \in C!Safe(k) : o \in X \/ o \in C!Safe(k)'
    BY <1>6, <2>1, <2>2
  <2> QED BY <1>2, <1>4, <1>9, <2>3, <2>4, ServedKept, Charge DEF C!Fault
<1>10. \/ reading'[i] = "put" /\ faults' = faults
       \/ owner # i /\ faults' = faults
       \/ C!Fault
  BY <1>1 DEF C!CommitRead, Typed
<1> QED BY <1>7, <1>8, <1>9, <1>10

\* What leaves the reader's hand is refused or in the channel.
LEMMA PutRisk ==
    ASSUME StateInv, NEW i \in Instances, C!Put(i), NEW t, UpToDate(t)
    PROVE  \E u : UpToDate(u)' /\ RiskMove(t, u)
<1>1. PICK L \in Nat : /\ L = Len(log) /\ DOMAIN log = 1 .. L /\ Typed(L)
                       /\ 1 .. L \subseteq C!Offsets /\ faults \in 0 .. MaxFaults
  BY TypedIs
<1>2. /\ reading[i] = "put" /\ hand[i] \in 1 .. L
      /\ UNCHANGED <<owner, committed, position, hand, crawling, published, faults, log,
                     reply>>
      /\ \A k \in Instances \ {i} : reading'[k] = reading[k]
  BY <1>1 DEF C!Put, Typed, C!apiVars, C!groupVars
<1>3. UpToDate(t)'
  BY <1>2 DEF UpToDate
<1>4. CASE refused' = refused \cup {hand[i]} /\ jobChan' = jobChan
  <2>1. \A o : C!Served(o) => C!Served(o)'
    BY <1>2, <1>4 DEF C!Served
  <2>3. \A k \in Instances : C!InMemory(k)' = C!InMemory(k)
    BY <1>2, <1>4, MemoryKept
  <2>4. \A k \in Instances \ {i} : \A o \in C!Safe(k) : o \in C!Safe(k)'
    BY <1>2, <2>3 DEF C!Safe
  <2>5. \A o \in C!Safe(i) : o = hand[i] \/ o \in C!Safe(i)'
    BY <1>2, <2>3 DEF C!Safe
  <2>6. \A k \in Instances : \A o \in C!Safe(k) : C!Served(o)' \/ o \in C!Safe(k)'
    <3>1. \A o : o = hand[i] => C!Served(o)'
      BY <1>2, <1>4 DEF C!Served
    <3> QED BY <2>4, <2>5, <3>1
  <2> QED BY <1>2, <1>3, <2>1, <2>6, Uncharge
<1>5. CASE /\ refused' = refused
           /\ jobChan' = [jobChan EXCEPT ![i] = Append(jobChan[i], hand[i])]
  <2>1. \A o : C!Served(o) => C!Served(o)'
    BY <1>2, <1>5, ServedKept
  <2>2. PICK q \in Seq(1 .. L), h \in 1 .. L : q = jobChan[i] /\ h = hand[i]
    BY <1>1, <1>2 DEF Typed
  <2>3. jobChan'[i] = Append(q, h) /\ \A k \in Instances \ {i} : jobChan'[k] = jobChan[k]
    BY <1>1, <1>5, <2>2 DEF Typed
  <2>4. /\ \A n \in DOMAIN q : n \in DOMAIN Append(q, h) /\ Append(q, h)[n] = q[n]
        /\ Len(q) + 1 \in DOMAIN Append(q, h) /\ Append(q, h)[Len(q) + 1] = h
    OBVIOUS
  <2>5. C!InMemory(i) \subseteq C!InMemory(i)' /\ hand[i] \in C!InMemory(i)'
    BY <1>2, <2>2, <2>3, <2>4 DEF C!InMemory
  <2>6. \A k \in Instances \ {i} : C!InMemory(k)' = C!InMemory(k)
    BY <1>2, <2>3, MemoryKept
  <2>7. \A k \in Instances \ {i} : \A o \in C!Safe(k) : o \in C!Safe(k)'
    BY <1>2, <2>6 DEF C!Safe
  <2>8. \A o \in C!Safe(i) : o \in C!Safe(i)'
    BY <1>2, <2>5 DEF C!Safe
  <2> QED BY <1>2, <1>3, <2>1, <2>7, <2>8, Uncharge
<1> QED BY <1>4, <1>5 DEF C!Put

\* What leaves the channel is with a worker.
LEMMA TakeRisk ==
    ASSUME StateInv, NEW i \in Instances, NEW w \in Workers, C!Take(i, w), NEW t,
           UpToDate(t)
    PROVE  \E u : UpToDate(u)' /\ RiskMove(t, u)
<1>1. PICK L \in Nat : /\ L = Len(log) /\ DOMAIN log = 1 .. L /\ Typed(L)
                       /\ 1 .. L \subseteq C!Offsets /\ faults \in 0 .. MaxFaults
  BY TypedIs
<1>2. UNCHANGED <<owner, committed, position, reading, hand, published, refused, faults,
                  log, reply>>
  BY DEF C!Take, C!apiVars, C!groupVars, C!readerVars, C!outVars
<1>3. UpToDate(t)'
  BY <1>2 DEF UpToDate
<1>4. PICK q \in Seq(1 .. L) : q = jobChan[i] /\ q # <<>>
  BY <1>1 DEF C!Take, Typed
<1>5. PICK n \in Nat \ {0} : n = Len(q)
  BY <1>4, Popped
<1>6. /\ DOMAIN q = 1 .. n /\ DOMAIN Tail(q) = 1 .. (n - 1) /\ Head(q) = q[1]
      /\ \A k \in 1 .. (n - 1) : Tail(q)[k] = q[k + 1]
  BY <1>4, <1>5, Popped
<1>7. /\ jobChan'[i] = Tail(q) /\ \A k \in Instances \ {i} : jobChan'[k] = jobChan[k]
      /\ crawling[i][w] = 0 /\ crawling'[i][w] = q[1]
      /\ \A v \in Workers \ {w} : crawling'[i][v] = crawling[i][v]
      /\ \A k \in Instances \ {i} : crawling'[k] = crawling[k]
  BY <1>1, <1>4, <1>6 DEF C!Take, Typed
<1>8. \A k \in Instances \ {i} : C!InMemory(k)' = C!InMemory(k)
  BY <1>7, MemoryKept
<1>9. \A o \in C!InMemory(i) : o \in 1 .. t => o \in C!InMemory(i)'
  <2>1. ASSUME NEW k \in 1 .. n PROVE q[k] \in C!InMemory(i)'
    <3>1. CASE k = 1
      BY <1>7, <3>1 DEF C!InMemory
    <3>2. CASE k # 1
      <4>1. k - 1 \in 1 .. (n - 1) /\ k = (k - 1) + 1
        BY <1>5, <3>2
      <4>2. k - 1 \in DOMAIN jobChan'[i] /\ jobChan'[i][k - 1] = q[k]
        BY <1>6, <1>7, <4>1
      <4> QED BY <4>2 DEF C!InMemory
    <3> QED BY <3>1, <3>2
  <2>2. ASSUME NEW v \in Workers, crawling[i][v] \in 1 .. t
        PROVE  crawling[i][v] \in C!InMemory(i)'
    <3>1. v # w
      BY <1>7, <2>2
    <3> QED BY <1>7, <3>1 DEF C!InMemory
  <2>3. \A o \in C!InMemory(i) : (\E k \in 1 .. n : o = q[k])
          \/ \E v \in Workers : o = crawling[i][v]
    BY <1>4, <1>6 DEF C!InMemory
  <2> QED BY <2>1, <2>2, <2>3
<1>10. \A k \in Instances : \A o \in C!Safe(k) : o \in 1 .. t => o \in C!Safe(k)'
  BY <1>2, <1>8, <1>9 DEF C!Safe
<1> QED BY <1>2, <1>3, <1>10, ServedKept, Uncharge

\* What leaves a worker is published or given up, unless the write fails.
LEMMA CrawlRisk ==
    ASSUME StateInv, NEW i \in Instances, NEW w \in Workers, C!Crawl(i, w), NEW t,
           UpToDate(t)
    PROVE  \E u : UpToDate(u)' /\ RiskMove(t, u)
<1>1. PICK L \in Nat : /\ L = Len(log) /\ DOMAIN log = 1 .. L /\ Typed(L)
                       /\ 1 .. L \subseteq C!Offsets /\ faults \in 0 .. MaxFaults
  BY TypedIs
<1>2. PICK x \in 1 .. L : x = crawling[i][w]
  BY <1>1 DEF C!Crawl, Typed
<1>3. x \in C!Offsets /\ published \in [C!Offsets -> Nat]
  BY <1>1, <1>2 DEF Typed
<1>4. UNCHANGED <<owner, committed, position, reading, hand, jobChan, log, reply>>
  BY DEF C!Crawl, C!apiVars, C!groupVars, C!readerVars
<1>5. UpToDate(t)'
  BY <1>4 DEF UpToDate
<1>6. /\ \A k \in Instances \ {i} : crawling'[k] = crawling[k]
      /\ \A v \in Workers \ {w} : crawling'[i][v] = crawling[i][v]
  BY <1>1 DEF C!Crawl, C!Release, Typed
<1>7. \A k \in Instances \ {i} : \A o \in C!Safe(k) : o \in C!Safe(k)'
  <2>1. \A k \in Instances \ {i} : C!InMemory(k)' = C!InMemory(k)
    BY <1>4, <1>6, MemoryKept
  <2> QED BY <1>4, <2>1 DEF C!Safe
<1>8. \A o \in C!Safe(i) : o = x \/ o \in C!Safe(i)'
  <2>1. \A o \in C!InMemory(i) : o = x \/ o \in C!InMemory(i)'
    BY <1>2, <1>4, <1>6 DEF C!InMemory
  <2> QED BY <1>4, <2>1 DEF C!Safe
<1>9. \/ /\ published' = [published EXCEPT ![x] = @ + 1] /\ UNCHANGED <<refused, faults>>
      \/ /\ refused' = refused \cup {x} /\ UNCHANGED <<published, faults>>
      \/ /\ C!Fault /\ refused' = refused
         /\ \E n \in {0, 2} : published' = [published EXCEPT ![x] = @ + n]
  BY <1>2 DEF C!Crawl
<1>10. \A n \in {0, 1, 2} : published' = [published EXCEPT ![x] = @ + n] =>
          /\ published'[x] = published[x] + n
          /\ \A o : o # x => published'[o] = published[o]
  BY <1>3
<1>11. published[x] \in Nat
  BY <1>3
<1>12. \A n \in {0, 1, 2} : published[x] + n > 0 \/ (n = 0 /\ published[x] = 0)
  BY <1>11
<1>13. \A o : C!Served(o) => C!Served(o)'
  <2>1. CASE published' = published /\ refused' = refused \cup {x}
    BY <2>1 DEF C!Served
  <2>2. ASSUME NEW n \in {0, 1, 2}, published' = [published EXCEPT ![x] = @ + n],
               refused' = refused
        PROVE  \A o : C!Served(o) => C!Served(o)'
    <3>1. published[x] > 0 => published[x] + n > 0
      BY <1>11
    <3> QED BY <1>10, <2>2, <3>1 DEF C!Served
  <2> QED BY <1>9, <2>1, <2>2
<1>14. CASE C!Served(x)' /\ faults' = faults
  <2>1. \A k \in Instances : \A o \in C!Safe(k) : C!Served(o)' \/ o \in C!Safe(k)'
    BY <1>7, <1>8, <1>14
  <2> QED BY <1>4, <1>5, <1>13, <1>14, <2>1, Uncharge
<1>15. CASE C!Fault
  <2>1. PICK X : X = {x}
    OBVIOUS
  <2>2. IsFiniteSet(X) /\ Cardinality(X) <= C!Holds
    BY <2>1, OneIsCharged DEF StateInv
  <2>3. \A k \in Instances : \A o \in C!Safe(k) : o \in X \/ o \in C!Safe(k)'
    BY <1>7, <1>8, <2>1
  <2> QED BY <1>4, <1>5, <1>13, <1>15, <2>2, <2>3, Charge DEF C!Fault
<1>16. C!Fault \/ (C!Served(x)' /\ faults' = faults)
  <2>1. CASE published' = [published EXCEPT ![x] = @ + 1] /\ UNCHANGED <<refused, faults>>
    <3>1. published'[x] > 0
      BY <1>10, <1>11, <2>1
    <3> QED BY <2>1, <3>1 DEF C!Served
  <2>2. CASE refused' = refused \cup {x} /\ UNCHANGED <<published, faults>>
    BY <2>2 DEF C!Served
  <2> QED BY <1>9, <2>1, <2>2
<1> QED BY <1>14, <1>15, <1>16

LEMMA Together ==
    ASSUME NEW A, IsFiniteSet(A), NEW a \in Nat, Cardinality(A) <= a,
           NEW B, IsFiniteSet(B), NEW b \in Nat, Cardinality(B) <= b
    PROVE  IsFiniteSet(A \cup B) /\ Cardinality(A \cup B) <= a + b
<1>1. PICK x \in Nat, y \in Nat, z \in Nat :
         x = Cardinality(A) /\ y = Cardinality(B) /\ z = Cardinality(A \cap B)
  BY FS_Intersection, FS_CardinalityType
<1>2. IsFiniteSet(A \cup B) /\ Cardinality(A \cup B) = x + y - z
  BY <1>1, FS_Union
<1>3. x + y - z <= a + b
  BY <1>1
<1> QED BY <1>2, <1>3

\* An instance holds no more than its channel, its workers and a message in hand.
LEMMA SafeFits ==
    ASSUME StateInv, NEW i \in Instances
    PROVE  IsFiniteSet(C!Safe(i)) /\ Cardinality(C!Safe(i)) <= C!Holds
<1>1. PICK L \in Nat : /\ L = Len(log) /\ DOMAIN log = 1 .. L /\ Typed(L)
                       /\ 1 .. L \subseteq C!Offsets /\ faults \in 0 .. MaxFaults
  BY TypedIs
<1>2. PICK c \in Nat, w \in Nat :
         c = C!Capacity /\ w = Cardinality(Workers) /\ C!Holds = c + w + 1
  BY Sizes DEF StateInv
<1>3. IsFiniteSet(Workers)
  BY SameSizes DEF StateInv, C!Parameters
<1> DEFINE A == {jobChan[i][n] : n \in DOMAIN jobChan[i]}
           B == {crawling[i][v] : v \in Workers}
           K == {hand[i]}
<1>4. IsFiniteSet(A) /\ Cardinality(A) <= c
  <2>1. PICK n \in Nat : n = Len(jobChan[i]) /\ DOMAIN jobChan[i] = 1 .. n /\ n <= c
    BY <1>1, <1>2 DEF Typed
  <2>2. IsFiniteSet(DOMAIN jobChan[i]) /\ Cardinality(DOMAIN jobChan[i]) = n
    BY <2>1, UpTo
  <2>3. PICK f : f = jobChan[i]
    OBVIOUS
  <2>4. IsFiniteSet({f[k] : k \in DOMAIN f}) /\ Cardinality({f[k] : k \in DOMAIN f}) <= n
    BY <2>2, <2>3, Values
  <2>5. A = {f[k] : k \in DOMAIN f}
    BY <2>3
  <2> HIDE DEF A
  <2>6. IsFiniteSet(A) /\ Cardinality(A) <= n /\ Cardinality(A) \in Nat
    BY <2>4, <2>5, FS_CardinalityType
  <2> QED BY <2>1, <2>6
<1>5. IsFiniteSet(B) /\ Cardinality(B) <= w
  <2>1. PICK f : f = crawling[i] /\ DOMAIN f = Workers
    BY <1>1 DEF Typed
  <2>2. IsFiniteSet({f[k] : k \in Workers}) /\ Cardinality({f[k] : k \in Workers}) <= w
    BY <1>2, <1>3, <2>1, Values
  <2> QED BY <2>1, <2>2
<1>6. IsFiniteSet(K) /\ Cardinality(K) <= 1
  <2>1. PICK x : K = {x}
    OBVIOUS
  <2>2. IsFiniteSet(K) /\ Cardinality(K) = 1
    BY <2>1, FS_Singleton
  <2> QED BY <2>2
<1>7. C!Safe(i) \subseteq (A \cup B) \cup K
  BY DEF C!Safe, C!InMemory
<1> HIDE DEF A, B, K
<1>8. IsFiniteSet(A \cup B) /\ Cardinality(A \cup B) <= c + w
  BY <1>4, <1>5, Together
<1>9. IsFiniteSet((A \cup B) \cup K) /\ Cardinality((A \cup B) \cup K) <= c + w + 1
  BY <1>6, <1>8, Together
<1>10. IsFiniteSet(C!Safe(i)) /\ Cardinality(C!Safe(i)) <= Cardinality((A \cup B) \cup K)
  BY <1>7, <1>9, FS_Subset
<1>11. Cardinality(C!Safe(i)) \in Nat /\ Cardinality((A \cup B) \cup K) \in Nat
  BY <1>9, <1>10, FS_CardinalityType
<1> QED BY <1>2, <1>9, <1>10, <1>11

\* A crash drops what the instance held.
LEMMA CrashRisk ==
    ASSUME StateInv, NEW i \in Instances, C!Crash(i), NEW t, UpToDate(t)
    PROVE  \E u : UpToDate(u)' /\ RiskMove(t, u)
<1>1. PICK L \in Nat : /\ L = Len(log) /\ DOMAIN log = 1 .. L /\ Typed(L)
                       /\ 1 .. L \subseteq C!Offsets /\ faults \in 0 .. MaxFaults
  BY TypedIs
<1>2. /\ hand'[i] = 0 /\ owner' = (IF owner = i THEN Nobody ELSE owner)
      /\ \A k \in Instances \ {i} : /\ reading'[k] = reading[k] /\ hand'[k] = hand[k]
                                    /\ jobChan'[k] = jobChan[k]
                                    /\ crawling'[k] = crawling[k]
      /\ UNCHANGED <<committed, position, published, refused, log, reply>>
      /\ faults' = faults + 1
  BY <1>1 DEF C!Crash, Typed, C!Fault, C!apiVars, C!outVars
<1>3. UpToDate(t)'
  <2>1. t \in 0 .. L /\ 0 <= t
    BY <1>1 DEF UpToDate
  <2> QED BY <1>2, <2>1 DEF UpToDate
<1>4. \A k \in Instances \ {i} : \A o \in C!Safe(k) : o \in C!Safe(k)'
  <2>1. \A k \in Instances \ {i} : C!InMemory(k)' = C!InMemory(k)
    BY <1>2, MemoryKept
  <2> QED BY <1>2, <2>1 DEF C!Safe
<1>5. PICK X : X = C!Safe(i)
  OBVIOUS
<1>6. IsFiniteSet(X) /\ Cardinality(X) <= C!Holds
  BY <1>5, SafeFits
<1>7. \A k \in Instances : \A o \in C!Safe(k) : o \in X \/ o \in C!Safe(k)'
  BY <1>4, <1>5
<1> QED BY <1>2, <1>3, <1>6, <1>7, ServedKept, Charge

\* The partition is given back or out: an owner's commit may now be refused, and the
\* new owner starts within what was handed out.
LEMMA GroupRisk ==
    ASSUME StateInv, NEW t, UpToDate(t),
           C!Revoke \/ (\E i \in Instances : C!Restart(i) \/ C!Assign(i))
             \/ UNCHANGED C!vars
    PROVE  \E u : UpToDate(u)' /\ RiskMove(t, u)
<1>1. PICK L \in Nat : /\ L = Len(log) /\ DOMAIN log = 1 .. L /\ Typed(L)
                       /\ 1 .. L \subseteq C!Offsets /\ faults \in 0 .. MaxFaults
  BY TypedIs
<1>2. Nobody \notin Instances
  BY DEF StateInv, C!Parameters
<1>3. CASE C!Revoke
  <2>1. /\ owner \in Instances /\ faults' = faults + 1
        /\ UNCHANGED <<committed, position, reading, hand, jobChan, crawling, published,
                       refused, log, reply>>
    BY <1>1, <1>3 DEF C!Revoke, Typed, C!Fault, C!apiVars, C!readerVars, C!workVars,
       C!outVars
  <2>2. UpToDate(t)'
    BY <2>1 DEF UpToDate
  <2>3. PICK X : X = {hand[owner]}
    OBVIOUS
  <2>4. IsFiniteSet(X) /\ Cardinality(X) <= C!Holds
    BY <2>3, OneIsCharged DEF StateInv
  <2>5. \A k \in Instances : C!InMemory(k)' = C!InMemory(k)
    BY <2>1, MemoryKept
  <2>6. \A k \in Instances : \A o \in C!Safe(k) : o \in X \/ o \in C!Safe(k)'
    BY <2>1, <2>3, <2>5 DEF C!Safe
  <2> QED BY <2>1, <2>2, <2>4, <2>6, ServedKept, Charge
<1>4. ASSUME NEW i \in Instances, C!Restart(i) PROVE \E u : UpToDate(u)' /\ RiskMove(t, u)
  <2>1. UNCHANGED <<owner, committed, position, reading, hand, jobChan, crawling,
                    published, refused, log, reply, faults>>
    BY <1>4 DEF C!Restart, C!apiVars, C!groupVars, C!readerVars, C!workVars, C!outVars
  <2>2. UpToDate(t)' /\ \A k \in Instances : C!Safe(k)' = C!Safe(k)
    BY <2>1 DEF UpToDate, C!Safe, C!InMemory
  <2> QED BY <2>1, <2>2, ServedKept, Uncharge
<1>5. ASSUME NEW i \in Instances, C!Assign(i) PROVE \E u : UpToDate(u)' /\ RiskMove(t, u)
  <2>1. /\ owner = Nobody /\ position' = [position EXCEPT ![i] = committed]
        /\ UNCHANGED <<committed, reading, hand, jobChan, crawling, published, refused,
                       log, reply, faults>>
    BY <1>5 DEF C!Assign, C!apiVars, C!workVars, C!outVars
  <2>2. UpToDate(t)'
    BY <1>1, <2>1 DEF UpToDate, Typed
  <2>3. \A k \in Instances : C!InMemory(k)' = C!InMemory(k)
    BY <2>1, MemoryKept
  <2>4. \A k \in Instances : \A o \in C!Safe(k) : o \in C!Safe(k)'
    BY <1>2, <2>1, <2>3 DEF C!Safe
  <2> QED BY <2>1, <2>2, <2>4, ServedKept, Uncharge
<1>6. CASE UNCHANGED C!vars
  <2>1. UpToDate(t)' /\ \A k \in Instances : C!Safe(k)' = C!Safe(k)
    BY <1>6 DEF C!vars, UpToDate, C!Safe, C!InMemory
  <2> QED BY <1>6, <2>1, ServedKept, Uncharge DEF C!vars
<1> QED BY <1>3, <1>4, <1>5, <1>6

\* No step breaks the account of failures.
LEMMA RiskStep ==
    ASSUME StateInv, StateInv', C!RiskInv, [C!Next]_(C!vars)
    PROVE  C!RiskInv'
<1>1. IsFiniteSet(C!CutShort)
  BY SameSizes DEF C!RiskInv
<1>2. PICK t : /\ UpToDate(t)
               /\ Cardinality(C!AtRisk(t)) + Cardinality(C!CutShort) * C!Holds
                    <= faults * C!Holds
  BY SameSizes DEF C!RiskInv, UpToDate
<1>3. PICK u : UpToDate(u)' /\ RiskMove(t, u)
  BY <1>2, SubmitRisk, FetchRisk, CommitRisk, PutRisk, TakeRisk, CrawlRisk, CrashRisk,
     GroupRisk
     DEF C!Next, C!Reader, C!Worker, C!Recover
<1> QED BY <1>1, <1>2, <1>3, RiskKept

LEMMA InitRisk ==
    ASSUME C!Parameters, C!Init
    PROVE  C!RiskInv
<1>1. C!CutShort = {} /\ C!AtRisk(0) = {}
  BY DEF C!Init, C!CutShort, C!AtRisk
<1>2. C!Holds \in Nat /\ 0 * C!Holds = 0
  BY Sizes
<1>3. 0 \in 0 .. Len(log) /\ 1 <= 0 + 1 /\ 0 <= 0 /\ 0 + 0 <= 0
  BY DEF C!Init
<1>4. committed = 1 /\ faults = 0 /\ \A i \in Instances : position[i] = 1 /\ hand[i] = 0
  BY DEF C!Init
<1> QED BY SameSizes, <1>1, <1>2, <1>3, <1>4, FS_EmptySet DEF C!RiskInv

-----------------------------------------------------------------------------
\* The types, the log, the copies and the failures are accounted for in every state.
LEMMA IInvStep ==
    ASSUME C!Parameters, C!IInv, [C!Next]_(C!vars)
    PROVE  C!IInv'
<1>1. StateInv /\ C!CopiesInv /\ C!RiskInv
  BY DEF C!IInv, StateInv
<1>2. StateInv'
  <2>1. CASE UNCHANGED C!vars
    BY <1>1, <2>1, StutterState
  <2>2. ASSUME NEW j \in Jobs, C!Submit(j) PROVE StateInv'
    BY <1>1, <2>2, SubmitState
  <2>3. CASE C!Revoke
    <3>1. FirstOwner \in Instances
      BY DEF C!Parameters
    <3> QED BY <1>1, <2>3, <3>1, StepState
  <2>4. ASSUME NEW i \in Instances,
               C!Reader(i) \/ C!Recover(i) \/ C!Crash(i)
                 \/ (\E w \in Workers : C!Worker(i, w))
        PROVE  StateInv'
    BY <1>1, <2>4, StepState
  <2> QED BY <2>1, <2>2, <2>3, <2>4 DEF C!Next
<1>3. C!CopiesInv'
  BY <1>1, <1>2, CopiesStep
<1>4. C!RiskInv'
  BY <1>1, <1>2, RiskStep
<1> QED BY <1>2, <1>3, <1>4 DEF C!IInv, StateInv

\* The inductive invariant of the crawler holds in every reachable state.
THEOREM CrawlInvariance == C!Parameters => (C!Spec => []C!IInv)
<1> SUFFICES ASSUME C!Parameters PROVE C!Spec => []C!IInv
  OBVIOUS
<1>1. C!Init => C!IInv
  BY InitState, InitCopies, InitRisk DEF C!IInv, StateInv
<1>2. C!IInv /\ [C!Next]_(C!vars) => C!IInv'
  BY IInvStep
<1> QED BY <1>1, <1>2, PTL DEF C!Spec

\* Every variable keeps its type, and no channel its capacity.
THEOREM CrawlTypeCorrect == C!Parameters => (C!Spec => []C!TypeOK)
<1> SUFFICES ASSUME C!Parameters PROVE C!Spec => []C!TypeOK
  OBVIOUS
<1>1. C!IInv => C!TypeOK
  BY DEF C!IInv
<1> QED BY <1>1, CrawlInvariance, PTL

LEMMA LossIsBounded ==
    ASSUME StateInv, C!RiskInv
    PROVE  C!LossBounded
<1>1. PICK t : /\ UpToDate(t)
               /\ Cardinality(C!AtRisk(t)) + Cardinality(C!CutShort) * C!Holds
                    <= faults * C!Holds
  BY SameSizes DEF C!RiskInv, UpToDate
<1>2. PICK L \in Nat : /\ L = Len(log) /\ DOMAIN log = 1 .. L /\ Typed(L)
                       /\ 1 .. L \subseteq C!Offsets /\ faults \in 0 .. MaxFaults
  BY TypedIs
<1>3. t \in Nat /\ committed \in Nat /\ committed <= t + 1
  BY <1>1, <1>2 DEF UpToDate, Typed
<1> DEFINE image == [o \in C!AtRisk(t) |-> log[o]]
<1>4. C!Lost \subseteq {image[o] : o \in C!AtRisk(t)}
  <2>1. ASSUME NEW m \in C!Lost PROVE \E o \in C!AtRisk(t) : m = log[o]
    <3>1. PICK o \in 1 .. L : m = log[o]
      BY <1>2 DEF C!Lost, C!Written
    <3>2. ~C!Pending(o) /\ ~C!Served(o)
      BY <1>2, <3>1 DEF C!Lost
    <3>3. o \in 1 .. t
      <4>1. ~(o >= committed)
        BY <3>2 DEF C!Pending
      <4> QED BY <1>3, <4>1
    <3>4. \A i \in Instances : o \notin C!Safe(i)
      BY <3>2 DEF C!Pending, C!Held, C!Safe
    <3> QED BY <3>1, <3>2, <3>3, <3>4 DEF C!AtRisk
  <2> QED BY <2>1
<1>5. IsFiniteSet(C!AtRisk(t)) /\ DOMAIN image = C!AtRisk(t)
  <2>1. C!AtRisk(t) \subseteq 1 .. t
    BY DEF C!AtRisk
  <2> QED BY <1>3, <2>1, UpTo, FS_Subset
<1>6. /\ IsFiniteSet({image[o] : o \in C!AtRisk(t)})
      /\ Cardinality({image[o] : o \in C!AtRisk(t)}) <= Cardinality(C!AtRisk(t))
  <2> HIDE DEF image
  <2> QED BY <1>5, Values
<1>7. IsFiniteSet(C!Lost)
        /\ Cardinality(C!Lost) <= Cardinality({image[o] : o \in C!AtRisk(t)})
  <2> HIDE DEF image
  <2> QED BY <1>4, <1>6, FS_Subset
<1>8. PICK l \in Nat, s \in Nat, r \in Nat :
         /\ l = Cardinality(C!Lost) /\ s = Cardinality({image[o] : o \in C!AtRisk(t)})
         /\ r = Cardinality(C!AtRisk(t))
  <2> HIDE DEF image
  <2> QED BY <1>5, <1>6, <1>7, FS_CardinalityType
<1>9. PICK c \in Nat, h \in Nat, f \in Nat :
         c = Cardinality(C!CutShort) /\ h = C!Holds /\ f = faults
  <2>1. IsFiniteSet(C!CutShort)
    BY SameSizes DEF C!RiskInv
  <2> QED BY <1>2, <2>1, Sizes, FS_CardinalityType DEF StateInv, C!Parameters
<1>10. l <= r
  <2>1. l <= s /\ s <= r
    BY <1>6, <1>7, <1>8
  <2> QED BY <2>1
<1>11. r + c * h <= f * h
  BY <1>1, <1>8, <1>9
<1>12. l + c * h <= f * h
  <2>1. c * h \in Nat /\ f * h \in Nat
    BY Times
  <2> QED BY <1>10, <1>11, <2>1
<1> QED BY SameSizes, <1>8, <1>9, <1>12 DEF C!LossBounded

LEMMA PublishedIsBounded ==
    ASSUME StateInv, C!CopiesInv
    PROVE  C!PublishedBounded
<1> SUFFICES ASSUME NEW o \in C!Offsets PROVE published[o] <= 1 + faults
  BY DEF C!PublishedBounded
<1>1. /\ IsFiniteSet(C!Copies(o))
      /\ published[o] + Cardinality(C!Copies(o)) + C!ToHandOut(o) <= 1 + faults
  BY SameSizes DEF C!CopiesInv
<1>2. PICK c \in Nat, h \in {0, 1} : c = Cardinality(C!Copies(o)) /\ h = C!ToHandOut(o)
  <2>1. Cardinality(C!Copies(o)) \in Nat
    BY <1>1, FS_CardinalityType
  <2>2. C!ToHandOut(o) \in {0, 1}
    BY DEF C!ToHandOut
  <2> QED BY <2>1, <2>2
<1>3. PICK p \in Nat, f \in Nat : p = published[o] /\ f = faults
  BY DEF StateInv, C!TypeOK, C!Parameters
<1>4. p + c + h <= 1 + f
  BY <1>1, <1>2, <1>3
<1>5. p <= 1 + f
  BY <1>4
<1> QED BY <1>3, <1>5

\* What a failure may cost a client, in every state: the messages one instance
\* holds or a request that is cut short, and a page published once more.
THEOREM CrawlDeliveryBoundedHolds ==
    C!Parameters => (C!Spec => []C!DeliveryBounded)
<1> SUFFICES ASSUME C!Parameters PROVE C!Spec => []C!DeliveryBounded
  OBVIOUS
<1>1. C!IInv => C!DeliveryBounded
  BY LossIsBounded, PublishedIsBounded DEF C!IInv, StateInv, C!DeliveryBounded
<1> QED BY <1>1, CrawlInvariance, PTL
=============================================================================

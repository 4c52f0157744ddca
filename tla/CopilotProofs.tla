---------------------------- MODULE CopilotProofs ----------------------------
(***************************************************************************)
(* Proofs about Copilot for any number of messages, any tools offered, any  *)
(* number of turns and calls, and any bound on failures.                    *)
(***************************************************************************)
EXTENDS Copilot, FiniteSetTheorems, TLAPS

-----------------------------------------------------------------------------
\* A set that gains one element at most has room in a bound that grows by one.
LEMMA Charged ==
    ASSUME NEW S, IsFiniteSet(S), NEW n \in Nat, Cardinality(S) <= n,
           NEW x, NEW T, T \subseteq S \cup {x}
    PROVE  IsFiniteSet(T) /\ Cardinality(T) <= n + 1
<1>0. Cardinality(S) \in Nat
  BY FS_CardinalityType
<1>1. /\ IsFiniteSet(S \cup {x})
      /\ Cardinality(S \cup {x})
            = IF x \in S THEN Cardinality(S) ELSE Cardinality(S) + 1
  BY FS_AddElement
<1>2. IsFiniteSet(T) /\ Cardinality(T) <= Cardinality(S \cup {x})
  BY <1>1, FS_Subset
<1>3. Cardinality(T) \in Nat /\ Cardinality(S \cup {x}) \in Nat
  BY <1>1, <1>2, FS_CardinalityType
<1> QED BY <1>0, <1>1, <1>2, <1>3

\* A set that gains nothing stays within its bound.
LEMMA Uncharged ==
    ASSUME NEW S, IsFiniteSet(S), NEW n \in Nat, Cardinality(S) <= n,
           NEW T, T \subseteq S
    PROVE  IsFiniteSet(T) /\ Cardinality(T) <= n
<1>1. IsFiniteSet(T) /\ Cardinality(T) <= Cardinality(S)
  BY FS_Subset
<1>2. Cardinality(S) \in Nat /\ Cardinality(T) \in Nat
  BY <1>1, FS_CardinalityType
<1> QED BY <1>1, <1>2

\* Calls of a turn: a sequence that is not empty.
LEMMA CallsAreSequences ==
    ASSUME NEW T, NEW s \in CallsOf(T)
    PROVE  /\ s \in Seq(T) /\ Len(s) \in 1 .. MaxCalls
           /\ DOMAIN s = 1 .. Len(s) /\ s # <<>>
<1>1. PICK n \in 1 .. MaxCalls : s \in [1 .. n -> T]
  BY DEF CallsOf
<1>2. n \in Nat /\ n > 0
  BY <1>1, CopilotAssumption DEF CopilotAssumption
<1>3. s \in Seq(T) /\ Len(s) = n /\ DOMAIN s = 1 .. n
  BY <1>1, <1>2
<1> QED BY <1>1, <1>2, <1>3

\* What a user with fewer tools can ask for, one with more can.
LEMMA MoreTools ==
    ASSUME NEW T, NEW U, T \subseteq U
    PROVE  CallsOf(T) \subseteq CallsOf(U)
<1> SUFFICES ASSUME NEW n \in 1 .. MaxCalls, NEW s \in [1 .. n -> T]
             PROVE  s \in [1 .. n -> U]
  BY DEF CallsOf
<1> QED OBVIOUS

\* The calls in hand, and the results of those that were answered.
LEMMA InTurn ==
    ASSUME TypeOK, NEW m \in Messages
    PROVE  /\ DOMAIN calls[m] = 1 .. Len(calls[m]) /\ Len(calls[m]) \in 0 .. MaxCalls
           /\ IsFiniteSet(results[m]) /\ At(m) \in Nat \ {0}
           /\ pc[m] = "tools" /\ At(m) > Len(calls[m]) => results[m] = DOMAIN calls[m]
<1>1. DOMAIN calls[m] = 1 .. Len(calls[m]) /\ Len(calls[m]) \in 0 .. MaxCalls
  <2>1. CASE calls[m] = <<>>
    BY <2>1, CopilotAssumption DEF CopilotAssumption
  <2>2. CASE calls[m] \in CallsOf(Offered)
    <3>1. Len(calls[m]) \in 1 .. MaxCalls /\ DOMAIN calls[m] = 1 .. Len(calls[m])
      BY <2>2, CallsAreSequences
    <3> QED BY <3>1
  <2> QED BY <2>1, <2>2 DEF TypeOK
<1>2. /\ IsFiniteSet(1 .. Len(calls[m]))
      /\ Cardinality(1 .. Len(calls[m])) = Len(calls[m])
  <2>1. Len(calls[m]) \in Nat
    BY <1>1
  <2>2. IsFiniteSet(1 .. Len(calls[m]))
    BY <2>1, FS_Interval
  <2>3. Cardinality(1 .. Len(calls[m]))
            = IF 1 > Len(calls[m]) THEN 0 ELSE Len(calls[m]) - 1 + 1
    BY <2>1, FS_Interval
  <2> QED BY <2>1, <2>2, <2>3
<1>3. results[m] \subseteq 1 .. Len(calls[m])
  BY <1>1 DEF TypeOK
<1>4. /\ IsFiniteSet(results[m]) /\ Cardinality(results[m]) <= Len(calls[m])
      /\ Cardinality(results[m]) = Len(calls[m]) => results[m] = 1 .. Len(calls[m])
  BY <1>2, <1>3, FS_Subset
<1>5. Cardinality(results[m]) \in Nat
  BY <1>4, FS_CardinalityType
<1> QED BY <1>1, <1>4, <1>5 DEF At

\* Between turns there are neither calls nor results.
LEMMA NoCalls ==
    ASSUME TypeOK, NEW m \in Messages, pc[m] # "tools"
    PROVE  calls[m] = <<>> /\ results[m] = {}
<1>1. calls[m] = <<>> /\ results[m] \subseteq DOMAIN calls[m]
  BY DEF TypeOK
<1>2. DOMAIN <<>> = {}
  OBVIOUS
<1> QED BY <1>1, <1>2

\* The use that is next is one of those the copilot can make.
LEMMA NextUse ==
    ASSUME TypeOK, NEW m \in Messages, pc[m] = "tools", At(m) <= Len(calls[m])
    PROVE  At(m) \in DOMAIN calls[m] /\ At(m) \in 1 .. MaxCalls /\ Use(m, At(m)) \in Uses
<1>1. At(m) \in DOMAIN calls[m] /\ At(m) \in 1 .. MaxCalls
  BY InTurn, CopilotAssumption DEF CopilotAssumption
<1>2. turn[m] \in 1 .. MaxTurns
  BY CopilotAssumption DEF CopilotAssumption, TypeOK
<1> QED BY <1>1, <1>2 DEF Use, Uses

-----------------------------------------------------------------------------
\* Each step of a message keeps the types.
LEMMA SendType ==
    ASSUME TypeOK, NEW m \in Messages, Send(m)
    PROVE  TypeOK'
<1>1. open' \in [Messages -> SUBSET Uses]
  BY DEF TypeOK, Send
<1>2. CASE mode = "anthropic"
  BY <1>1, <1>2, CopilotAssumption DEF CopilotAssumption, TypeOK, Send
<1>3. CASE mode = "stub"
  <2>1. PICK s \in CallsOf(Offered \cap Range(CommandTool)) : calls' = [calls EXCEPT ![m] = s]
    BY <1>3 DEF Send
  <2>2. s \in CallsOf(Offered) /\ s # <<>>
    BY <2>1, MoreTools, CallsAreSequences
  <2>3. pc' = [pc EXCEPT ![m] = "tools"] /\ turn' = [turn EXCEPT ![m] = 1]
    BY <1>3 DEF Send
  <2>4. results[m] = {}
    BY NoCalls DEF Send
  <2> QED BY <1>1, <2>1, <2>2, <2>3, <2>4, CopilotAssumption
          DEF CopilotAssumption, TypeOK, Send
<1> QED BY <1>2, <1>3 DEF TypeOK

LEMMA ModelType ==
    ASSUME TypeOK, NEW m \in Messages, ModelEnds(m) \/ ModelCalls(m) \/ ModelFails(m)
    PROVE  TypeOK'
<1>1. CASE ModelEnds(m) \/ ModelFails(m)
  <2>1. faults' \in 0 .. MaxFaults
    BY <1>1, CopilotAssumption
    DEF CopilotAssumption, TypeOK, ModelEnds, ModelFails, Fault
  <2>2. /\ pc' = [pc EXCEPT ![m] = "ended"] /\ pc[m] = "model"
        /\ UNCHANGED <<mode, turn, calls, results, open, made, listed>>
    BY <1>1 DEF ModelEnds, ModelFails, Return
  <2>3. open[m] \subseteq Uses
    BY DEF TypeOK
  <2>4. history' \subseteq Uses
    BY <1>1, <2>3 DEF TypeOK, ModelEnds, ModelFails, Return
  <2>5. reply' \in [Messages -> {"none", "ok", "500", "502"}]
    BY <1>1 DEF TypeOK, ModelEnds, ModelFails, Return
  <2> QED BY <2>1, <2>2, <2>4, <2>5 DEF TypeOK
<1>2. CASE ModelCalls(m)
  <2>1. PICK s \in CallsOf(Offered) :
           /\ calls' = [calls EXCEPT ![m] = s]
           /\ open' = [open EXCEPT ![m] = @ \cup {<<m, turn'[m], i>> : i \in DOMAIN s}]
    BY <1>2 DEF ModelCalls
  <2>2. s # <<>> /\ DOMAIN s = 1 .. Len(s) /\ Len(s) \in 1 .. MaxCalls
    BY CallsAreSequences
  <2>3. turn' \in [Messages -> 0 .. MaxTurns] /\ turn'[m] \in 1 .. MaxTurns
        /\ \A n \in Messages : n # m => turn'[n] = turn[n]
    BY <1>2, CopilotAssumption DEF CopilotAssumption, TypeOK, ModelCalls
  <2>4. {<<m, turn'[m], i>> : i \in DOMAIN s} \subseteq Uses
    BY <2>2, <2>3, CopilotAssumption DEF CopilotAssumption, Uses
  <2>5. open' \in [Messages -> SUBSET Uses]
    BY <2>1, <2>4 DEF TypeOK
  <2>6. results[m] = {}
    BY <1>2, NoCalls DEF ModelCalls
  <2> QED BY <1>2, <2>1, <2>2, <2>3, <2>5, <2>6 DEF TypeOK, ModelCalls
<1> QED BY <1>1, <1>2

LEMMA CallType ==
    ASSUME TypeOK, NEW m \in Messages, CallTool(m)
    PROVE  TypeOK'
<1>1. /\ At(m) \in DOMAIN calls[m] /\ At(m) \in 1 .. MaxCalls
      /\ Use(m, At(m)) \in Uses
  BY NextUse DEF CallTool
<1>2. made' \in [Messages -> SUBSET Uses] /\ listed' \in [Messages -> SUBSET Uses]
  <2>1. /\ made' \in {made, [made EXCEPT ![m] = made[m] \cup {Use(m, At(m))}]}
        /\ listed' \in {listed, [listed EXCEPT ![m] = listed[m] \cup {Use(m, At(m))}]}
    BY DEF CallTool, Done, Raises, LateAnswer, LostCommit, Made, Listed
  <2>2. ASSUME NEW f \in [Messages -> SUBSET Uses]
        PROVE  [f EXCEPT ![m] = f[m] \cup {Use(m, At(m))}] \in [Messages -> SUBSET Uses]
    BY <1>1
  <2>3. /\ made \in [Messages -> SUBSET Uses]
        /\ listed \in [Messages -> SUBSET Uses]
    BY DEF TypeOK
  <2> QED BY <2>1, <2>2, <2>3
<1>3. faults' \in 0 .. MaxFaults
  BY CopilotAssumption
  DEF CopilotAssumption, TypeOK, CallTool, Done, Raises, LateAnswer, LostCommit, Fault
<1>4. results' = [results EXCEPT ![m] = results[m] \cup {At(m)}]
  BY DEF CallTool, Answered
<1> QED BY <1>1, <1>2, <1>3, <1>4 DEF TypeOK, CallTool

LEMMA EndTurnType ==
    ASSUME TypeOK, NEW m \in Messages, EndTurn(m)
    PROVE  TypeOK'
<1>1. /\ open' \in [Messages -> SUBSET Uses] /\ open'[m] \subseteq Uses
      /\ calls' = [calls EXCEPT ![m] = <<>>] /\ results' = [results EXCEPT ![m] = {}]
  BY DEF TypeOK, EndTurn
<1>2. CASE mode = "stub" \/ turn[m] = MaxTurns
  <2>1. /\ pc' = [pc EXCEPT ![m] = "ended"] /\ pc[m] = "tools"
        /\ UNCHANGED <<mode, turn, made, listed, faults>>
    BY <1>2 DEF EndTurn, Return
  <2>2. /\ history' \subseteq Uses
        /\ reply' \in [Messages -> {"none", "ok", "500", "502"}]
    BY <1>1, <1>2 DEF TypeOK, EndTurn, Return
  <2> QED BY <1>1, <2>1, <2>2 DEF TypeOK
<1>3. CASE mode = "anthropic" /\ turn[m] # MaxTurns
  <2>1. turn[m] < MaxTurns
    BY <1>3, CopilotAssumption DEF CopilotAssumption, TypeOK
  <2>2. /\ pc' = [pc EXCEPT ![m] = "model"] /\ pc[m] = "tools"
        /\ UNCHANGED <<mode, turn, made, listed, faults, reply, history>>
    BY <1>3 DEF EndTurn
  <2> QED BY <1>1, <2>1, <2>2 DEF TypeOK
<1> QED BY <1>2, <1>3 DEF TypeOK

LEMMA CrashType ==
    ASSUME TypeOK, Crash
    PROVE  TypeOK'
<1>1. faults' \in 0 .. MaxFaults
  BY CopilotAssumption DEF CopilotAssumption, TypeOK, Crash, Fault
<1>2. reply' \in [Messages -> {"none", "ok", "500", "502"}]
  BY DEF TypeOK, Crash
<1>3. pc' \in [Messages -> {"unsent", "ended"}]
  BY DEF TypeOK, Crash
<1> QED BY <1>1, <1>2, <1>3 DEF TypeOK, Crash

\* Every variable keeps its type: turns and calls stay within their bounds.
THEOREM TypeCorrect == Spec => []TypeOK
<1>1. Init => TypeOK
  BY CopilotAssumption DEF CopilotAssumption, Init, TypeOK
<1>2. TypeOK /\ [Next]_vars => TypeOK'
  <2> SUFFICES ASSUME TypeOK, [Next]_vars PROVE TypeOK'
    OBVIOUS
  <2>1. ASSUME NEW m \in Messages, ProxyTimeout(m) PROVE TypeOK'
    BY <2>1, CopilotAssumption DEF CopilotAssumption, TypeOK, ProxyTimeout, Fault
  <2>2. CASE UNCHANGED vars
    BY <2>2 DEF TypeOK, vars
  <2> QED BY <2>1, <2>2, SendType, ModelType, CallType, EndTurnType, CrashType DEF Next, Run
<1> QED BY <1>1, <1>2, PTL DEF Spec

-----------------------------------------------------------------------------
\* When a turn ends all its calls have results, so nothing is left open; what the
\* user is given holds nothing open either.
LEMMA EndTurnCloses ==
    ASSUME TypeOK, HistoryInv, NEW m \in Messages, EndTurn(m)
    PROVE  /\ open' = [open EXCEPT ![m] = {}] /\ history' = {}
           /\ \A n \in Messages : n # m => pc'[n] = pc[n]
<1>1. results[m] = DOMAIN calls[m] /\ open[m] \subseteq {Use(m, i) : i \in DOMAIN calls[m]}
  BY InTurn DEF HistoryInv, EndTurn
<1>2. open[m] \ {Use(m, i) : i \in results[m]} = {}
  BY <1>1
<1>3. open' = [open EXCEPT ![m] = {}] /\ open'[m] = {}
  BY <1>2 DEF TypeOK, EndTurn
<1>4. history' = {}
  BY <1>3 DEF EndTurn, Return, HistoryInv, HistoryComplete
<1> QED BY <1>3, <1>4 DEF TypeOK, EndTurn, Return

LEMMA HistoryKept ==
    ASSUME TypeOK, TypeOK', HistoryInv, [Next]_vars
    PROVE  HistoryInv'
<1> USE DEF HistoryInv, HistoryComplete
<1>1. ASSUME NEW m \in Messages, Send(m) PROVE HistoryInv'
  <2>1. open' = [open EXCEPT ![m] = {}] /\ history' = {}
    BY <1>1 DEF Send
  <2>2. \A n \in Messages : open'[n] = IF n = m THEN {} ELSE open[n]
    BY <2>1 DEF TypeOK
  <2>3. \A n \in Messages : n # m => /\ pc'[n] = pc[n] /\ turn'[n] = turn[n]
                                     /\ calls'[n] = calls[n]
    BY <1>1 DEF Send, TypeOK
  <2> QED BY <2>1, <2>2, <2>3 DEF Use
<1>2. ASSUME NEW m \in Messages, ModelEnds(m) \/ ModelFails(m) PROVE HistoryInv'
  <2>1. history' = {} /\ UNCHANGED <<open, turn, calls>>
    BY <1>2 DEF ModelEnds, ModelFails, Return
  <2>2. \A n \in Messages : pc'[n] \in {pc[n], "ended"}
    BY <1>2 DEF ModelEnds, ModelFails, Return, TypeOK
  <2> QED BY <2>1, <2>2 DEF Use
<1>3. ASSUME NEW m \in Messages, ModelCalls(m) PROVE HistoryInv'
  <2>1. PICK s \in CallsOf(Offered) :
           /\ calls' = [calls EXCEPT ![m] = s]
           /\ open' = [open EXCEPT ![m] = @ \cup {<<m, turn'[m], i>> : i \in DOMAIN s}]
    BY <1>3 DEF ModelCalls
  <2>2. calls'[m] = s /\ open'[m] = {<<m, turn'[m], i>> : i \in DOMAIN s} /\ pc'[m] = "tools"
    BY <1>3, <2>1 DEF ModelCalls, TypeOK
  <2>3. \A n \in Messages : n # m => /\ pc'[n] = pc[n] /\ turn'[n] = turn[n]
                                     /\ calls'[n] = calls[n] /\ open'[n] = open[n]
    BY <1>3, <2>1 DEF ModelCalls, TypeOK
  <2>4. history' = history
    BY <1>3 DEF ModelCalls
  <2> QED BY <2>2, <2>3, <2>4 DEF Use
<1>4. ASSUME NEW m \in Messages, CallTool(m) \/ ProxyTimeout(m) PROVE HistoryInv'
  BY <1>4 DEF CallTool, ProxyTimeout, Use
<1>5. ASSUME NEW m \in Messages, EndTurn(m) PROVE HistoryInv'
  <2>1. \A n \in Messages : n # m => /\ pc'[n] = pc[n] /\ turn'[n] = turn[n]
                                     /\ calls'[n] = calls[n] /\ open'[n] = open[n]
    <3>1. open' = [open EXCEPT ![m] = {}] /\ turn' = turn /\ calls' = [calls EXCEPT ![m] = <<>>]
      BY <1>5, EndTurnCloses DEF EndTurn
    <3>2. \A n \in Messages : n # m => pc'[n] = pc[n]
      BY <1>5, EndTurnCloses
    <3> QED BY <3>1, <3>2 DEF TypeOK
  <2>2. open'[m] = {} /\ history' = {}
    BY <1>5, EndTurnCloses DEF TypeOK
  <2> QED BY <2>1, <2>2 DEF Use
<1>6. CASE Crash
  <2>1. history' = history /\ open' = open
    BY <1>6 DEF Crash
  <2>2. \A n \in Messages : pc'[n] \in {"unsent", "ended"}
    BY <1>6 DEF Crash, TypeOK
  <2> QED BY <2>1, <2>2
<1>7. CASE UNCHANGED vars
  BY <1>7 DEF vars, Use
<1> QED BY <1>1, <1>2, <1>3, <1>4, <1>5, <1>6, <1>7 DEF Next, Run

\* Neither the model nor the user is ever given a conversation with a tool_use
\* that has no result.
THEOREM HistoryCompleteHolds == Spec => []HistoryComplete
<1>1. Init => HistoryInv
  BY DEF Init, HistoryInv, HistoryComplete
<1>2. TypeOK /\ TypeOK' /\ HistoryInv /\ [Next]_vars => HistoryInv'
  BY HistoryKept
<1>3. HistoryInv => HistoryComplete
  BY DEF HistoryInv
<1> QED BY <1>1, <1>2, <1>3, TypeCorrect, PTL DEF Spec

-----------------------------------------------------------------------------
\* Answers are given once and kept, so no two messages wait at the same time.
LEMMA AnswersStay ==
    ASSUME TypeOK, [Next]_vars, NEW m \in Messages, reply[m] # "none"
    PROVE  reply'[m] = reply[m]
BY DEF TypeOK, Next, Run, Send, ModelEnds, ModelCalls, ModelFails, CallTool, EndTurn,
       ProxyTimeout, Crash, Return, vars

LEMMA OrderKept ==
    ASSUME TypeOK, OrderInv, [Next]_vars
    PROVE  OrderInv'
<1>1. SUFFICES ASSUME NEW m \in Messages, pc'[m] # "unsent", NEW n \in 1 .. m - 1
               PROVE  reply'[n] # "none"
  BY DEF OrderInv
<1>2. n \in Messages
  BY CopilotAssumption DEF CopilotAssumption, Messages
<1>3. pc[m] # "unsent" \/ Send(m)
  <2>1. ASSUME NEW r \in Messages,
               Run(r) \/ ModelFails(r) \/ ProxyTimeout(r) \/ (Send(r) /\ r # m)
        PROVE  pc[m] # "unsent"
    BY <1>1, <2>1 DEF TypeOK, Run, Send, ModelEnds, ModelCalls, ModelFails, CallTool,
                      EndTurn, ProxyTimeout, Return
  <2>2. CASE Crash
    BY <1>1, <2>2 DEF Crash
  <2>3. CASE UNCHANGED vars
    BY <1>1, <2>3 DEF vars
  <2> QED BY <2>1, <2>2, <2>3 DEF Next
<1>4. reply[n] # "none"
  BY <1>3 DEF OrderInv, Send
<1> QED BY <1>2, <1>4, AnswersStay

LEMMA OneWaits ==
    ASSUME OrderInv, NEW m \in Messages, NEW n \in Messages,
           pc[m] # "unsent", pc[n] # "unsent", reply[m] = "none", reply[n] = "none"
    PROVE  m = n
<1>1. m \in Nat /\ n \in Nat /\ m > 0 /\ n > 0
  BY CopilotAssumption DEF CopilotAssumption, Messages
<1>2. ~(m < n) /\ ~(n < m)
  BY <1>1 DEF OrderInv
<1> QED BY <1>1, <1>2

-----------------------------------------------------------------------------
\* What a step can cost: it makes one more use wrong or leaves one more message
\* unanswered, and then it is a fault; or it does neither.
FaultStep ==
    \/ /\ WrongUses' \subseteq WrongUses /\ Refused' = Refused
       /\ faults' = faults
    \/ /\ \E x : WrongUses' \subseteq WrongUses \cup {x}
       /\ Refused' = Refused /\ faults' = faults + 1
    \/ /\ WrongUses' \subseteq WrongUses
       /\ \E m \in Messages : Refused' \subseteq Refused \cup {m}
       /\ faults' = faults + 1

\* The uses that count depend on who is answered, and on what was made and listed.
LEMMA FewerWrong ==
    ASSUME UNCHANGED <<made, listed>>, Refused \subseteq Refused'
    PROVE  WrongUses' \subseteq WrongUses
BY DEF WrongUses, Wrong

LEMMA QuietStep ==
    ASSUME UNCHANGED <<made, listed, faults>>,
           \A m \in Messages :
              reply'[m] = reply[m] \/ (reply[m] = "none" /\ reply'[m] = "ok")
    PROVE  FaultStep
<1>1. Refused' = Refused
  BY DEF Refused
<1> QED BY <1>1, FewerWrong DEF FaultStep

LEMMA UnansweredStep ==
    ASSUME TypeOK, UNCHANGED <<made, listed>>, Fault, NEW m \in Messages,
           \A n \in Messages : n # m => reply'[n] = reply[n],
           reply'[m] = reply[m] \/ reply[m] = "none"
    PROVE  FaultStep
<1>1. /\ Refused \subseteq Refused'
      /\ Refused' \subseteq Refused \cup {m}
  BY DEF Refused
<1> QED BY <1>1, FewerWrong DEF FaultStep, Fault

\* A call of a tool.
LEMMA CallCosts ==
    ASSUME TypeOK, NEW m \in Messages, CallTool(m)
    PROVE  FaultStep
<1>1. Refused' = Refused
  BY DEF CallTool, Refused
<1> DEFINE x == Use(m, At(m))
<1>2. \A n \in Messages : n # m => made'[n] = made[n] /\ listed'[n] = listed[n]
  BY DEF TypeOK, CallTool, Done, Raises, LateAnswer, LostCommit, Made, Listed
<1>3. CASE Done(m)
  <2>1. made'[m] = made[m] \cup {x} /\ listed'[m] = listed[m] \cup {x}
    BY <1>3 DEF TypeOK, Done, Made, Listed
  <2>2. \A n \in Messages : Wrong(n)' \subseteq Wrong(n)
    BY <1>2, <2>1 DEF Wrong
  <2>3. WrongUses' \subseteq WrongUses
    BY <1>1, <2>2 DEF WrongUses
  <2> QED BY <1>1, <1>3, <2>3 DEF FaultStep, Done
<1>4. CASE Raises(m)
  BY <1>4, QuietStep DEF CallTool, Raises
<1>5. CASE LateAnswer(m) \/ LostCommit(m)
  <2>1. /\ made'[m] \in {made[m], made[m] \cup {x}}
        /\ listed'[m] \in {listed[m], listed[m] \cup {x}}
    BY <1>5 DEF TypeOK, LateAnswer, LostCommit, Made, Listed
  <2>2. \A n \in Messages : Wrong(n)' \subseteq Wrong(n) \cup {x}
    BY <1>2, <2>1 DEF Wrong
  <2>3. WrongUses' \subseteq WrongUses \cup {x}
    BY <1>1, <2>2 DEF WrongUses
  <2> QED BY <1>1, <1>5, <2>3 DEF FaultStep, LateAnswer, LostCommit, Fault
<1> QED BY <1>3, <1>4, <1>5 DEF CallTool

\* Every step costs as much as it may: a crash ends many coroutines, but one
\* message at most was waiting.
LEMMA StepCosts ==
    ASSUME TypeOK, OrderInv, [Next]_vars
    PROVE  FaultStep
<1>1. ASSUME NEW m \in Messages, Send(m) \/ ModelEnds(m) \/ ModelCalls(m) \/ EndTurn(m)
      PROVE  FaultStep
  <2>1. UNCHANGED <<made, listed, faults>>
    BY <1>1 DEF Send, ModelEnds, ModelCalls, EndTurn
  <2>2. \A n \in Messages :
           reply'[n] = reply[n] \/ (reply[n] = "none" /\ reply'[n] = "ok")
    BY <1>1 DEF TypeOK, Send, ModelEnds, ModelCalls, EndTurn, Return
  <2> QED BY <2>1, <2>2, QuietStep
<1>2. ASSUME NEW m \in Messages, ModelFails(m) \/ ProxyTimeout(m) PROVE FaultStep
  <2>1. /\ \A n \in Messages : n # m => reply'[n] = reply[n]
        /\ reply'[m] = reply[m] \/ reply[m] = "none"
    BY <1>2 DEF TypeOK, ModelFails, ProxyTimeout, Return
  <2> QED BY <1>2, <2>1, UnansweredStep DEF ModelFails, ProxyTimeout
<1>3. ASSUME NEW m \in Messages, CallTool(m) PROVE FaultStep
  BY <1>3, CallCosts
<1>4. CASE Crash
  <2>1. PICK r \in Messages : pc[r] \in {"model", "tools"}
    BY <1>4 DEF Crash
  <2>2. PICK m \in Messages :
           \A n \in Messages : pc[n] \in {"model", "tools"} /\ reply[n] = "none" => n = m
    <3>1. CASE \E n \in Messages : pc[n] \in {"model", "tools"} /\ reply[n] = "none"
      BY <3>1, OneWaits
    <3>2. CASE ~ \E n \in Messages : pc[n] \in {"model", "tools"} /\ reply[n] = "none"
      BY <2>1, <3>2
    <3> QED BY <3>1, <3>2
  <2>3. /\ \A n \in Messages : n # m => reply'[n] = reply[n]
        /\ reply'[m] = reply[m] \/ reply[m] = "none"
    BY <1>4, <2>2 DEF Crash
  <2> QED BY <1>4, <2>3, UnansweredStep DEF Crash
<1>5. CASE UNCHANGED vars
  BY <1>5, QuietStep DEF vars
<1> QED BY <1>1, <1>2, <1>3, <1>4, <1>5 DEF Next, Run

\* Two bounded sets stay within a bound that grows with them.
LEMMA FaultsCover ==
    ASSUME TypeOK, FaultInv, FaultStep
    PROVE  FaultInv'
<1>1. faults \in Nat /\ Cardinality(WrongUses) \in Nat /\ Cardinality(Refused) \in Nat
  BY FS_CardinalityType, CopilotAssumption DEF CopilotAssumption, TypeOK, FaultInv
<1>2. CASE WrongUses' \subseteq WrongUses /\ Refused' = Refused /\ faults' = faults
  <2>1. IsFiniteSet(WrongUses') /\ Cardinality(WrongUses') <= Cardinality(WrongUses)
    BY <1>2, Uncharged, <1>1 DEF FaultInv
  <2>2. Cardinality(WrongUses') \in Nat
    BY <2>1, FS_CardinalityType
  <2> QED BY <1>1, <1>2, <2>1, <2>2 DEF FaultInv
<1>3. ASSUME NEW x, WrongUses' \subseteq WrongUses \cup {x},
             Refused' = Refused, faults' = faults + 1
      PROVE  FaultInv'
  <2>1. IsFiniteSet(WrongUses') /\ Cardinality(WrongUses') <= Cardinality(WrongUses) + 1
    BY <1>3, Charged, <1>1 DEF FaultInv
  <2>2. Cardinality(WrongUses') \in Nat
    BY <2>1, FS_CardinalityType
  <2> QED BY <1>1, <1>3, <2>1, <2>2 DEF FaultInv
<1>4. ASSUME WrongUses' \subseteq WrongUses, faults' = faults + 1,
             NEW m, Refused' \subseteq Refused \cup {m}
      PROVE  FaultInv'
  <2>1. IsFiniteSet(WrongUses') /\ Cardinality(WrongUses') <= Cardinality(WrongUses)
    BY <1>4, Uncharged, <1>1 DEF FaultInv
  <2>2. /\ IsFiniteSet(Refused')
        /\ Cardinality(Refused') <= Cardinality(Refused) + 1
    <3>1. IsFiniteSet(Refused) /\ Cardinality(Refused) <= Cardinality(Refused)
      BY <1>1 DEF FaultInv
    <3> QED BY <1>1, <1>4, <3>1, Charged
  <2>3. Cardinality(WrongUses') \in Nat /\ Cardinality(Refused') \in Nat
    BY <2>1, <2>2, FS_CardinalityType
  <2> QED BY <1>1, <1>4, <2>1, <2>2, <2>3 DEF FaultInv
<1> QED BY <1>2, <1>3, <1>4 DEF FaultStep

\* The inductive invariant holds in every reachable state.
THEOREM Invariance == Spec => []IInv
<1>1. Init => OrderInv /\ FaultInv
  <2> SUFFICES ASSUME Init PROVE OrderInv /\ FaultInv
    OBVIOUS
  <2>1. WrongUses = {} /\ Refused = {}
    BY DEF Init, WrongUses, Wrong, Refused
  <2> QED BY <2>1, FS_EmptySet DEF Init, OrderInv, FaultInv
<1>2. Init => HistoryInv
  BY DEF Init, HistoryInv, HistoryComplete
<1>3. TypeOK /\ TypeOK' /\ HistoryInv /\ [Next]_vars => HistoryInv'
  BY HistoryKept
<1>4. TypeOK /\ OrderInv /\ FaultInv /\ [Next]_vars => OrderInv' /\ FaultInv'
  BY OrderKept, StepCosts, FaultsCover
<1> QED BY <1>1, <1>2, <1>3, <1>4, TypeCorrect, PTL DEF Spec, IInv

\* Answers differ from what was done by one use per fault, and a message that is
\* not answered costs a fault of its own.
THEOREM ToldIsDoneHolds == Spec => []ToldIsDone
<1>1. IInv => ToldIsDone
  <2> SUFFICES ASSUME IInv PROVE ToldIsDone
    OBVIOUS
  <2> DEFINE WrongAnswers == UNION {Wrong(m) : m \in Served}
  <2>1. WrongAnswers \subseteq WrongUses
    BY DEF WrongUses, Served, Refused
  <2>2. /\ faults \in Nat /\ Cardinality(WrongUses) \in Nat
        /\ Cardinality(Refused) \in Nat
    BY FS_CardinalityType, CopilotAssumption
    DEF CopilotAssumption, IInv, TypeOK, FaultInv
  <2>3. IsFiniteSet(WrongAnswers) /\ Cardinality(WrongAnswers) <= Cardinality(WrongUses)
    BY <2>1, <2>2, Uncharged DEF IInv, FaultInv
  <2>4. Cardinality(WrongAnswers) \in Nat
    BY <2>3, FS_CardinalityType
  <2> QED BY <2>2, <2>3, <2>4 DEF IInv, FaultInv, ToldIsDone
<1> QED BY <1>1, Invariance, PTL
=============================================================================

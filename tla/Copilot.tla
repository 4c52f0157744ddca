------------------------------ MODULE Copilot -------------------------------
(***************************************************************************)
(* The chat: the gateway's proxy and, behind it, one coroutine per message  *)
(* in the copilot service, which either lets a language model choose tools  *)
(* turn after turn (anthropic_loop) or runs the commands of the message one *)
(* by one (stub_loop).  A tool is an HTTP call back to the gateway.         *)
(*                                                                         *)
(* A user sends a message once the one before is answered, with the history *)
(* that the newest good answer brought.  The proxy may give a message up    *)
(* while its coroutine goes on, so coroutines of one user can overlap.      *)
(***************************************************************************)
EXTENDS Naturals, Sequences, FiniteSets, Functions

CONSTANTS
    MaxMessages,  \* messages the user sends
    Offered,      \* tools the model, or the user's commands, may call
    MaxTurns,     \* MAX_TURNS (14 in the code)
    MaxCalls,     \* bound on tool calls in a turn, or commands in a message
    MaxFaults     \* bound on timeouts, failed calls and crashes

Tools == {"search_catalog", "create_goal", "enable_catalog_material",
          "create_private_material", "compose_indicator_formula",
          "add_indicator_to_goal", "propose_aspect"}
Writes == Tools \ {"search_catalog"}

\* _parse: the tool each command of the stub stands for.
CommandTool == [goal |-> "create_goal", search |-> "search_catalog",
                enable |-> "enable_catalog_material", private |-> "create_private_material",
                compose |-> "compose_indicator_formula", link |-> "add_indicator_to_goal"]

ASSUME CopilotAssumption ==
    /\ MaxMessages \in Nat /\ MaxCalls \in Nat /\ MaxFaults \in Nat
    /\ MaxTurns \in Nat \ {0} /\ Offered \subseteq Tools

Messages == 1 .. MaxMessages
CallsOf(tools) == UNION {[1 .. n -> tools] : n \in 1 .. MaxCalls}
Uses == Messages \X (1 .. MaxTurns) \X (1 .. MaxCalls)  \* tool_use ids

VARIABLES
    mode,           \* anthropic or stub, fixed when the service starts
    pc, turn,       \* the coroutine of each message, and the turn it is in
    calls, results, \* calls of that turn, and the positions that have a result
    open,           \* tool_use ids without a tool_result in its `messages'
    made, listed,   \* uses carried out, and uses tool_calls shows a result of
    reply,          \* what the user was answered
    history,        \* unanswered tool_use ids in the history the user holds
    faults

vars == <<mode, pc, turn, calls, results, open, made, listed, reply, history, faults>>

Fault == faults < MaxFaults /\ faults' = faults + 1
At(m) == Cardinality(results[m]) + 1
Use(m, i) == <<m, turn[m], i>>
-----------------------------------------------------------------------------
Init ==
    /\ mode \in {"anthropic", "stub"}
    /\ pc = [m \in Messages |-> "unsent"] /\ turn = [m \in Messages |-> 0]
    /\ calls = [m \in Messages |-> <<>>] /\ results = [m \in Messages |-> {}]
    /\ open = [m \in Messages |-> {}]
    /\ made = [m \in Messages |-> {}] /\ listed = [m \in Messages |-> {}]
    /\ reply = [m \in Messages |-> "none"]
    /\ history = {} /\ faults = 0

\* handleV2CopilotConverse and converse: the message reaches its loop.  In stub
\* mode it is a list of commands.
Send(m) ==
    /\ pc[m] = "unsent" /\ \A n \in 1 .. m - 1 : reply[n] # "none"
    /\ IF mode = "anthropic"
       THEN /\ pc' = [pc EXCEPT ![m] = "model"]
            /\ UNCHANGED <<turn, calls>>
       ELSE /\ pc' = [pc EXCEPT ![m] = "tools"] /\ turn' = [turn EXCEPT ![m] = 1]
            /\ \E s \in CallsOf(Offered \cap Range(CommandTool)) :
                  calls' = [calls EXCEPT ![m] = s]
    /\ open' = [open EXCEPT ![m] = history]
    /\ UNCHANGED <<mode, results, made, listed, reply, history, faults>>

\* The loop returns.  The proxy passes the answer on, unless it has given up.
Return(m, answer, held) ==
    /\ pc' = [pc EXCEPT ![m] = "ended"]
    /\ IF reply[m] = "none"
       THEN /\ reply' = [reply EXCEPT ![m] = answer]
            /\ history' = IF answer = "ok" THEN held ELSE history
       ELSE UNCHANGED <<reply, history>>

\* The model answers with text only: the conversation ends.
ModelEnds(m) ==
    /\ pc[m] = "model" /\ Return(m, "ok", open[m])
    /\ UNCHANGED <<mode, turn, calls, results, open, made, listed, faults>>

\* Mutant: turns are not counted.
ModelCallsUncounted(m) ==
    /\ pc[m] = "model" /\ pc' = [pc EXCEPT ![m] = "tools"]
    /\ turn' = [turn EXCEPT ![m] = 1]
    /\ \E s \in CallsOf(Offered) :
          /\ calls' = [calls EXCEPT ![m] = s]
          /\ open' = [open EXCEPT ![m] = @ \cup {<<m, turn'[m], i>> : i \in DOMAIN s}]
    /\ UNCHANGED <<mode, results, made, listed, reply, history, faults>>

\* The model asks for tools: the assistant's message is kept.
ModelCalls(m) ==
    /\ pc[m] = "model" /\ pc' = [pc EXCEPT ![m] = "tools"]
    /\ turn' = [turn EXCEPT ![m] = @ + 1]
    /\ \E s \in CallsOf(Offered) :
          /\ calls' = [calls EXCEPT ![m] = s]
          /\ open' = [open EXCEPT ![m] = @ \cup {<<m, turn'[m], i>> : i \in DOMAIN s}]
    /\ UNCHANGED <<mode, results, made, listed, reply, history, faults>>

\* The model's API fails: the exception leaves the loop, and is answered by 500.
ModelFails(m) ==
    /\ pc[m] = "model" /\ Fault /\ Return(m, "500", open[m])
    /\ UNCHANGED <<mode, turn, calls, results, open, made, listed>>

Made(m) == made' = [made EXCEPT ![m] = @ \cup {Use(m, At(m))}]
Listed(m) == listed' = [listed EXCEPT ![m] = @ \cup {Use(m, At(m))}]
Answered(m) == results' = [results EXCEPT ![m] = @ \cup {At(m)}]

\* What call_tool, and the gateway behind it, can make of a call.
Done(m) ==                              \* carried out, and answered by 200
    Made(m) /\ Listed(m) /\ UNCHANGED faults
Raises(m) ==      \* a command or arguments it cannot read, or an error answer
    UNCHANGED <<made, listed, faults>>
LateAnswer(m) ==                        \* a timeout: carried out or not
    Fault /\ (Made(m) \/ UNCHANGED made) /\ UNCHANGED listed
LostCommit(m) ==                        \* answered by 200, then the commit fails
    calls[m][At(m)] \in Writes /\ Fault /\ Listed(m) /\ UNCHANGED made

\* Mutant: a command is listed before its tool is called.
CallToolListsFirst(m) ==
    /\ pc[m] = "tools" /\ At(m) <= Len(calls[m])
    /\ Done(m) \/ (Listed(m) /\ UNCHANGED <<made, faults>>)
    /\ Answered(m)
    /\ UNCHANGED <<mode, pc, turn, calls, open, reply, history>>

\* Mutant: a call that raises ends the turn's list of calls without a result.
CallToolDropsErrors(m) ==
    /\ pc[m] = "tools" /\ At(m) <= Len(calls[m])
    /\ \/ Done(m) /\ Answered(m) /\ UNCHANGED calls
       \/ /\ Raises(m) /\ UNCHANGED results
          /\ calls' = [calls EXCEPT ![m] = SubSeq(@, 1, At(m) - 1)]
    /\ UNCHANGED <<mode, pc, turn, open, reply, history>>

\* The next call of the turn: whatever comes of it is its result.
CallTool(m) ==
    /\ pc[m] = "tools" /\ At(m) <= Len(calls[m])
    /\ Done(m) \/ Raises(m) \/ LateAnswer(m) \/ LostCommit(m)
    /\ Answered(m)
    /\ UNCHANGED <<mode, pc, turn, calls, open, reply, history>>

\* Mutant: the calls of a turn stay in hand when it is over.
EndTurnKeeps(m) ==
    /\ pc[m] = "tools" /\ At(m) > Len(calls[m])
    /\ open' = [open EXCEPT ![m] = @ \ {Use(m, i) : i \in results[m]}]
    /\ results' = [results EXCEPT ![m] = {}] /\ UNCHANGED calls
    /\ IF mode = "stub" \/ turn[m] = MaxTurns
       THEN Return(m, "ok", open'[m])
       ELSE pc' = [pc EXCEPT ![m] = "model"] /\ UNCHANGED <<reply, history>>
    /\ UNCHANGED <<mode, turn, made, listed, faults>>

\* The results are appended, and the model is asked again unless the turns are
\* used up; the stub has answered.
EndTurn(m) ==
    /\ pc[m] = "tools" /\ At(m) > Len(calls[m])
    /\ open' = [open EXCEPT ![m] = @ \ {Use(m, i) : i \in results[m]}]
    /\ results' = [results EXCEPT ![m] = {}] /\ calls' = [calls EXCEPT ![m] = <<>>]
    /\ IF mode = "stub" \/ turn[m] = MaxTurns
       THEN Return(m, "ok", open'[m])
       ELSE pc' = [pc EXCEPT ![m] = "model"] /\ UNCHANGED <<reply, history>>
    /\ UNCHANGED <<mode, turn, made, listed, faults>>

\* The proxy gives up after 60 seconds; the coroutine does not hear of it.
ProxyTimeout(m) ==
    /\ pc[m] \in {"model", "tools"} /\ reply[m] = "none" /\ Fault
    /\ reply' = [reply EXCEPT ![m] = "502"]
    /\ UNCHANGED <<mode, pc, turn, calls, results, open, made, listed, history>>

\* The service dies: every coroutine ends, and the one waited for is answered 502.
Crash ==
    LET running == {m \in Messages : pc[m] \in {"model", "tools"}}
    IN /\ running # {} /\ Fault
       /\ pc' = [m \in Messages |-> IF m \in running THEN "ended" ELSE pc[m]]
       /\ calls' = [m \in Messages |-> <<>>] /\ results' = [m \in Messages |-> {}]
       /\ reply' = [m \in Messages |->
                       IF m \in running /\ reply[m] = "none" THEN "502" ELSE reply[m]]
       /\ UNCHANGED <<mode, turn, open, made, listed, history>>
-----------------------------------------------------------------------------
Run(m) == ModelEnds(m) \/ ModelCalls(m) \/ CallTool(m) \/ EndTurn(m)
Next == Crash \/ \E m \in Messages : Send(m) \/ Run(m) \/ ModelFails(m) \/ ProxyTimeout(m)

Spec == Init /\ [][Next]_vars

\* A coroutine's awaits end: the model's client and call_tool have timeouts.
FairSpec == Spec /\ \A m \in Messages : WF_vars(Run(m))
-----------------------------------------------------------------------------
(* What the chat must guarantee. *)

\* Every variable has its type; a coroutine has calls in hand exactly while it
\* works on a turn, and never more turns than it may take.
TypeOK ==
    /\ mode \in {"anthropic", "stub"}
    /\ pc \in [Messages -> {"unsent", "model", "tools", "ended"}]
    /\ turn \in [Messages -> 0 .. MaxTurns]
    /\ calls \in [Messages -> CallsOf(Offered) \cup {<<>>}]
    /\ results \in [Messages -> SUBSET (1 .. MaxCalls)]
    /\ \A m \in Messages :
          /\ calls[m] # <<>> <=> pc[m] = "tools"
          /\ results[m] \subseteq DOMAIN calls[m]
          /\ pc[m] \in {"unsent", "model"} => turn[m] < MaxTurns
          /\ pc[m] = "tools" => turn[m] > 0
    /\ open \in [Messages -> SUBSET Uses]
    /\ made \in [Messages -> SUBSET Uses] /\ listed \in [Messages -> SUBSET Uses]
    /\ reply \in [Messages -> {"none", "ok", "500", "502"}]
    /\ history \subseteq Uses /\ faults \in 0 .. MaxFaults

\* Whatever became of the calls, the model is never sent a conversation with a
\* tool_use that has no tool_result, which its API refuses, and neither does the
\* user hold such a history.
HistoryComplete ==
    /\ history = {}
    /\ \A m \in Messages : pc[m] = "model" => open[m] = {}

\* What an answer lists was carried out and what was carried out is listed, but
\* for one use per fault; a message that is not answered so costs a fault of its
\* own, however much of it was carried out.
Served == {m \in Messages : reply[m] = "ok"}
Refused == {m \in Messages : reply[m] \in {"500", "502"}}
Wrong(m) == (made[m] \ listed[m]) \cup (listed[m] \ made[m])
ToldIsDone ==
    Cardinality(UNION {Wrong(m) : m \in Served}) + Cardinality(Refused) <= faults

\* Every message that is sent is answered, and its coroutine ends.
EveryMessageAnswered ==
    \A m \in Messages :
        pc[m] # "unsent" ~> reply[m] # "none" /\ pc[m] = "ended"

-----------------------------------------------------------------------------
(* The inductive invariant behind HistoryComplete and ToldIsDone. *)

\* Only the calls of a turn that is under way can lack a result.
HistoryInv ==
    /\ HistoryComplete
    /\ \A m \in Messages :
          pc[m] = "tools" => open[m] \subseteq {Use(m, i) : i \in DOMAIN calls[m]}

\* Messages are sent one by one, and an answer is never taken back.
OrderInv ==
    \A m \in Messages : pc[m] # "unsent" => \A n \in 1 .. m - 1 : reply[n] # "none"

\* Each fault made one use wrong or left one message unanswered; uses of messages
\* that are still to be answered count already.
WrongUses == UNION {Wrong(m) : m \in Messages \ Refused}
FaultInv ==
    /\ IsFiniteSet(WrongUses) /\ IsFiniteSet(Refused)
    /\ Cardinality(WrongUses) + Cardinality(Refused) <= faults

IInv == TypeOK /\ HistoryInv /\ OrderInv /\ FaultInv
=============================================================================

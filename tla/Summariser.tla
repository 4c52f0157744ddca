----------------------------- MODULE Summariser -----------------------------
(***************************************************************************)
(* The summariser (ai-service): one process reads analysis-results, asks an *)
(* external AI for a summary of each page and inserts it in PostgreSQL.     *)
(* RESILIENCE_MODE picks what surrounds the call: exponential backoff,      *)
(* backpressure or a circuit breaker.                                      *)
(*                                                                         *)
(* Time is what has expired: a call result is inside the backpressure       *)
(* window or `old', and an open breaker has cooled down or not.             *)
(***************************************************************************)
EXTENDS Naturals, Sequences, FiniteSets

CONSTANTS
    Messages,          \* length of the partition
    Modes,             \* values of RESILIENCE_MODE considered
    MaxRetries,        \* max_retries of the backoff (5 in the code)
    FailureThreshold,  \* failure_threshold of the breaker (5 in the code)
    MaxFaults          \* bound on crashes and database errors

ASSUME SummariserAssumption ==
    /\ Messages \in Nat
    /\ Modes \subseteq {"backoff", "backpressure", "circuit_breaker"}
    /\ MaxRetries \in Nat /\ FailureThreshold \in Nat \ {0}
    /\ MaxFaults \in Nat

VARIABLES
    mode,
    committed, position, msg,   \* offsets: committed, next, in hand
    pc,
    attempt,                    \* backoff: retries of the current call
    window, paused,             \* backpressure: recorded results; the flag
    state, failures, cooled,    \* breaker: state, consecutive failures, timer
    rows,                       \* analysis_results rows of each message
    faults,
    streak,     \* history: failed AI calls since the last good one
    refused     \* history: messages whose last AI call failed

vars == <<mode, committed, position, msg, pc, attempt, window, paused, state,
          failures, cooled, rows, faults, streak, refused>>
offsetVars == <<committed, position, msg>>
breakerVars == <<state, failures, cooled>>
pressureVars == <<window, paused>>

Offsets == 1 .. Messages
NoRow == [real |-> 0, fallback |-> 0]
-----------------------------------------------------------------------------
\* A fresh process: every strategy starts from its constructor.
Fresh ==
    /\ pc' = "loop" /\ attempt' = 0
    /\ window' = <<>> /\ paused' = FALSE
    /\ state' = "CLOSED" /\ failures' = 0 /\ cooled' = FALSE
    /\ streak' = 0

Init ==
    /\ mode \in Modes
    /\ committed = 1 /\ position = 1 /\ msg = 0
    /\ pc = "loop" /\ attempt = 0
    /\ window = <<>> /\ paused = FALSE
    /\ state = "CLOSED" /\ failures = 0 /\ cooled = FALSE
    /\ rows = [o \in Offsets |-> NoRow]
    /\ faults = 0 /\ streak = 0 /\ refused = {}

\* should_pause: the rate is taken over the recorded results as they are; only
\* recording a new one trims those that left the window.
Failed(w) == Cardinality({i \in DOMAIN w : ~w[i].ok})
ShouldPause ==
    LET high == 2 * Failed(window) > Len(window)
        low == 10 * Failed(window) < 3 * Len(window) \/ window = <<>>
    IN  (~paused /\ high) \/ (paused /\ ~low)

\* Mutant: the position stays where it is.
PollPeeks ==
    /\ pc = "loop" /\ position \in Offsets
    /\ msg' = position /\ pc' = "gate" /\ attempt' = 0
    /\ UNCHANGED <<mode, committed, position, rows, faults, streak, refused>>
    /\ UNCHANGED breakerVars /\ UNCHANGED pressureVars

\* Mutant: an open breaker pauses the poll, as a bad window does.
PollUnlessOpen ==
    /\ pc = "loop" /\ position \in Offsets /\ state # "OPEN"
    /\ msg' = position /\ position' = position + 1
    /\ attempt' = 0 /\ pc' = "gate"
    /\ UNCHANGED <<mode, committed, rows, faults, streak, refused>>
    /\ UNCHANGED breakerVars /\ UNCHANGED pressureVars

\* One turn of the loop: a pausing service sleeps, any other one polls.
Poll ==
    /\ pc = "loop"
    /\ IF mode = "backpressure" /\ ShouldPause
       THEN /\ paused' = TRUE
            /\ UNCHANGED <<position, msg, attempt, pc>>
       ELSE /\ position \in Offsets
            /\ paused' = FALSE
            /\ msg' = position /\ position' = position + 1
            /\ attempt' = 0 /\ pc' = "gate"
    /\ UNCHANGED <<mode, committed, window, rows, faults, streak, refused>>
    /\ UNCHANGED breakerVars

\* Mutant: what an open breaker rejects gets no row.
GateDrops ==
    /\ pc = "gate"
    /\ IF state = "OPEN"
       THEN IF cooled THEN state' = "HALF_OPEN" /\ pc' = "call"
                      ELSE pc' = "loop" /\ UNCHANGED state
       ELSE pc' = "call" /\ UNCHANGED state
    /\ UNCHANGED <<mode, attempt, failures, cooled, rows, faults, streak, refused>>
    /\ UNCHANGED offsetVars /\ UNCHANGED pressureVars

\* Before the call: an open breaker answers itself until it has cooled down.
Gate ==
    /\ pc = "gate"
    /\ IF mode = "circuit_breaker" /\ state = "OPEN"
       THEN IF cooled THEN state' = "HALF_OPEN" /\ pc' = "call"
                      ELSE pc' = "save fallback" /\ UNCHANGED state
       ELSE pc' = "call" /\ UNCHANGED state
    /\ UNCHANGED <<mode, attempt, failures, cooled, rows, faults, streak, refused>>
    /\ UNCHANGED offsetVars /\ UNCHANGED pressureVars

\* Mutant: one retry too many.
BackoffOneMore(ok) ==
    /\ IF ok THEN pc' = "save" /\ UNCHANGED attempt
       ELSE IF attempt <= MaxRetries THEN attempt' = attempt + 1 /\ UNCHANGED pc
       ELSE pc' = "loop" /\ UNCHANGED attempt
    /\ UNCHANGED breakerVars /\ UNCHANGED window

\* Backoff: try again until the retries are used up.
Backoff(ok) ==
    /\ IF ok THEN pc' = "save" /\ UNCHANGED attempt
       ELSE IF attempt < MaxRetries THEN attempt' = attempt + 1 /\ UNCHANGED pc
       ELSE pc' = "loop" /\ UNCHANGED attempt
    /\ UNCHANGED breakerVars /\ UNCHANGED window

\* Backpressure: record the result, dropping those older than the window, which
\* come first.
Record(ok) ==
    /\ \E n \in 0 .. Len(window) :
          /\ \A i \in DOMAIN window : window[i].old <=> i <= n
          /\ window' = Append(SubSeq(window, n + 1, Len(window)), [ok |-> ok, old |-> FALSE])
    /\ pc' = IF ok THEN "save" ELSE "loop"
    /\ UNCHANGED attempt /\ UNCHANGED breakerVars

\* The breaker opens and its timer starts.
Opens == state' = "OPEN" /\ cooled' = FALSE

\* Mutant: a success does not reset the count.
BreakerKeepsCount(ok) ==
    /\ \/ ok /\ state' = "CLOSED" /\ UNCHANGED <<failures, cooled>>
       \/ ~ok /\ state = "HALF_OPEN" /\ Opens /\ UNCHANGED failures
       \/ /\ ~ok /\ state = "CLOSED"
          /\ failures' = failures + 1
          /\ IF failures + 1 >= FailureThreshold THEN Opens
                                                 ELSE UNCHANGED <<state, cooled>>
    /\ pc' = IF ok THEN "save" ELSE "loop"
    /\ UNCHANGED <<attempt, window>>

\* Breaker: the state machine after the call.
Breaker(ok) ==
    /\ \/ /\ ok
          /\ state' = "CLOSED" /\ failures' = 0 /\ UNCHANGED cooled
       \/ /\ ~ok /\ state = "HALF_OPEN"
          /\ Opens /\ UNCHANGED failures
       \/ /\ ~ok /\ state = "CLOSED"
          /\ failures' = failures + 1
          /\ IF failures + 1 >= FailureThreshold THEN Opens
                                                 ELSE UNCHANGED <<state, cooled>>
    /\ pc' = IF ok THEN "save" ELSE "loop"
    /\ UNCHANGED <<attempt, window>>

\* The AI answers 200, or 429 or 500.
CallAI ==
    /\ pc = "call"
    /\ \E ok \in BOOLEAN :
          /\ \/ mode = "backoff" /\ Backoff(ok)
             \/ mode = "backpressure" /\ Record(ok)
             \/ mode = "circuit_breaker" /\ Breaker(ok)
          /\ streak' = IF ok THEN 0 ELSE streak + 1
          /\ refused' = IF ok THEN refused \ {msg} ELSE refused \cup {msg}
    /\ UNCHANGED <<mode, paused, rows, faults>> /\ UNCHANGED offsetVars

\* save_result: a plain insert, of the summary or of the fallback text.
Save ==
    /\ pc \in {"save", "save fallback"}
    /\ rows' = IF pc = "save" THEN [rows EXCEPT ![msg].real = @ + 1]
                              ELSE [rows EXCEPT ![msg].fallback = @ + 1]
    /\ pc' = "loop"
    /\ UNCHANGED <<mode, attempt, faults, streak, refused>>
    /\ UNCHANGED offsetVars /\ UNCHANGED breakerVars /\ UNCHANGED pressureVars

\* The client commits in the background what it has handed out.
AutoCommit ==
    /\ committed # position
    /\ committed' = position
    /\ UNCHANGED <<mode, position, msg, pc, attempt, rows, faults, streak, refused>>
    /\ UNCHANGED breakerVars /\ UNCHANGED pressureVars

\* A database error ends the process through its finally clause, which commits
\* the offset; a kill commits nothing.  The scheduler starts a new process.
Crash ==
    /\ faults < MaxFaults /\ faults' = faults + 1
    /\ \/ pc \in {"save", "save fallback"} /\ committed' = position /\ UNCHANGED position
       \/ position' = committed /\ UNCHANGED committed
    /\ Fresh
    /\ UNCHANGED <<mode, msg, rows, refused>>

\* Ten seconds pass for the oldest results, thirty for an open breaker.
AgeResult ==
    /\ \E i \in DOMAIN window :
          /\ ~window[i].old /\ \A j \in 1 .. (i - 1) : window[j].old
          /\ window' = [window EXCEPT ![i].old = TRUE]
    /\ UNCHANGED <<mode, pc, attempt, paused, rows, faults, streak, refused>>
    /\ UNCHANGED offsetVars /\ UNCHANGED breakerVars
CoolDown ==
    /\ state = "OPEN" /\ ~cooled
    /\ cooled' = TRUE
    /\ UNCHANGED <<mode, pc, attempt, state, failures, rows, faults, streak, refused>>
    /\ UNCHANGED offsetVars /\ UNCHANGED pressureVars
-----------------------------------------------------------------------------
Work == Poll \/ Gate \/ CallAI \/ Save
Time == AgeResult \/ CoolDown
Next == Work \/ Time \/ AutoCommit \/ Crash

Spec == Init /\ [][Next]_vars

\* The loop goes on and time passes; nothing makes the AI succeed.
FairSpec == Spec /\ WF_vars(Work) /\ WF_vars(Time)
-----------------------------------------------------------------------------
(* What the service must guarantee. *)

Results == [ok : BOOLEAN, old : BOOLEAN]
Counts == [real : Nat, fallback : Nat]

\* Every variable has its type.
TypeOK ==
    /\ mode \in Modes
    /\ committed \in 1 .. (Messages + 1) /\ position \in committed .. (Messages + 1)
    /\ msg \in 0 .. Messages
    /\ pc \in {"loop", "gate", "call", "save", "save fallback"}
    /\ attempt \in 0 .. MaxRetries
    /\ window \in Seq(Results)
    /\ paused \in BOOLEAN /\ cooled \in BOOLEAN
    /\ state \in {"CLOSED", "OPEN", "HALF_OPEN"}
    /\ failures \in 0 .. FailureThreshold
    /\ rows \in [Offsets -> Counts]
    /\ faults \in 0 .. MaxFaults
    /\ streak \in Nat

\* The breaker's memory agrees with what the AI really did: closed, it counts
\* the current run of failures and has not reached the threshold; open or half
\* open, the run goes on and has reached it.
BreakerTracksStreak ==
    mode = "circuit_breaker" =>
        IF state = "CLOSED" THEN failures = streak /\ streak < FailureThreshold
                            ELSE streak >= FailureThreshold

\* A message ends without a row only if the AI refused it, or for one message
\* per crash: nothing else is dropped.
InHand == IF pc = "loop" THEN {} ELSE {msg}
Dropped == {o \in Offsets : o < position /\ rows[o] = NoRow} \ (InHand \cup refused)
NoSilentDrop == Cardinality(Dropped) <= faults

\* A message has one row for each time it was delivered at most.
RowsBounded == \A o \in Offsets : rows[o].real + rows[o].fallback <= 1 + faults

\* Every message ends in one row, but for what the AI refused and what crashes
\* explain.
RowPerMessage == NoSilentDrop /\ RowsBounded

\* Backoff and breaker always get through the partition, however the AI fails.
NeverStalls == mode # "backpressure" => <>[](position = Messages + 1 /\ pc = "loop")

\* resilience.py:46-47: consumption pauses over a bad window and resumes when
\* the error rate of the last ten seconds drops.
PauseEnds == paused ~> ~paused

-----------------------------------------------------------------------------
(* The inductive invariant behind TypeOK, BreakerTracksStreak and RowPerMessage. *)

\* The message in hand is the one before the position.
HandInv == pc # "loop" => msg \in Offsets /\ position = msg + 1

\* Only the breaker counts, and a closed one has room for a failure.
CountInv == state = "CLOSED" => failures < FailureThreshold

\* Results leave the window in the order in which they came.
WindowInv == \A i, j \in DOMAIN window : i < j /\ window[j].old => window[i].old

\* A message has a row per run of the process in which it was saved.
Runs(o) == IF o >= position \/ o \in InHand THEN faults ELSE 1 + faults
RowsInv == \A o \in Offsets : rows[o].real + rows[o].fallback <= Runs(o)

IInv == TypeOK /\ HandInv /\ CountInv /\ WindowInv /\ BreakerTracksStreak
        /\ RowsInv /\ NoSilentDrop
=============================================================================

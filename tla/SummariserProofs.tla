--------------------------- MODULE SummariserProofs ---------------------------
(***************************************************************************)
(* Proofs about Summariser for any partition, any resilience mode, any      *)
(* number of retries, any threshold and any bound on failures.              *)
(***************************************************************************)
EXTENDS Summariser, SequenceTheorems, FiniteSetTheorems, TLAPS

-----------------------------------------------------------------------------
\* A set that gains one element at most has room in a bound that grows by one.
LEMMA Charged ==
    ASSUME NEW S, IsFiniteSet(S), NEW n \in Nat, Cardinality(S) <= n,
           NEW x, NEW T, T \subseteq S \cup {x}
    PROVE  IsFiniteSet(T) /\ Cardinality(T) <= n + 1
<1>0. Cardinality(S) \in Nat
  BY FS_CardinalityType
<1>1. /\ IsFiniteSet(S \cup {x})
      /\ Cardinality(S \cup {x})
            = IF x \in S THEN Cardinality(S) ELSE Cardinality(S) + 1
  BY FS_AddElement
<1>2. IsFiniteSet(T) /\ Cardinality(T) <= Cardinality(S \cup {x})
  BY <1>1, FS_Subset
<1>3. Cardinality(T) \in Nat /\ Cardinality(S \cup {x}) \in Nat
  BY <1>1, <1>2, FS_CardinalityType
<1> QED BY <1>0, <1>1, <1>2, <1>3

\* A set that gains nothing stays within its bound.
LEMMA Uncharged ==
    ASSUME NEW S, IsFiniteSet(S), NEW n \in Nat, Cardinality(S) <= n,
           NEW T, T \subseteq S
    PROVE  IsFiniteSet(T) /\ Cardinality(T) <= n
<1>1. IsFiniteSet(T) /\ Cardinality(T) <= Cardinality(S)
  BY FS_Subset
<1>2. Cardinality(S) \in Nat /\ Cardinality(T) \in Nat
  BY <1>1, FS_CardinalityType
<1> QED BY <1>1, <1>2

\* Recording a result keeps those that are not older than the window.
LEMMA RecordKeepsWindow ==
    ASSUME window \in Seq(Results), NEW ok \in BOOLEAN, Record(ok)
    PROVE  window' \in Seq(Results) /\ WindowInv'
<1> DEFINE last == [ok |-> ok, old |-> FALSE]
<1>1. PICK n \in 0 .. Len(window) :
         /\ \A i \in DOMAIN window : window[i].old <=> i <= n
         /\ window' = Append(SubSeq(window, n + 1, Len(window)), last)
  BY DEF Record
<1> DEFINE kept == SubSeq(window, n + 1, Len(window))
<1>0. n \in Nat /\ n <= Len(window) /\ Len(window) \in Nat
  BY <1>1
<1>2. /\ DOMAIN window = 1 .. Len(window)
      /\ \A i \in 1 .. Len(window) : window[i] \in Results
  BY <1>1
<1>3. /\ kept \in Seq(Results)
      /\ Len(kept) = IF n + 1 <= Len(window) THEN Len(window) - (n + 1) + 1 ELSE 0
      /\ \A i \in 1 .. Len(window) - (n + 1) + 1 : kept[i] = window[(n + 1) + i - 1]
  <2>1. \A i \in n + 1 .. Len(window) : window[i] \in Results
    BY <1>2
  <2>2. n + 1 \in Int /\ Len(window) \in Int
    BY <1>2
  <2> QED BY <2>1, <2>2, SubSeqProperties
<1>4. Len(kept) = Len(window) - n
  <2>1. n + 1 <= Len(window) \/ n = Len(window)
    BY <1>0
  <2>2. CASE n + 1 <= Len(window)
    <3>1. Len(kept) = Len(window) - (n + 1) + 1
      BY <1>3, <2>2
    <3> HIDE DEF kept
    <3> QED BY <1>2, <3>1
  <2>3. CASE n = Len(window)
    <3>1. Len(kept) = 0
      BY <1>2, <1>3, <2>3
    <3> HIDE DEF kept
    <3> QED BY <1>2, <2>3, <3>1
  <2> QED BY <2>1, <2>2, <2>3
<1>5. \A i \in 1 .. Len(kept) : ~kept[i].old
  <2>1. SUFFICES ASSUME NEW i \in 1 .. Len(window) - n PROVE ~window[n + i].old
    <3>1. \A i \in 1 .. Len(window) - n : kept[i] = window[n + i]
      <4>1. SUFFICES ASSUME NEW i \in 1 .. Len(window) - n PROVE kept[i] = window[n + i]
        OBVIOUS
      <4>2. i \in 1 .. Len(window) - (n + 1) + 1 /\ (n + 1) + i - 1 = n + i
        BY <1>2
      <4> QED BY <1>3, <4>2
    <3> HIDE DEF kept
    <3> QED BY <1>4, <3>1
  <2>2. n + i \in DOMAIN window /\ ~(n + i <= n)
    BY <1>2
  <2> QED BY <1>1, <2>2
<1> HIDE DEF kept
<1>6. last \in Results /\ ~last.old
  BY DEF Results
<1> HIDE DEF last
<1>7. /\ window' \in Seq(Results) /\ DOMAIN window' = 1 .. (Len(kept) + 1)
      /\ \A i \in DOMAIN window' : window'[i] = IF i <= Len(kept) THEN kept[i] ELSE last
  BY <1>1, <1>3, <1>6 DEF kept, last
<1>8. \A i \in DOMAIN window' : ~window'[i].old
  BY <1>3, <1>5, <1>6, <1>7
<1> QED BY <1>7, <1>8 DEF WindowInv

\* The oldest result that is left leaves the window.
LEMMA AgeKeepsWindow ==
    ASSUME window \in Seq(Results), WindowInv, AgeResult
    PROVE  window' \in Seq(Results) /\ WindowInv'
<1>1. PICK i \in DOMAIN window :
         /\ \A j \in 1 .. (i - 1) : window[j].old
         /\ window' = [window EXCEPT ![i].old = TRUE]
  BY DEF AgeResult
<1>2. DOMAIN window = 1 .. Len(window) /\ Len(window) \in Nat /\ window[i] \in Results
  BY <1>1
<1>3. [window[i] EXCEPT !.old = TRUE] \in Results
      /\ [window[i] EXCEPT !.old = TRUE].old = TRUE
  BY <1>2 DEF Results
<1>4. /\ window' \in Seq(Results) /\ DOMAIN window' = DOMAIN window
      /\ \A j \in DOMAIN window : j # i => window'[j] = window[j]
      /\ window'[i].old = TRUE
  BY <1>1, <1>2, <1>3
<1>5. WindowInv'
  <2>1. SUFFICES ASSUME NEW j \in DOMAIN window, NEW k \in DOMAIN window, j < k,
                        window'[k].old
                 PROVE  window'[j].old
    BY <1>4 DEF WindowInv
  <2>2. CASE k = i
    BY <1>1, <1>2, <1>4, <2>1, <2>2
  <2>3. CASE k # i
    BY <1>4, <2>1, <2>3 DEF WindowInv
  <2> QED BY <2>2, <2>3
<1> QED BY <1>4, <1>5

LEMMA WindowKept ==
    ASSUME window \in Seq(Results), WindowInv, [Next]_vars
    PROVE  window' \in Seq(Results) /\ WindowInv'
<1>1. ASSUME UNCHANGED window PROVE window' \in Seq(Results) /\ WindowInv'
  BY <1>1 DEF WindowInv
<1>2. CASE CallAI
  BY <1>1, <1>2, RecordKeepsWindow DEF CallAI, Backoff, Breaker
<1>3. CASE Crash
  <2>1. window' = <<>>
    BY <1>3 DEF Crash, Fresh
  <2> QED BY <2>1 DEF WindowInv
<1>4. CASE Poll \/ Gate \/ Save \/ AutoCommit \/ CoolDown \/ UNCHANGED vars
  BY <1>1, <1>4 DEF Poll, Gate, Save, AutoCommit, CoolDown, vars, pressureVars
<1> QED BY <1>2, <1>3, <1>4, AgeKeepsWindow DEF Next, Work, Time

-----------------------------------------------------------------------------
\* Types, the message in hand and the room a closed breaker has go together.
StateInv == TypeOK /\ HandInv /\ CountInv /\ WindowInv

LEMMA Numbers ==
    ASSUME StateInv
    PROVE  /\ Messages \in Nat /\ MaxRetries \in Nat /\ MaxFaults \in Nat
           /\ FailureThreshold \in Nat \ {0}
           /\ committed \in Nat /\ position \in Nat /\ committed > 0
           /\ committed <= position /\ position <= Messages + 1
           /\ attempt \in Nat /\ failures \in Nat /\ streak \in Nat /\ faults \in Nat
           /\ window \in Seq(Results)
<1>1. /\ Messages \in Nat /\ MaxRetries \in Nat /\ MaxFaults \in Nat
      /\ FailureThreshold \in Nat \ {0}
  BY SummariserAssumption DEF SummariserAssumption
<1>2. /\ committed \in 1 .. (Messages + 1) /\ position \in committed .. (Messages + 1)
      /\ attempt \in 0 .. MaxRetries /\ failures \in 0 .. FailureThreshold
      /\ faults \in 0 .. MaxFaults /\ streak \in Nat /\ window \in Seq(Results)
  BY DEF StateInv, TypeOK
<1>3. committed \in Nat /\ committed > 0
  BY <1>1, <1>2
<1>4. position \in Nat /\ committed <= position /\ position <= Messages + 1
  BY <1>1, <1>2, <1>3
<1>5. attempt \in Nat /\ failures \in Nat /\ streak \in Nat /\ faults \in Nat
  BY <1>1, <1>2
<1> QED BY <1>1, <1>2, <1>3, <1>4, <1>5

\* The offset that is handed out is the one in hand until the loop goes on.
LEMMA PollState ==
    ASSUME StateInv, Poll
    PROVE  TypeOK' /\ HandInv' /\ CountInv'
<1> USE Numbers
<1>1. CASE UNCHANGED <<position, msg, attempt, pc>>
  BY <1>1 DEF Poll, StateInv, TypeOK, HandInv, CountInv, breakerVars
<1>2. CASE position \in Offsets /\ msg' = position /\ position' = position + 1
           /\ attempt' = 0 /\ pc' = "gate" /\ paused' = FALSE
  <2>1. msg' \in 0 .. Messages /\ attempt' \in 0 .. MaxRetries
    BY <1>2 DEF Offsets
  <2>2. committed' = committed /\ position' \in committed .. (Messages + 1)
    BY <1>2 DEF Poll, Offsets
  <2>3. TypeOK'
    BY <1>2, <2>1, <2>2 DEF Poll, StateInv, TypeOK, breakerVars
  <2>4. HandInv' /\ CountInv'
    BY <1>2 DEF Poll, StateInv, HandInv, CountInv, breakerVars
  <2> QED BY <2>3, <2>4
<1> QED BY <1>1, <1>2 DEF Poll

\* What the call makes of retries, window and breaker.
LEMMA CallState ==
    ASSUME StateInv, CallAI
    PROVE  TypeOK' /\ HandInv' /\ CountInv'
<1> USE Numbers
<1>1. PICK ok \in BOOLEAN :
         /\ \/ mode = "backoff" /\ Backoff(ok)
            \/ mode = "backpressure" /\ Record(ok)
            \/ mode = "circuit_breaker" /\ Breaker(ok)
         /\ streak' = IF ok THEN 0 ELSE streak + 1
  BY DEF CallAI
<1>2. /\ UNCHANGED <<mode, paused, rows, faults, committed, position, msg>>
      /\ pc = "call"
  BY DEF CallAI, offsetVars
<1>3. streak' \in Nat
  BY <1>1
<1>4. window' \in Seq(Results)
  BY <1>1, RecordKeepsWindow DEF Backoff, Breaker
<1>5. /\ attempt' \in 0 .. MaxRetries
      /\ pc' \in {"loop", "gate", "call", "save", "save fallback"}
  <2>0. attempt \in 0 .. MaxRetries
    BY DEF StateInv, TypeOK
  <2>1. CASE Backoff(ok)
    <3>1. pc' \in {"save", "call", "loop"}
      BY <1>2, <2>1 DEF Backoff
    <3>2. attempt' = attempt \/ (attempt < MaxRetries /\ attempt' = attempt + 1)
      BY <2>1 DEF Backoff
    <3>3. attempt < MaxRetries => attempt + 1 \in 0 .. MaxRetries
      BY <2>0
    <3> QED BY <2>0, <3>1, <3>2, <3>3
  <2>2. CASE Record(ok) \/ Breaker(ok)
    BY <2>0, <2>2 DEF Record, Breaker
  <2> QED BY <1>1, <2>1, <2>2
<1>6. /\ state' \in {"CLOSED", "OPEN", "HALF_OPEN"} /\ failures' \in 0 .. FailureThreshold
      /\ cooled' \in BOOLEAN /\ CountInv'
  <2>1. CASE UNCHANGED breakerVars
    BY <2>1 DEF breakerVars, StateInv, TypeOK, CountInv
  <2>2. CASE Breaker(ok)
    <3>1. failures \in 0 .. FailureThreshold /\ cooled \in BOOLEAN
      BY DEF StateInv, TypeOK
    <3>2. state = "CLOSED" => failures < FailureThreshold
      BY DEF StateInv, CountInv
    <3>3. CASE ok
      BY <2>2, <3>1, <3>3 DEF Breaker, CountInv
    <3>4. CASE ~ok /\ state = "HALF_OPEN"
      BY <2>2, <3>1, <3>4 DEF Breaker, Opens, CountInv
    <3>5. CASE ~ok /\ state = "CLOSED"
      <4>1. failures' = failures + 1 /\ failures' \in 0 .. FailureThreshold
        BY <2>2, <3>1, <3>2, <3>5 DEF Breaker
      <4>2. CASE failures + 1 >= FailureThreshold
        BY <2>2, <3>5, <4>1, <4>2 DEF Breaker, Opens, CountInv
      <4>3. CASE ~(failures + 1 >= FailureThreshold)
        <5>1. state' = "CLOSED" /\ cooled' = cooled
          BY <2>2, <3>5, <4>3 DEF Breaker
        <5>2. failures' < FailureThreshold
          BY <4>1, <4>3
        <5> QED BY <3>1, <4>1, <5>1, <5>2 DEF CountInv
      <4> QED BY <4>2, <4>3
    <3> QED BY <2>2, <3>3, <3>4, <3>5 DEF Breaker
  <2> QED BY <1>1, <2>1, <2>2 DEF Backoff, Record
<1>7. TypeOK'
  BY <1>2, <1>3, <1>4, <1>5, <1>6 DEF StateInv, TypeOK
<1>8. HandInv'
  BY <1>2 DEF StateInv, HandInv
<1> QED BY <1>6, <1>7, <1>8

LEMMA SaveType ==
    ASSUME StateInv, Save
    PROVE  rows' \in [Offsets -> Counts]
<1>1. msg \in Offsets /\ rows \in [Offsets -> Counts]
  BY DEF Save, StateInv, HandInv, TypeOK
<1>2. rows[msg] \in Counts
  BY <1>1
<1>3. /\ [rows[msg] EXCEPT !.real = @ + 1] \in Counts
      /\ [rows[msg] EXCEPT !.fallback = @ + 1] \in Counts
  BY <1>2 DEF Counts
<1>4. \/ rows' = [rows EXCEPT ![msg] = [rows[msg] EXCEPT !.real = @ + 1]]
      \/ rows' = [rows EXCEPT ![msg] = [rows[msg] EXCEPT !.fallback = @ + 1]]
  BY DEF Save
<1> QED BY <1>1, <1>3, <1>4

LEMMA CrashState ==
    ASSUME StateInv, Crash
    PROVE  TypeOK' /\ HandInv' /\ CountInv'
<1> USE Numbers
<1>1. /\ pc' = "loop" /\ attempt' = 0 /\ window' = <<>> /\ paused' = FALSE
      /\ state' = "CLOSED" /\ failures' = 0 /\ cooled' = FALSE /\ streak' = 0
      /\ UNCHANGED <<mode, msg, rows>>
  BY DEF Crash, Fresh
<1>2. faults' \in 0 .. MaxFaults
  <2>1. faults \in 0 .. MaxFaults /\ faults < MaxFaults /\ faults' = faults + 1
    BY DEF Crash, StateInv, TypeOK
  <2> QED BY <2>1
<1>3. committed' \in 1 .. (Messages + 1) /\ position' \in committed' .. (Messages + 1)
  <2>1. \/ committed' = position /\ position' = position
        \/ committed' = committed /\ position' = committed
    BY DEF Crash
  <2> QED BY <2>1
<1>4. 0 \in 0 .. MaxRetries /\ 0 \in 0 .. FailureThreshold /\ 0 \in Nat
  OBVIOUS
<1>5. TypeOK'
  <2>1. <<>> \in Seq(Results)
    OBVIOUS
  <2>2. window' \in Seq(Results)
    BY <1>1, <2>1
  <2>3. mode' \in Modes /\ msg' \in 0 .. Messages /\ rows' \in [Offsets -> Counts]
    BY <1>1 DEF StateInv, TypeOK
  <2> QED BY <1>1, <1>2, <1>3, <1>4, <2>2, <2>3 DEF TypeOK
<1>6. HandInv' /\ CountInv'
  BY <1>1 DEF HandInv, CountInv
<1> QED BY <1>5, <1>6

\* Every step keeps the types, the message in hand and the breaker's room.
LEMMA StateKept ==
    ASSUME StateInv, [Next]_vars
    PROVE  StateInv'
<1> USE Numbers
<1>1. WindowInv' /\ window' \in Seq(Results)
  BY WindowKept DEF StateInv
<1>2. CASE Gate
  <2>1. /\ pc = "gate" /\ pc' \in {"call", "save fallback"}
        /\ state' \in {state, "HALF_OPEN"}
        /\ UNCHANGED <<mode, attempt, failures, cooled, rows, faults, streak,
                       committed, position, msg, window, paused>>
    BY <1>2 DEF Gate, offsetVars, pressureVars
  <2>2. TypeOK'
    BY <2>1 DEF StateInv, TypeOK
  <2>3. HandInv' /\ CountInv'
    BY <2>1 DEF StateInv, HandInv, CountInv
  <2> QED BY <1>1, <2>2, <2>3 DEF StateInv
<1>3. CASE Save
  <2>1. /\ pc' = "loop"
        /\ UNCHANGED <<mode, attempt, faults, streak, committed, position, msg, state,
                       failures, cooled, window, paused>>
    BY <1>3 DEF Save, offsetVars, breakerVars, pressureVars
  <2>2. TypeOK'
    BY <1>3, <2>1, SaveType DEF StateInv, TypeOK
  <2> QED BY <2>1, <2>2 DEF StateInv, HandInv, CountInv, WindowInv
<1>4. CASE AutoCommit
  <2>1. committed' \in 1 .. (Messages + 1) /\ position' \in committed' .. (Messages + 1)
    BY <1>4 DEF AutoCommit
  <2> QED BY <1>1, <1>4, <2>1
          DEF AutoCommit, StateInv, TypeOK, HandInv, CountInv, breakerVars, pressureVars
<1>5. CASE AgeResult
  BY <1>1, <1>5
  DEF AgeResult, StateInv, TypeOK, HandInv, CountInv, offsetVars, breakerVars
<1>6. CASE CoolDown
  BY <1>1, <1>6 DEF CoolDown, StateInv, TypeOK, HandInv, CountInv, offsetVars, pressureVars
<1>7. CASE UNCHANGED vars
  BY <1>1, <1>7 DEF vars, StateInv, TypeOK, HandInv, CountInv
<1> QED BY <1>1, <1>2, <1>3, <1>4, <1>5, <1>6, <1>7, PollState, CallState, CrashState
        DEF Next, Work, Time, StateInv

\* Types, the message in hand, the order of the window and the room a closed
\* breaker has hold in every reachable state.
THEOREM StateInvariance == Spec => []StateInv
<1>1. Init => StateInv
  <2> SUFFICES ASSUME Init PROVE StateInv
    OBVIOUS
  <2>1. /\ 1 \in 1 .. (Messages + 1) /\ 0 \in 0 .. Messages /\ 0 \in 0 .. MaxRetries
        /\ 0 \in 0 .. FailureThreshold /\ 0 \in 0 .. MaxFaults /\ 0 < FailureThreshold
    BY SummariserAssumption DEF SummariserAssumption
  <2>2. rows \in [Offsets -> Counts] /\ window \in Seq(Results)
    BY DEF Init, NoRow, Counts
  <2>3. TypeOK
    BY <2>1, <2>2 DEF Init, TypeOK
  <2> QED BY <2>1, <2>3 DEF Init, StateInv, HandInv, CountInv, WindowInv
<1>2. StateInv /\ [Next]_vars => StateInv'
  BY StateKept
<1> QED BY <1>1, <1>2, PTL DEF Spec

\* Every variable keeps its type: retries and the breaker's count stay in bounds.
THEOREM TypeCorrect == Spec => []TypeOK
<1>1. StateInv => TypeOK
  BY DEF StateInv
<1> QED BY <1>1, StateInvariance, PTL

-----------------------------------------------------------------------------
\* The breaker counts what the AI does.
LEMMA BreakerKept ==
    ASSUME StateInv, BreakerTracksStreak, [Next]_vars
    PROVE  BreakerTracksStreak'
<1> USE Numbers DEF BreakerTracksStreak
<1>1. CASE CallAI
  <2>1. PICK ok \in BOOLEAN :
           /\ mode = "circuit_breaker" => Breaker(ok)
           /\ streak' = IF ok THEN 0 ELSE streak + 1
    BY <1>1 DEF CallAI
  <2>2. mode' = mode
    BY <1>1 DEF CallAI
  <2> QED BY <2>1, <2>2 DEF Breaker, Opens
<1>2. CASE Gate
  BY <1>2 DEF Gate
<1>3. CASE Crash
  <2>1. mode' = mode /\ state' = "CLOSED" /\ failures' = 0 /\ streak' = 0
    BY <1>3 DEF Crash, Fresh
  <2>2. 0 < FailureThreshold
    OBVIOUS
  <2> QED BY <2>1, <2>2
<1>4. CASE Poll \/ Save \/ AutoCommit \/ AgeResult \/ CoolDown \/ UNCHANGED vars
  BY <1>4 DEF Poll, Save, AutoCommit, AgeResult, CoolDown, vars, breakerVars
<1> QED BY <1>1, <1>2, <1>3, <1>4 DEF Next, Work, Time

\* The breaker's memory agrees with the calls that really failed in a row.
THEOREM BreakerTracksStreakHolds == Spec => []BreakerTracksStreak
<1>1. Init => BreakerTracksStreak
  BY SummariserAssumption DEF SummariserAssumption, Init, BreakerTracksStreak
<1>2. StateInv /\ BreakerTracksStreak /\ [Next]_vars => BreakerTracksStreak'
  BY BreakerKept
<1> QED BY <1>1, <1>2, StateInvariance, PTL DEF Spec

-----------------------------------------------------------------------------
\* Rows of a message are counted in numbers.
LEMMA RowNumbers ==
    ASSUME StateInv, NEW o \in Offsets
    PROVE  /\ rows[o].real \in Nat /\ rows[o].fallback \in Nat
           /\ o \in Nat /\ o > 0
<1>1. rows[o] \in Counts
  BY DEF StateInv, TypeOK
<1>2. o \in Nat /\ o > 0
  BY Numbers DEF Offsets
<1> QED BY <1>1, <1>2 DEF Counts

LEMMA OneMore ==
    ASSUME NEW a \in Nat, NEW b \in Nat, NEW c \in Nat, a + b <= c
    PROVE  a + b <= c + 1 /\ a + b <= 1 + c /\ a + b + 1 <= 1 + c
OBVIOUS

\* Save adds one row to the message in hand and leaves the others.
LEMMA SavedRow ==
    ASSUME StateInv, Save
    PROVE  /\ rows'[msg].real + rows'[msg].fallback
                 = rows[msg].real + rows[msg].fallback + 1
           /\ rows'[msg] # NoRow
           /\ \A o \in Offsets : o # msg => rows'[o] = rows[o]
<1>1. msg \in Offsets /\ rows \in [Offsets -> Counts]
  BY DEF Save, StateInv, HandInv, TypeOK
<1>2. /\ rows[msg] = [real |-> rows[msg].real, fallback |-> rows[msg].fallback]
      /\ rows[msg].real \in Nat /\ rows[msg].fallback \in Nat
  BY <1>1 DEF Counts
<1>3. PICK r, f : r = rows[msg].real /\ f = rows[msg].fallback
  OBVIOUS
<1>4. r \in Nat /\ f \in Nat
  BY <1>2, <1>3
<1>5. rows[msg] = [real |-> r, fallback |-> f]
  BY <1>2, <1>3
<1>6. \/ rows' = [rows EXCEPT ![msg] = [rows[msg] EXCEPT !.real = @ + 1]]
      \/ rows' = [rows EXCEPT ![msg] = [rows[msg] EXCEPT !.fallback = @ + 1]]
  BY DEF Save
<1>7. \/ rows'[msg] = [real |-> r + 1, fallback |-> f]
      \/ rows'[msg] = [real |-> r, fallback |-> f + 1]
  BY <1>1, <1>5, <1>6
<1>8. rows'[msg].real + rows'[msg].fallback = r + f + 1
  BY <1>4, <1>7
<1>9. rows'[msg] # NoRow
  BY <1>4, <1>7 DEF NoRow
<1>10. \A o \in Offsets : o # msg => rows'[o] = rows[o]
  BY <1>1, <1>6
<1> QED BY <1>3, <1>8, <1>9, <1>10

\* Only Save adds a row, to the message in hand, whose run began before.
LEMMA RowsKept ==
    ASSUME StateInv, RowsInv, [Next]_vars
    PROVE  RowsInv'
<1> USE Numbers, RowNumbers
<1>1. ASSUME rows' = rows, faults' = faults,
             \A o \in Offsets : o >= position' \/ o \in InHand'
                                   => o >= position \/ o \in InHand
      PROVE  RowsInv'
  <2>1. SUFFICES ASSUME NEW o \in Offsets
                 PROVE  rows'[o].real + rows'[o].fallback <= Runs(o)'
    BY DEF RowsInv
  <2>2. rows[o].real + rows[o].fallback <= Runs(o) /\ rows' = rows
    BY <1>1 DEF RowsInv
  <2>3. Runs(o)' = Runs(o) \/ (Runs(o) = faults /\ Runs(o)' = faults + 1)
    BY <1>1 DEF Runs
  <2>4. rows[o].real \in Nat /\ rows[o].fallback \in Nat /\ faults \in Nat
    BY RowNumbers, Numbers
  <2>5. CASE Runs(o)' = Runs(o)
    BY <2>2, <2>5
  <2>6. CASE Runs(o) = faults /\ Runs(o)' = faults + 1
    <3>1. rows[o].real + rows[o].fallback <= faults
      BY <2>2, <2>6
    <3>2. rows[o].real + rows[o].fallback <= faults + 1
      BY <3>1, <2>4, OneMore
    <3> QED BY <2>2, <2>6, <3>2
  <2> QED BY <2>3, <2>5, <2>6
<1>2. CASE Poll
  <2>1. rows' = rows /\ faults' = faults
    BY <1>2 DEF Poll
  <2>2. \A o \in Offsets : o >= position' \/ o \in InHand' => o >= position \/ o \in InHand
    BY <1>2 DEF Poll, InHand
  <2> QED BY <1>1, <2>1, <2>2
<1>3. CASE Gate \/ CallAI
  <2>1. rows' = rows /\ faults' = faults /\ position' = position
    BY <1>3 DEF Gate, CallAI, offsetVars
  <2>2. InHand' \subseteq InHand
    BY <1>3 DEF Gate, CallAI, InHand, offsetVars
  <2> QED BY <1>1, <2>1, <2>2
<1>4. CASE Save
  <2>1. /\ msg \in Offsets /\ position = msg + 1 /\ position' = position
        /\ msg' = msg /\ InHand = {msg} /\ InHand' = {} /\ faults' = faults
    BY <1>4 DEF Save, StateInv, HandInv, InHand, offsetVars
  <2>2. rows \in [Offsets -> Counts]
    BY DEF StateInv, TypeOK
  <2>3. /\ \A o \in Offsets : o # msg => rows'[o] = rows[o]
        /\ rows'[msg].real + rows'[msg].fallback
              = rows[msg].real + rows[msg].fallback + 1
    BY <1>4, <2>1, SavedRow
  <2>4. ASSUME NEW o \in Offsets, o # msg
        PROVE  rows'[o].real + rows'[o].fallback <= Runs(o)'
    <3>1. Runs(o)' = Runs(o)
      BY <2>1, <2>4 DEF Runs
    <3> QED BY <2>3, <2>4, <3>1 DEF RowsInv
  <2>5. rows'[msg].real + rows'[msg].fallback <= Runs(msg)'
    <3>1. Runs(msg) = faults
      BY <2>1 DEF Runs
    <3>2. Runs(msg)' = 1 + faults
      <4>1. msg \in Nat /\ ~(msg >= position)
        BY <2>1
      <4> QED BY <2>1, <4>1 DEF Runs
    <3>3. rows[msg].real + rows[msg].fallback <= faults
      BY <2>1, <3>1 DEF RowsInv
    <3>4. rows[msg].real \in Nat /\ rows[msg].fallback \in Nat /\ faults \in Nat
      BY <2>1, RowNumbers, Numbers
    <3>5. rows[msg].real + rows[msg].fallback + 1 <= 1 + faults
      BY <3>3, <3>4, OneMore
    <3> QED BY <2>3, <3>2, <3>5
  <2>6. ASSUME NEW o \in Offsets
        PROVE  rows'[o].real + rows'[o].fallback <= Runs(o)'
    <3>1. CASE o = msg
      <4>1. rows'[o].real + rows'[o].fallback = rows'[msg].real + rows'[msg].fallback
        BY <3>1
      <4>2. Runs(o)' = Runs(msg)'
        BY <2>1, <3>1 DEF Runs
      <4> QED BY <2>5, <4>1, <4>2
    <3>2. CASE o # msg
      BY <2>4, <3>2
    <3> QED BY <3>1, <3>2
  <2> QED BY <2>6 DEF RowsInv
<1>5. CASE Crash
  <2>1. rows' = rows /\ faults' = faults + 1
    BY <1>5 DEF Crash
  <2>2. SUFFICES ASSUME NEW o \in Offsets
                 PROVE  rows'[o].real + rows'[o].fallback <= Runs(o)'
    BY DEF RowsInv
  <2>3. rows[o].real + rows[o].fallback <= Runs(o)
    BY DEF RowsInv
  <2>4. rows[o].real \in Nat /\ rows[o].fallback \in Nat /\ faults \in Nat
    BY RowNumbers, Numbers
  <2>5. PICK a \in Nat, b \in Nat, f \in Nat :
           a = rows[o].real /\ b = rows[o].fallback /\ f = faults
    BY <2>4
  <2>6. Runs(o) \in {f, 1 + f} /\ Runs(o)' \in {f + 1, 1 + (f + 1)}
    BY <2>1, <2>5 DEF Runs
  <2>7. a + b <= f + 1
    <3>1. a + b <= f \/ a + b <= 1 + f
      BY <2>3, <2>5, <2>6
    <3> QED BY <3>1
  <2>8. a + b <= 1 + (f + 1)
    BY <2>7
  <2>9. rows'[o].real + rows'[o].fallback = a + b
    BY <2>1, <2>5
  <2> QED BY <2>6, <2>7, <2>8, <2>9
<1>6. CASE AutoCommit \/ AgeResult \/ CoolDown \/ UNCHANGED vars
  BY <1>1, <1>6 DEF AutoCommit, AgeResult, CoolDown, vars, offsetVars, InHand
<1> QED BY <1>2, <1>3, <1>4, <1>5, <1>6 DEF Next, Work, Time

-----------------------------------------------------------------------------
\* A step drops nothing, but for a crash, which drops the message in hand.
LEMMA DroppedStep ==
    ASSUME StateInv, [Next]_vars
    PROVE  \/ Dropped' \subseteq Dropped /\ faults' = faults
           \/ Dropped' \subseteq Dropped \cup {msg} /\ faults' = faults + 1
<1> USE Numbers, RowNumbers
<1>1. CASE Poll
  <2>1. rows' = rows /\ faults' = faults /\ refused' = refused
    BY <1>1 DEF Poll
  <2>2. \A o \in Offsets : o < position' /\ o \notin InHand' => o < position /\ o \notin InHand
    BY <1>1 DEF Poll, InHand
  <2>3. Dropped' \subseteq Dropped
    BY <2>1, <2>2 DEF Dropped
  <2> QED BY <2>1, <2>3
<1>2. CASE Gate
  <2>1. Dropped' = Dropped
    BY <1>2 DEF Gate, Dropped, InHand, offsetVars
  <2> QED BY <1>2, <2>1 DEF Gate
<1>3. CASE CallAI
  <2>1. PICK ok \in BOOLEAN :
           /\ refused' = IF ok THEN refused \ {msg} ELSE refused \cup {msg}
           /\ ok => pc' = "save"
    BY <1>3 DEF CallAI, Backoff, Record, Breaker
  <2>2. UNCHANGED <<rows, position, msg, faults>> /\ pc = "call"
    BY <1>3 DEF CallAI, offsetVars
  <2>3. Dropped' \subseteq Dropped
    BY <2>1, <2>2 DEF Dropped, InHand
  <2> QED BY <2>2, <2>3
<1>4. CASE Save
  <2>1. /\ msg \in Offsets /\ UNCHANGED <<position, refused, faults>>
        /\ InHand = {msg}
    BY <1>4 DEF Save, StateInv, HandInv, InHand, offsetVars
  <2>2. /\ rows'[msg] # NoRow
        /\ \A o \in Offsets : o # msg => rows'[o] = rows[o]
    BY <1>4, SavedRow
  <2>3. Dropped' \subseteq Dropped
    BY <2>1, <2>2 DEF Dropped
  <2> QED BY <2>1, <2>3
<1>5. CASE Crash
  <2>0. position' = position \/ position' = committed
    BY <1>5 DEF Crash
  <2>1. UNCHANGED <<rows, refused>> /\ faults' = faults + 1
    BY <1>5 DEF Crash
  <2>4. \A o \in Nat : o < position' => o < position
    BY <2>0
  <2>2. InHand \subseteq {msg}
    BY DEF InHand
  <2>3. Dropped' \subseteq Dropped \cup {msg}
    BY <2>1, <2>2, <2>4 DEF Dropped
  <2> QED BY <2>1, <2>3
<1>6. CASE AutoCommit \/ AgeResult \/ CoolDown \/ UNCHANGED vars
  <2>1. UNCHANGED <<rows, position, msg, pc, refused, faults>>
    BY <1>6 DEF AutoCommit, AgeResult, CoolDown, vars, offsetVars
  <2>2. Dropped' = Dropped
    BY <2>1 DEF Dropped, InHand
  <2> QED BY <2>1, <2>2
<1> QED BY <1>1, <1>2, <1>3, <1>4, <1>5, <1>6 DEF Next, Work, Time

LEMMA DroppedKept ==
    ASSUME StateInv, NoSilentDrop, [Next]_vars
    PROVE  NoSilentDrop'
<1>1. IsFiniteSet(Dropped)
  <2>1. IsFiniteSet(Offsets) /\ Dropped \subseteq Offsets
    BY FS_Interval, Numbers DEF Offsets, Dropped
  <2> QED BY <2>1, FS_Subset
<1>2. faults \in Nat /\ Cardinality(Dropped) <= faults
  BY Numbers DEF NoSilentDrop
<1>3. CASE Dropped' \subseteq Dropped /\ faults' = faults
  BY <1>1, <1>2, <1>3, Uncharged DEF NoSilentDrop
<1>4. CASE Dropped' \subseteq Dropped \cup {msg} /\ faults' = faults + 1
  BY <1>1, <1>2, <1>4, Charged DEF NoSilentDrop
<1> QED BY <1>3, <1>4, DroppedStep

-----------------------------------------------------------------------------
\* The inductive invariant holds in every reachable state.
THEOREM Invariance == Spec => []IInv
<1>1. Init => RowsInv /\ NoSilentDrop
  <2> SUFFICES ASSUME Init PROVE RowsInv /\ NoSilentDrop
    OBVIOUS
  <2>1. \A o \in Offsets : rows[o].real = 0 /\ rows[o].fallback = 0 /\ o \in Nat /\ o > 0
    BY SummariserAssumption DEF SummariserAssumption, Init, NoRow, Offsets
  <2>2. Dropped = {} /\ faults = 0
    BY <2>1 DEF Init, Dropped
  <2>3. RowsInv
    BY <2>1, <2>2 DEF RowsInv, Runs
  <2>4. NoSilentDrop
    BY <2>2, FS_EmptySet DEF NoSilentDrop
  <2> QED BY <2>3, <2>4
<1>2. StateInv /\ RowsInv /\ NoSilentDrop /\ [Next]_vars => RowsInv' /\ NoSilentDrop'
  BY RowsKept, DroppedKept
<1>3. StateInv /\ BreakerTracksStreak /\ RowsInv /\ NoSilentDrop => IInv
  BY DEF StateInv, IInv
<1> QED BY <1>1, <1>2, <1>3, StateInvariance, BreakerTracksStreakHolds, PTL DEF Spec

\* Every message ends in one row, but for what the AI refused and what crashes
\* explain.
THEOREM RowPerMessageHolds == Spec => []RowPerMessage
<1>1. IInv => RowPerMessage
  <2> SUFFICES ASSUME IInv PROVE RowPerMessage
    OBVIOUS
  <2>1. StateInv
    BY DEF IInv, StateInv
  <2>2. ASSUME NEW o \in Offsets PROVE rows[o].real + rows[o].fallback <= 1 + faults
    <3>1. rows[o].real \in Nat /\ rows[o].fallback \in Nat /\ faults \in Nat
      BY <2>1, <2>2, RowNumbers, Numbers
    <3>2. rows[o].real + rows[o].fallback <= Runs(o)
      BY DEF IInv, RowsInv
    <3>3. Runs(o) = faults \/ Runs(o) = 1 + faults
      BY DEF Runs
    <3> QED BY <3>1, <3>2, <3>3
  <2> QED BY <2>2 DEF RowPerMessage, RowsBounded, IInv
<1> QED BY <1>1, Invariance, PTL
=============================================================================

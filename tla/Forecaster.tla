----------------------------- MODULE Forecaster -----------------------------
(***************************************************************************)
(* The forecaster: one process, and on every tick one database connection,  *)
(* one pass over the price indicators and, for each that has enough         *)
(* readings, one HTTP call per goal that has it linked as `primary'.        *)
(*                                                                         *)
(* It keeps nothing between ticks: no record of what it has told whom.  The *)
(* readings, the links and the goals change while a tick runs, and every    *)
(* statement reads what is committed at that moment.                        *)
(***************************************************************************)
EXTENDS Naturals, FiniteSets

CONSTANTS
    Goals, Indicators,
    Linkable,     \* <<goal, indicator>> that users may link
    MinReadings,  \* readings a series needs (7 in the code)
    MaxReadings,  \* bound on the readings of an indicator
    MaxFaults     \* bound on errors, lost answers and restarts

Parameters ==
    /\ IsFiniteSet(Indicators) /\ Linkable \subseteq Goals \X Indicators
    /\ MinReadings \in Nat \ {0} /\ MaxReadings \in Nat /\ MaxFaults \in Nat
    /\ MinReadings <= MaxReadings
ASSUME ForecasterAssumption == Parameters

VARIABLES
    series,       \* readings each indicator has
    goals, links, \* goals that exist; the role of each link
    pc, todo,     \* the process; indicators this tick has not reached
    ind, rows,    \* indicator in hand ({}: none), and the readings it was fitted to
    pending,      \* its links still to be told
    forecast,     \* readings behind the newest forecast each link has (0: none)
    faults,
    was,          \* history: links that were `primary' at some moment of the tick
    told          \* history: forecasts stored per link in this tick

vars == <<series, goals, links, pc, todo, ind, rows, pending, forecast, faults,
          was, told>>
userVars == <<series, goals, links>>
tickVars == <<pc, todo, ind, rows, pending>>
storedVars == <<forecast, told>>

Fault == faults < MaxFaults /\ faults' = faults + 1
Primary == {l \in Linkable : links[l] = "primary"}
-----------------------------------------------------------------------------
Init ==
    /\ series = [i \in Indicators |-> MinReadings - 1]
    /\ goals = Goals /\ links = [l \in Linkable |-> "none"]
    /\ pc = "sleep" /\ todo = {} /\ ind = {} /\ rows = 0 /\ pending = {}
    /\ forecast = [l \in Linkable |-> 0]
    /\ faults = 0
    /\ was = {} /\ told = [l \in Linkable |-> 0]

\* A reading arrives.
AddReading(i) ==
    /\ series[i] < MaxReadings
    /\ series' = [series EXCEPT ![i] = @ + 1]
    /\ UNCHANGED <<goals, links, faults, was>>
    /\ UNCHANGED tickVars /\ UNCHANGED storedVars

\* Users link indicators, unlink them and delete goals.  A second link of the
\* same indicator is refused, and links go with their goal.
Link(l, role) ==
    /\ l[1] \in goals /\ links[l] = "none"
    /\ links' = [links EXCEPT ![l] = role]
    /\ was' = IF role = "primary" /\ pc # "sleep" THEN was \cup {l} ELSE was
    /\ UNCHANGED <<series, goals, faults>>
    /\ UNCHANGED tickVars /\ UNCHANGED storedVars

Unlink(l) ==
    /\ links[l] # "none"
    /\ links' = [links EXCEPT ![l] = "none"]
    /\ UNCHANGED <<series, goals, faults, was>>
    /\ UNCHANGED tickVars /\ UNCHANGED storedVars

DeleteGoal(g) ==
    /\ g \in goals
    /\ goals' = goals \ {g}
    /\ links' = [l \in Linkable |-> IF l[1] = g THEN "none" ELSE links[l]]
    /\ UNCHANGED <<series, faults, was>>
    /\ UNCHANGED tickVars /\ UNCHANGED storedVars

\* Leaving a tick forgets everything, and the history starts anew.
Sleep == /\ pc' = "sleep" /\ todo' = {} /\ ind' = {} /\ rows' = 0 /\ pending' = {}
         /\ was' = {} /\ told' = [l \in Linkable |-> 0]

\* A tick begins: fetch_indicators.
BeginTick ==
    /\ pc = "sleep"
    /\ pc' = "series" /\ todo' = Indicators
    /\ was' = Primary
    /\ UNCHANGED <<ind, rows, pending, faults>>
    /\ UNCHANGED userVars /\ UNCHANGED storedVars

\* Mutant: a series that is too short ends the tick instead of being skipped.
FetchSeriesBreaks(i) ==
    /\ pc = "series" /\ i \in todo
    /\ IF series[i] < MinReadings
       THEN Sleep
       ELSE /\ todo' = todo \ {i} /\ pc' = "links" /\ ind' = {i} /\ rows' = series[i]
            /\ UNCHANGED <<pending, was, told>>
    /\ UNCHANGED <<faults, forecast>> /\ UNCHANGED userVars

\* fetch_series and fit_and_project of the next indicator, in any order: a series
\* that is too short is skipped.
FetchSeries(i) ==
    /\ pc = "series" /\ i \in todo
    /\ todo' = todo \ {i}
    /\ IF series[i] < MinReadings
       THEN UNCHANGED <<pc, ind, rows>>
       ELSE pc' = "links" /\ ind' = {i} /\ rows' = series[i]
    /\ UNCHANGED <<pending, faults, was>>
    /\ UNCHANGED userVars /\ UNCHANGED storedVars

\* Neither model can be fitted: the indicator is skipped.
FitFails ==
    /\ pc = "links" /\ Fault
    /\ pc' = "series" /\ ind' = {} /\ rows' = 0
    /\ UNCHANGED <<todo, pending, was>>
    /\ UNCHANGED userVars /\ UNCHANGED storedVars

\* Mutant: the role is not looked at.
FindLinkedGoalsAnyRole ==
    /\ pc = "links"
    /\ pending' = {l \in Linkable : l[2] \in ind /\ links[l] # "none"}
    /\ pc' = "post" /\ ind' = {}
    /\ UNCHANGED <<todo, rows, faults, was>>
    /\ UNCHANGED userVars /\ UNCHANGED storedVars

\* find_linked_goals.
FindLinkedGoals ==
    /\ pc = "links"
    /\ pending' = {l \in Primary : l[2] \in ind}
    /\ pc' = "post" /\ ind' = {}
    /\ UNCHANGED <<todo, rows, faults, was>>
    /\ UNCHANGED userVars /\ UNCHANGED storedVars

Store(l) == l[1] \in goals /\ forecast' = [forecast EXCEPT ![l] = rows]
Count(l) == told' = [told EXCEPT ![l] = @ + 1]
Told(l) == pending' = pending \ {l} /\ UNCHANGED <<pc, todo, ind, rows, was>>

\* Mutant: a call whose answer is lost is made again.
WriteForecastRetries(l) ==
    /\ pc = "post" /\ l \in pending
    /\ \/ Store(l) /\ Count(l) /\ Told(l) /\ UNCHANGED faults
       \/ l[1] \notin goals /\ Told(l) /\ UNCHANGED faults /\ UNCHANGED storedVars
       \/ Fault /\ ((Store(l) /\ Count(l)) \/ UNCHANGED storedVars)
             /\ UNCHANGED tickVars /\ UNCHANGED was
    /\ UNCHANGED userVars

\* write_forecast, POST /api/v2/insights.  An error answer, such as that for a
\* goal deleted meanwhile, is logged, and a 200 may hide a failed commit; a
\* timeout or a broken connection ends the tick, stored or not.
WriteForecast(l) ==
    /\ pc = "post" /\ l \in pending
    /\ \/ Store(l) /\ Count(l) /\ Told(l) /\ UNCHANGED faults
       \/ l[1] \notin goals /\ Told(l) /\ UNCHANGED faults /\ UNCHANGED storedVars
       \/ Fault /\ Told(l) /\ UNCHANGED storedVars
       \/ Fault /\ (Store(l) \/ UNCHANGED forecast) /\ Sleep
    /\ UNCHANGED userVars

\* Mutant: the series in hand is kept for the next indicator.
NextIndicatorKeeps ==
    /\ pc = "post" /\ pending = {}
    /\ pc' = "series"
    /\ UNCHANGED <<todo, ind, rows, pending, faults, was>>
    /\ UNCHANGED userVars /\ UNCHANGED storedVars

NextIndicator ==
    /\ pc = "post" /\ pending = {}
    /\ pc' = "series" /\ rows' = 0
    /\ UNCHANGED <<todo, ind, pending, faults, was>>
    /\ UNCHANGED userVars /\ UNCHANGED storedVars

EndTick ==
    /\ pc = "series" /\ todo = {} /\ Sleep
    /\ UNCHANGED <<faults, forecast>> /\ UNCHANGED userVars

\* A database error, or a restart: main logs it and sleeps, or starts anew.
Abort ==
    /\ pc # "sleep" /\ Fault /\ Sleep
    /\ UNCHANGED forecast /\ UNCHANGED userVars
-----------------------------------------------------------------------------
Tick == \/ BeginTick \/ FindLinkedGoals \/ NextIndicator \/ EndTick
        \/ \E i \in Indicators : FetchSeries(i)
        \/ \E l \in Linkable : WriteForecast(l)
Next == \/ Tick \/ FitFails \/ Abort
        \/ \E i \in Indicators : AddReading(i)
        \/ \E l \in Linkable : Unlink(l) \/ \E role \in {"primary", "driver"} : Link(l, role)
        \/ \E g \in Goals : DeleteGoal(g)

Spec == Init /\ [][Next]_vars

\* The loop runs for ever.
FairSpec == Spec /\ WF_vars(Tick)
-----------------------------------------------------------------------------
(* What the forecaster must guarantee. *)

\* Every variable has its type, and the process holds an indicator exactly while
\* it works on one.
TypeOK ==
    /\ series \in [Indicators -> 0 .. MaxReadings]
    /\ goals \subseteq Goals
    /\ links \in [Linkable -> {"none", "primary", "driver"}]
    /\ pc \in {"sleep", "series", "links", "post"}
    /\ todo \subseteq Indicators
    /\ ind \subseteq Indicators /\ (ind # {} <=> pc = "links")
    /\ rows \in 0 .. MaxReadings /\ (rows > 0 <=> pc \in {"links", "post"})
    /\ pending \subseteq Linkable
    /\ forecast \in [Linkable -> 0 .. MaxReadings]
    /\ faults \in 0 .. MaxFaults
    /\ was \subseteq Linkable /\ told \in [Linkable -> Nat]

\* Links come and go, readings arrive and calls fail while a tick runs, but a
\* forecast that is stored is for a link that was `primary' at some moment of the
\* tick and had none in it yet, and it rests on as many readings as the model
\* needs, on no reading that is not there, and on no fewer than the one before.
Grounded(l) ==
    /\ l \in was /\ told[l] = 0
    /\ forecast'[l] \in MinReadings .. series[l[2]] /\ forecast'[l] >= forecast[l]
ForecastGrounded ==
    [][\A l \in Linkable :
           told'[l] > told[l] \/ forecast'[l] # forecast[l] => Grounded(l)]_vars

\* A link that stays `primary' ends with a forecast from all its readings, once
\* they have stopped coming and are enough, whatever the other links and series do.
EventuallyCurrent ==
    \A l \in Linkable :
        <>[](links[l] = "primary" /\ series[l[2]] >= MinReadings)
            => <>[](forecast[l] = series[l[2]])

-----------------------------------------------------------------------------
(* The inductive invariant behind ForecastGrounded. *)

\* Between ticks nothing is in hand, and links in hand are there only to be told.
HandInv ==
    /\ pc = "sleep" => todo = {} /\ \A l \in Linkable : told[l] = 0
    /\ pc # "post" => pending = {}
    /\ ind \cap todo = {}

\* The tick knows every link that is, or was, `primary' while it ran.
WasInv == /\ pending \subseteq was
          /\ pc # "sleep" => Primary \subseteq was

\* No link has a forecast in this tick before its indicator was reached and its
\* own turn came.
TurnInv == \A l \in Linkable :
    /\ l[2] \in todo \cup ind => told[l] = 0
    /\ l \in pending => told[l] = 0 /\ l[2] \notin todo

\* Readings only come, so those in hand are there and no newer forecast exists.
BasedInv ==
    /\ pc \in {"links", "post"} => rows >= MinReadings
    /\ \A l \in Linkable :
          /\ forecast[l] <= series[l[2]]
          /\ l[2] \in ind \/ l \in pending => rows \in forecast[l] .. series[l[2]]

IInv == TypeOK /\ HandInv /\ WasInv /\ TurnInv /\ BasedInv
=============================================================================

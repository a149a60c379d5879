------------------------------ MODULE Prediction ------------------------------
(***************************************************************************)
(* The predictive scaler, pkg/autoscaler/predictive_scaler.go: patterns of *)
(* utilization by weekday and hour, and the prediction the autoscaler asks *)
(* for on every pass (applyPredictiveScaling).                             *)
(*                                                                         *)
(* Time is in hours.  What the collector returns is a load [util, pods],   *)
(* util the mean of its percentages: the collector has no other time than  *)
(* now, so every sample of an update is of the same load.                  *)
(***************************************************************************)
EXTENDS Integers, FiniteSets, FiniteSetsExt

CONSTANTS
  Loads,         \* the loads there can be
  Starts,        \* hours at which the process may start, after the first week
  CollectorFails,  \* whether the collector may fail to answer an update
  MaxHours       \* bound on the hours it runs

HistoricalLookback == 7 * 24

VARIABLES
  now,           \* hours since some Sunday's midnight
  ran,           \* hours since the process started
  load,          \* what the collector would return
  patterns,      \* PredictiveScaler.patterns
  sinceUpdate,   \* hours since lastUpdate, 2 for more than one
  prediction     \* the last one, made when the process had run "at" hours (-1: none)

vars == <<now, ran, load, patterns, sinceUpdate, prediction>>

Weekday(t) == (t \div 24) % 7
HourOfDay(t) == t % 24

NoPreWarm == [at |-> ran, preWarm |-> FALSE, nodes |-> 0, hours |-> 0]

Init ==
  /\ now \in Starts /\ ran = 0 /\ load \in Loads
  /\ patterns = {} /\ sinceUpdate = 2
  /\ prediction = [NoPreWarm EXCEPT !.at = -1]

-----------------------------------------------------------------------------

\* The instants samples are taken for: one a day, at the hour of now.
SampleTimes == {(now - HistoricalLookback) + (24 * k) : k \in 0..6}

\* The pattern of a weekday and hour from the instants the collector answered
\* for, if there are three; three samples of one load have its value as their
\* mean and their peak, and no trend.
AnalyzePattern(day, hour, answered) ==
  LET samples == {t \in answered : Weekday(t) = day /\ HourOfDay(t) = hour} IN
  IF Cardinality(samples) < 3 THEN {}
  ELSE {[day |-> day, hour |-> hour, util |-> load.util, pods |-> load.pods]}

UpdatePatterns(answered) ==
  UNION {AnalyzePattern(day, hour, answered) : day \in 0..6, hour \in 0..23}

Distance(a, b) == IF a < b THEN b - a ELSE a - b

\* In hundredths.  Saturday is six days away from Sunday.
CalculateSimilarity(pattern) ==
  LET days == Distance(pattern.day, Weekday(now))
      hours == Distance(pattern.hour, HourOfDay(now)) IN
  (CASE days = 0 -> 70 [] days = 1 -> 35 [] OTHER -> 0)
  + (CASE hours = 0 -> 30 [] hours = 1 -> 21 [] hours = 2 -> 12 [] OTHER -> 0)

FindSimilarPatterns(known) == {p \in known : CalculateSimilarity(p) > 70}

SumUtil(ps) == MapThenSumSet(LAMBDA p : p.util, ps)

\* Whether the confidence, which falls with the deviation of the patterns and
\* rises with their number, is above 0.7; one pattern gives 0.3.
IsConfident(ps) ==
  LET n == Cardinality(ps)
      spread == (n * MapThenSumSet(LAMBDA p : p.util * p.util, ps)) - (SumUtil(ps) * SumUtil(ps))
      slack == 30 + (5 * (IF n < 4 THEN n ELSE 4)) IN
  n > 1 /\ 40000 * spread < n * n * slack * slack

Ceil(a, b) == (a + b - 1) \div b

\* The utilization is a percentage, and is divided by 0.8 as a fraction is.
CalculateRecommendedNodes(util, pods) == Ceil(Ceil(pods, 8) * util * 10, 8)

\* Hours until the hour of a pattern with the highest load.
TimeUntilPeak(ps) ==
  {(p.hour - HourOfDay(now)) % 24 : p \in {p \in ps : \A q \in ps : p.util >= q.util}}

Predictions(ps) ==
  LET util == SumUtil(ps) \div Cardinality(ps)
      pods == MapThenSumSet(LAMBDA p : p.pods, ps) \div Cardinality(ps) IN
  IF ps = {} \/ 10 * util <= 7 \/ ~IsConfident(ps) THEN {NoPreWarm}
  ELSE {[at |-> ran, preWarm |-> TRUE, hours |-> h,
         nodes |-> CalculateRecommendedNodes(util, pods)] : h \in TimeUntilPeak(ps)}

-----------------------------------------------------------------------------

\* Patterns more than an hour old are made anew; the collector answers for
\* all samples of an update or, while it is down, for none.
PredictFutureLoad ==
  \E answered \in {SampleTimes} \union (IF CollectorFails THEN {{}} ELSE {}) :
    LET known == IF sinceUpdate > 1 THEN UpdatePatterns(answered) ELSE patterns IN
    /\ patterns' = known
    /\ sinceUpdate' = IF sinceUpdate > 1 THEN 0 ELSE sinceUpdate
    /\ prediction' \in Predictions(FindSimilarPatterns(known))
    /\ UNCHANGED <<now, ran, load>>

Tick ==
  /\ ran < MaxHours
  /\ now' = now + 1 /\ ran' = ran + 1
  /\ load' \in Loads
  /\ sinceUpdate' = IF sinceUpdate > 1 THEN 2 ELSE sinceUpdate + 1
  /\ UNCHANGED <<patterns, prediction>>

Next == PredictFutureLoad \/ Tick

Spec == Init /\ [][Next]_vars

\* GPUs that are always busy are predicted to be: a prediction made when they
\* have been for a week pre-warms (PredictFutureLoad).
BusyHourIsPredicted == prediction.at >= HistoricalLookback => prediction.preWarm
=============================================================================

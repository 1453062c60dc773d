---------------------------- MODULE ToolDetectors ----------------------------
(***************************************************************************)
(* The detectors over the tool calls of one run: the eight of              *)
(* detectors/tool.py, those of detectors/cost.py that look at tool spans,  *)
(* and the recovery path of detectors/retry.py.                            *)
(*                                                                         *)
(* A trace is the list _walk_tool_spans makes of the span tree; a call is  *)
(* what the detectors read of a span.  The detectors run one after the     *)
(* other.  Three of them are loops that carry a streak from call to call   *)
(* and are modelled call by call; the verdicts of the others are operators *)
(* on the trace.                                                           *)
(***************************************************************************)
EXTENDS Integers, Sequences, FiniteSets, FiniteSetsExt, Functions

CONSTANTS
  Traces,             \* the traces to look at: sequences of calls
  Order,              \* the detectors, in the order they run
  Tools, Args, Results,
  Blank,              \* the empty string: no tool name, no key yet
  NoArgs,             \* arguments missing or not serialisable
  NoResult,           \* gen_ai.tool.result missing
  Polling,            \* polling_tool_allowlist
  Threshold,          \* threshold of the three streak detectors
  Window,             \* window_size
  ErrorPct,           \* detector_tool_error_rate_pct
  SpecificPct,        \* detector_specific_tool_error_pct
  LatencyMultiplier,  \* detector_tool_latency_multiplier
  LimitMs,            \* detector_tool_timeout_seconds, in milliseconds
  WastedThreshold,    \* detector_wasted_tool_threshold
  RecoverySteps       \* detector_recovery_path_threshold

Streaks == {"loop", "argument_loop", "redundant_tool_call"}

Detectors == Streaks \cup
  {"pattern_loop", "tool_error_rate", "specific_tool_error", "tool_latency",
   "tool_timeout", "per_tool_cost_spike", "wasted_tool_calls", "recovery_path"}

\* duration_ms is 0 where the span has none; failed is a status that is set and
\* is neither "ok" nor "OK".
Calls == [tool : Tools \cup {Blank}, args : Args \cup {NoArgs},
          result : Results \cup {NoResult}, failed : BOOLEAN, ms : Nat]

\* A threshold of 1 is not supported by the streak loops: a first call never
\* updates the maximum.
ASSUME TraceAssumption ==
  /\ Traces \subseteq Seq(Calls)
  /\ Polling \subseteq Tools
  /\ Threshold \in [Streaks -> Nat \ {0, 1}]

\* Every detector runs once.
ASSUME OrderAssumption ==
  /\ Order \in Seq(Detectors)
  /\ \A j, k \in DOMAIN Order : j # k => Order[j] # Order[k]
  /\ \A d \in Detectors : \E k \in DOMAIN Order : Order[k] = d

\* A key with arguments in it is not the empty string.
ASSUME KeyAssumption ==
  /\ Blank \notin Tools
  /\ NoArgs \notin Args
  /\ Blank \notin (Tools \cup {Blank}) \X Args
  /\ Blank \notin (Tools \cup {Blank}) \X Args \X (Results \cup {NoResult})

ASSUME ThresholdAssumption ==
  {Window, ErrorPct, SpecificPct, LatencyMultiplier, LimitMs, WastedThreshold,
   RecoverySteps} \subseteq Nat \ {0}

VARIABLES
  calls,    \* the trace
  costed,   \* summary.estimated_cost is set and positive
  turn,     \* the detector that runs: Order[turn]
  at,       \* the call its loop is at
  current,  \* current, current_streak
  longest,  \* max_consecutive, max_streak
  last,     \* last_tool, last_key, prev_key
  report    \* what each detector returned

vars == <<calls, costed, turn, at, current, longest, last, report>>

Verdicts == {"silent", "warning", "critical"}

Running == turn \in DOMAIN Order

TypeOK ==
  /\ calls \in Traces
  /\ costed \in BOOLEAN
  /\ turn \in 1 .. Len(Order) + 1
  /\ at \in 1 .. Len(calls) + 1
  /\ current \in 0 .. at
  /\ longest \in 0 .. Len(calls) + 1
  /\ report \in [Detectors -> Verdicts]

\* BaseDetector._severity, for a value that has passed its threshold.
Severity(value, threshold) ==
  IF value >= 2 * threshold THEN "critical" ELSE "warning"

-----------------------------------------------------------------------------
(* The streak detectors.                                                   *)

\* Faulty variant of StreakKey: the arguments are forgotten.
KeyWithoutArgs(d, c) ==
  CASE d = "loop"                -> c.tool
    [] d = "argument_loop"       -> <<c.tool, c.args>>
    [] d = "redundant_tool_call" -> <<c.tool, c.result>>

\* What two calls in a row must agree on.
StreakKey(d, c) ==
  CASE d = "loop"                -> c.tool
    [] d = "argument_loop"       -> <<c.tool, c.args>>
    [] d = "redundant_tool_call" -> <<c.tool, c.args, c.result>>

\* Calls that break a streak and do not start one.
Skipped(d, c) ==
  \/ d # "redundant_tool_call" /\ c.tool \in Polling
  \/ d # "loop" /\ c.args = NoArgs

\* Where the redundant call detector starts to count.
StartCount(d) == IF d = "redundant_tool_call" THEN 1 ELSE 0

\* The variables of the k-th detector's loop.
StartScan(k) ==
  LET n == IF k \in DOMAIN Order THEN StartCount(Order[k]) ELSE 0
  IN /\ at' = 1
     /\ current' = n
     /\ longest' = n
     /\ last' = Blank

Init ==
  /\ calls \in Traces
  /\ costed \in BOOLEAN
  /\ turn = 1
  /\ at = 1
  /\ current = StartCount(Order[1])
  /\ longest = StartCount(Order[1])
  /\ last = Blank
  /\ report = [d \in Detectors |-> "silent"]

\* Detector d, a streak detector, is at a call.
Scanning(d) ==
  /\ Running
  /\ d = Order[turn]
  /\ d \in Streaks
  /\ at <= Len(calls)
  /\ at' = at + 1
  /\ UNCHANGED <<calls, costed, turn, report>>

\* Faulty variant of BreakStreak: the call is passed over, the streak goes on.
PassOver(d) ==
  /\ Scanning(d)
  /\ Skipped(d, calls[at])
  /\ UNCHANGED <<current, last, longest>>

BreakStreak(d) ==
  /\ Scanning(d)
  /\ Skipped(d, calls[at])
  /\ current' = StartCount(d)
  /\ last' = Blank
  /\ UNCHANGED longest

\* Nothing extends a streak of calls without a tool name in the loop detector.
Continues(d) ==
  /\ ~Skipped(d, calls[at])
  /\ StreakKey(d, calls[at]) = last
  /\ last # Blank

ExtendStreak(d) ==
  /\ Scanning(d)
  /\ Continues(d)
  /\ current' = current + 1
  /\ longest' = IF current + 1 > longest THEN current + 1 ELSE longest
  /\ UNCHANGED last

RestartStreak(d) ==
  /\ Scanning(d)
  /\ ~Skipped(d, calls[at])
  /\ ~Continues(d)
  /\ current' = 1
  /\ last' = StreakKey(d, calls[at])
  /\ UNCHANGED longest

\* The end of the loop.  The redundant call detector answers None at once for
\* fewer than two calls, which no threshold above 1 can tell apart.
Conclude(d) ==
  /\ Running
  /\ d = Order[turn]
  /\ d \in Streaks
  /\ at > Len(calls)
  /\ report' = [report EXCEPT ![d] =
                  IF longest >= Threshold[d] THEN Severity(longest, Threshold[d])
                                             ELSE "silent"]
  /\ turn' = turn + 1
  /\ StartScan(turn + 1)
  /\ UNCHANGED <<calls, costed>>

-----------------------------------------------------------------------------
(* The other detectors.                                                    *)

Called        == {calls[i].tool : i \in DOMAIN calls}
CallsOf(t)    == {i \in DOMAIN calls : calls[i].tool = t}
Failures(I)   == {i \in I : calls[i].failed}

\* The first of the tools for which there are calls I[t]: dictionaries keep the
\* order of insertion.
FirstTool(I) == CHOOSE t \in DOMAIN I : \A u \in DOMAIN I : Min(I[t]) <= Min(I[u])

\* The names in the first n calls, without the polled tools and the empty name.
filtered[n \in 0 .. Len(calls)] ==
  IF n = 0 THEN << >>
  ELSE IF calls[n].tool \in Polling \cup {Blank} THEN filtered[n - 1]
  ELSE Append(filtered[n - 1], calls[n].tool)

Filtered == filtered[Len(calls)]

WindowAt(i) == SubSeq(Filtered, i, i + Window - 1)

\* How often the window at i is seen in a row.
Repeats(i) ==
  Max({n \in 1 .. Len(Filtered) :
         /\ i + n * Window - 1 <= Len(Filtered)
         /\ \A k \in 1 .. n - 1 : WindowAt(i + k * Window) = WindowAt(i)})

\* Faulty variant of Starts: the last pair of windows is not compared.
StartsShort == 1 .. Len(Filtered) - 2 * Window

Starts == 1 .. Len(Filtered) - 2 * Window + 1

PatternLoop ==
  LET most == Max({Repeats(i) : i \in Starts})
  IN IF Starts = {} \/ most < 2 THEN "silent" ELSE Severity(most, 2)

ToolErrorRate ==
  LET n == Len(calls)
      e == 100 * Cardinality(Failures(DOMAIN calls))
  IN IF n = 0 \/ e < ErrorPct * n THEN "silent" ELSE Severity(e, ErrorPct * n)

\* Faulty variant of ErrorSpike: the rate must exceed the threshold.
ErrorSpikeAbove(t) ==
  LET n == Cardinality(CallsOf(t))
  IN n >= 2 /\ 100 * Cardinality(Failures(CallsOf(t))) > SpecificPct * n

ErrorSpike(t) ==
  LET n == Cardinality(CallsOf(t))
  IN n >= 2 /\ 100 * Cardinality(Failures(CallsOf(t))) >= SpecificPct * n

\* The first tool over the threshold is reported, not the worst.
SpecificToolError ==
  LET suspects == {t \in Called : ErrorSpike(t)}
      t == FirstTool([u \in suspects |-> CallsOf(u)])
  IN IF suspects = {} THEN "silent"
     ELSE Severity(100 * Cardinality(Failures(CallsOf(t))),
                   SpecificPct * Cardinality(CallsOf(t)))

\* Calls without a duration are no part of the average.
Timed(t) == {i \in CallsOf(t) : calls[i].ms > 0}
TotalMs(I) == SumFunctionOnSet([i \in I |-> calls[i].ms], I)

\* The i-th call takes more than a multiple of its tool's average.
Slow(t, i) ==
  LET n == Cardinality(Timed(t))
  IN n >= 2 /\ calls[i].ms * n > LatencyMultiplier * TotalMs(Timed(t))

ToolLatency ==
  LET slow(t) == {i \in Timed(t) : Slow(t, i)}
      suspects == {t \in Called : slow(t) # {}}
      t == FirstTool([u \in suspects |-> Timed(u)])
  IN IF suspects = {} THEN "silent"
     ELSE Severity(calls[Min(slow(t))].ms * Cardinality(Timed(t)),
                   LatencyMultiplier * TotalMs(Timed(t)))

ToolTimeout ==
  LET late == {i \in DOMAIN calls : calls[i].ms > LimitMs}
  IN IF late = {} THEN "silent" ELSE Severity(calls[Min(late)].ms, LimitMs)

\* A share above a half that is at least twice the rest, the default multiplier.
\* In floating point (2/3) / (1 - 2/3) is less than 2, so two thirds is not
\* enough; (4/5) / (1 - 4/5) is more than 4, so four fifths is critical.
PerToolCostSpike ==
  LET driving == {t \in Called : LET n == Cardinality(CallsOf(t))
                                 IN n >= 3 /\ n > 2 * (Len(calls) - n)}
      n == Cardinality(CallsOf(CHOOSE t \in driving : TRUE))
  IN IF ~costed \/ driving = {} THEN "silent"
     ELSE IF n >= 4 * (Len(calls) - n) THEN "critical" ELSE "warning"

Returning(r) == {i \in DOMAIN calls : calls[i].result = r}

\* One output, seen often enough, from at least two tools.
IsWasted(r) ==
  /\ Cardinality(Returning(r)) >= WastedThreshold
  /\ Cardinality({calls[i].tool : i \in Returning(r)}) >= 2

WastedToolCalls ==
  LET wasted == {r \in Results : IsWasted(r)}
  IN IF wasted = {} THEN "silent"
     ELSE Severity(Max({Cardinality(Returning(r)) : r \in wasted}), WastedThreshold)

\* Everything after the first error counts as recovery.
RecoveryPath ==
  LET errors == Failures(DOMAIN calls)
      steps  == Len(calls) - Min(errors)
  IN IF Len(calls) < 3 \/ errors = {} THEN "silent"
     ELSE IF steps > RecoverySteps THEN Severity(steps, RecoverySteps) ELSE "silent"

Verdict(d) ==
  CASE d = "pattern_loop"        -> PatternLoop
    [] d = "tool_error_rate"     -> ToolErrorRate
    [] d = "specific_tool_error" -> SpecificToolError
    [] d = "tool_latency"        -> ToolLatency
    [] d = "tool_timeout"        -> ToolTimeout
    [] d = "per_tool_cost_spike" -> PerToolCostSpike
    [] d = "wasted_tool_calls"   -> WastedToolCalls
    [] d = "recovery_path"       -> RecoveryPath

Judge(d) ==
  /\ Running
  /\ d = Order[turn]
  /\ d \notin Streaks
  /\ report' = [report EXCEPT ![d] = Verdict(d)]
  /\ turn' = turn + 1
  /\ StartScan(turn + 1)
  /\ UNCHANGED <<calls, costed>>

-----------------------------------------------------------------------------

Next == \E d \in Detectors :
  \/ BreakStreak(d)
  \/ ExtendStreak(d)
  \/ RestartStreak(d)
  \/ Conclude(d)
  \/ Judge(d)

Spec == Init /\ [][Next]_vars

-----------------------------------------------------------------------------
(* Properties.                                                             *)

Done == ~Running
Fired(d) == report[d] # "silent"

\* Calls i to j of a trace are a streak to detector d: none is skipped or
\* nameless, and all agree on the key.
Streak(d, trace, i, j) ==
  \A k \in i .. j :
    /\ ~Skipped(d, trace[k])
    /\ StreakKey(d, trace[k]) = StreakKey(d, trace[i])
    /\ StreakKey(d, trace[k]) # Blank

HasStreak(d, trace, n) ==
  \E i, j \in DOMAIN trace : i < j /\ j - i + 1 >= n /\ Streak(d, trace, i, j)

\* The loops find what they look for: a streak detector reports a run exactly if
\* it has threshold calls in a row that agree, and calls it critical exactly if
\* it has twice as many.  A polled call, a call without arguments and a new key
\* each end a streak and no streak reaches over them (tool.py:113, 279, 291, 625).
StreaksAreExact ==
  Done => \A d \in Streaks :
    report[d] = IF HasStreak(d, calls, 2 * Threshold[d]) THEN "critical"
                ELSE IF HasStreak(d, calls, Threshold[d]) THEN "warning" ELSE "silent"

\* Redundant calls are the most definitive form of repeated work (tool.py:581): a
\* run with redundant calls has an argument loop too, unless it polls.
RedundantIsArgumentLoop ==
  /\ Done
  /\ Threshold["argument_loop"] <= Threshold["redundant_tool_call"]
  /\ Fired("redundant_tool_call")
  => Fired("argument_loop") \/ Called \cap Polling # {}

\* A critical loop of one tool is a repeating pattern as well, which is why the
\* reports drop the pattern beside the loop (validator.py:1144-1145).
LongLoopIsPattern ==
  Done /\ Window <= Threshold["loop"] /\ report["loop"] = "critical"
    => Fired("pattern_loop")

\* A high error rate over all calls has a culprit: if every tool was called at
\* least twice, one of them is over the same threshold by itself.
ErrorsHaveACulprit ==
  /\ Done
  /\ SpecificPct <= ErrorPct
  /\ \A t \in Called : Cardinality(CallsOf(t)) >= 2
  /\ Fired("tool_error_rate")
  => Fired("specific_tool_error")

\* The average contains the call it judges, so a tool needs more timed calls
\* than the multiplier before any of them can be slow, however long it takes.
LatencyNeedsCalls ==
  Done /\ Fired("tool_latency")
    => \E t \in Called : Cardinality(Timed(t)) > LatencyMultiplier

\* In a run with a single tool the verdicts collapse: both error rates agree,
\* the tool drives all of the cost, and nothing is wasted across tools.
OneToolVerdicts ==
  Done /\ Cardinality(Called) = 1 /\ Len(calls) >= 2
    => /\ SpecificPct = ErrorPct => report["specific_tool_error"] = report["tool_error_rate"]
       /\ Len(calls) >= 3 => (Fired("per_tool_cost_spike") <=> costed)
       /\ ~Fired("wasted_tool_calls")

\* The verdicts of different detectors on one trace fit each other, at every
\* threshold that is met exactly and at every number of calls.
VerdictsAgree ==
  /\ LongLoopIsPattern
  /\ ErrorsHaveACulprit
  /\ LatencyNeedsCalls
  /\ OneToolVerdicts

=============================================================================

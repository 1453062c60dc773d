------------------------- MODULE ToolDetectorsProofs -------------------------
(***************************************************************************)
(* Proofs about ToolDetectors: for traces of any length, any tools, and    *)
(* any thresholds, the streak loops report exactly the streaks there are,  *)
(* and the verdicts of different detectors on one trace fit each other.    *)
(***************************************************************************)
EXTENDS ToolDetectors, Sums

\* The streak that ends at the last call seen, when there is one, has the key
\* the loop remembers and is not longer than the loop has counted.
SuffixInv(d) ==
  \A i \in 1 .. at - 1 :
    Streak(d, calls, i, at - 1) => StreakKey(d, calls[at - 1]) = last /\ at - i <= current

\* A remembered key belongs to a streak of the counted length.
LastInv(d) ==
  last # Blank =>
    /\ current \in 1 .. at - 1
    /\ Streak(d, calls, at - current, at - 1)
    /\ StreakKey(d, calls[at - 1]) = last

\* The maximum bounds every streak seen, and one of that length was seen.
LongestInv(d) ==
  /\ \A i, j \in 1 .. at - 1 : i < j /\ Streak(d, calls, i, j) => j - i + 1 <= longest
  /\ longest >= 2 => \E i, j \in 1 .. at - 1 :
                       i < j /\ j - i + 1 = longest /\ Streak(d, calls, i, j)

ScanInv ==
  Running /\ Order[turn] \in Streaks =>
    SuffixInv(Order[turn]) /\ LastInv(Order[turn]) /\ LongestInv(Order[turn])

\* What the streak detector d has to report.
Expected(d) ==
  IF HasStreak(d, calls, 2 * Threshold[d]) THEN "critical"
  ELSE IF HasStreak(d, calls, Threshold[d]) THEN "warning" ELSE "silent"

\* Whether the calls I fail as often as a threshold says, and how badly.
RateVerdict(I, pct) ==
  IF 100 * Cardinality(Failures(I)) < pct * Cardinality(I) THEN "silent"
  ELSE Severity(100 * Cardinality(Failures(I)), pct * Cardinality(I))

\* What a verdict v of detector d says of the calls, as far as the properties
\* relate it to others.
Says(d, v) ==
  CASE d = "pattern_loop" ->
         HasStreak("loop", calls, 2 * Window) => v # "silent"
    [] d = "tool_error_rate" ->
         v = IF calls = << >> THEN "silent" ELSE RateVerdict(DOMAIN calls, ErrorPct)
    [] d = "specific_tool_error" ->
         /\ v # "silent" <=> \E t \in Called : ErrorSpike(t)
         /\ \A t \in Called : Called = {t} /\ ErrorSpike(t) => v = RateVerdict(CallsOf(t), SpecificPct)
    [] d = "tool_latency" ->
         v # "silent" => \E t \in Called : Cardinality(Timed(t)) > LatencyMultiplier
    [] d = "per_tool_cost_spike" ->
         \A t \in Called : Called = {t} /\ Len(calls) >= 3 => (v # "silent" <=> costed)
    [] d = "wasted_tool_calls" ->
         Cardinality(Called) = 1 => v = "silent"
    [] OTHER -> TRUE

\* The detectors that had their turn reported what they had to.
ReportInv ==
  \A k \in 1 .. turn - 1 : Order[k] \in Streaks => report[Order[k]] = Expected(Order[k])

SaysInv ==
  \A k \in 1 .. turn - 1, v \in Verdicts :
    Order[k] \notin Streaks /\ report[Order[k]] = v => Says(Order[k], v)

\* The counters are numbers and the positions are positions; the bounds on the
\* counters are consequences of the streaks they count.
BoundInv ==
  /\ calls \in Seq(Calls)
  /\ calls \in Traces
  /\ costed \in BOOLEAN
  /\ turn \in 1 .. Len(Order) + 1
  /\ at \in 1 .. Len(calls) + 1
  /\ current \in 0 .. at
  /\ longest \in 0 .. Len(calls) + 1
  /\ report \in [Detectors -> Verdicts]

IInv == BoundInv /\ ScanInv /\ ReportInv /\ SaysInv

USE DEF Running

-----------------------------------------------------------------------------
(* Facts about streaks.                                                    *)

\* The keys of calls with arguments are not blank.
LEMMA KeyNotBlank ==
  ASSUME calls \in Seq(Calls), NEW d \in Streaks, NEW k \in DOMAIN calls,
         ~Skipped(d, calls[k]), d # "loop"
  PROVE  StreakKey(d, calls[k]) # Blank
<1>1. calls[k] \in Calls
  OBVIOUS
<1>2. calls[k].args \in Args /\ calls[k].tool \in Tools \cup {Blank}
        /\ calls[k].result \in Results \cup {NoResult}
  BY <1>1 DEF Calls, Skipped
<1>3. CASE d = "argument_loop"
  BY <1>2, <1>3, KeyAssumption DEF StreakKey
<1>4. CASE d = "redundant_tool_call"
  BY <1>2, <1>4, KeyAssumption DEF StreakKey
<1> QED
  BY <1>3, <1>4 DEF Streaks

\* Part of a streak is a streak.
LEMMA PartOfStreak ==
  ASSUME NEW d, NEW trace, NEW i \in Int, NEW j \in Int, NEW a \in i .. j, NEW b \in Int, b <= j,
         Streak(d, trace, i, j)
  PROVE  Streak(d, trace, a, b)
BY DEF Streak

\* One more call that agrees makes a streak longer.
LEMMA LongerStreak ==
  ASSUME NEW d, NEW trace, NEW i \in Int, NEW j \in Int, i <= j,
         Streak(d, trace, i, j), ~Skipped(d, trace[j + 1]),
         StreakKey(d, trace[j + 1]) = StreakKey(d, trace[j])
  PROVE  Streak(d, trace, i, j + 1)
BY DEF Streak

-----------------------------------------------------------------------------
(* One loop iteration.                                                     *)

\* Before the first call there is nothing to remember.
LEMMA FreshScan ==
  ASSUME NEW d, at = 1, current \in {0, 1}, longest \in {0, 1}, last = Blank
  PROVE  SuffixInv(d) /\ LastInv(d) /\ LongestInv(d)
BY DEF SuffixInv, LastInv, LongestInv

\* A skipped call ends every streak.
LEMMA BreakKeeps ==
  ASSUME IInv, NEW d \in Detectors, BreakStreak(d)
  PROVE  SuffixInv(d)' /\ LastInv(d)' /\ LongestInv(d)'
<1> USE DEF IInv, BoundInv, BreakStreak, Scanning
<1>1. SuffixInv(d) /\ LastInv(d) /\ LongestInv(d)
  BY DEF ScanInv
<1>2. \A i \in 1 .. at : ~Streak(d, calls, i, at)
  BY DEF Streak
<1>3. SuffixInv(d)'
  BY <1>2 DEF SuffixInv
<1>4. LastInv(d)'
  BY DEF LastInv
<1>5. LongestInv(d)'
  BY <1>1, <1>2 DEF LongestInv
<1> QED
  BY <1>3, <1>4, <1>5

\* A call that agrees with the remembered key makes the streak longer.
LEMMA ExtendKeeps ==
  ASSUME IInv, NEW d \in Detectors, ExtendStreak(d)
  PROVE  SuffixInv(d)' /\ LastInv(d)' /\ LongestInv(d)'
<1> USE DEF IInv, BoundInv, ExtendStreak, Scanning
<1>1. SuffixInv(d) /\ LastInv(d) /\ LongestInv(d)
  BY DEF ScanInv
<1>2. /\ current \in 1 .. at - 1
      /\ Streak(d, calls, at - current, at - 1)
      /\ StreakKey(d, calls[at - 1]) = last
  BY <1>1 DEF LastInv, Continues
<1>3. Streak(d, calls, at - current, at)
  BY <1>2, LongerStreak DEF Continues
<1>4. \A i \in 1 .. at : Streak(d, calls, i, at) => at + 1 - i <= current + 1
  <2> TAKE i \in 1 .. at
  <2> HAVE Streak(d, calls, i, at)
  <2>1. CASE i = at
    BY <2>1, <1>2
  <2>2. CASE i < at
    <3>1. Streak(d, calls, i, at - 1)
      BY <2>2, PartOfStreak
    <3> QED
      BY <3>1, <2>2, <1>1 DEF SuffixInv
  <2> QED
    BY <2>1, <2>2
<1>5. SuffixInv(d)'
  BY <1>4 DEF SuffixInv, Continues
<1>6. LastInv(d)'
  BY <1>2, <1>3 DEF LastInv, Continues
<1>7. LongestInv(d)'
  <2>1. \A i, j \in 1 .. at : i < j /\ Streak(d, calls, i, j) => j - i + 1 <= longest'
    BY <1>1, <1>4 DEF LongestInv
  <2>2. CASE current + 1 > longest
    BY <2>1, <2>2, <1>2, <1>3 DEF LongestInv
  <2>3. CASE ~(current + 1 > longest)
    BY <2>1, <2>3, <1>1 DEF LongestInv
  <2> QED
    BY <2>2, <2>3
<1> QED
  BY <1>5, <1>6, <1>7

\* Any other call starts a new streak.
LEMMA RestartKeeps ==
  ASSUME IInv, NEW d \in Detectors, RestartStreak(d)
  PROVE  SuffixInv(d)' /\ LastInv(d)' /\ LongestInv(d)'
<1> USE DEF IInv, BoundInv, RestartStreak, Scanning
<1>1. SuffixInv(d) /\ LastInv(d) /\ LongestInv(d)
  BY DEF ScanInv
<1>2. \A i \in 1 .. at - 1 : ~Streak(d, calls, i, at)
  <2> SUFFICES ASSUME NEW i \in 1 .. at - 1, Streak(d, calls, i, at) PROVE FALSE
    OBVIOUS
  <2>1. Streak(d, calls, i, at - 1)
    BY PartOfStreak
  <2>2. StreakKey(d, calls[at - 1]) = last
    BY <2>1, <1>1 DEF SuffixInv
  <2>3. StreakKey(d, calls[at]) = StreakKey(d, calls[at - 1])
    BY DEF Streak
  <2>4. StreakKey(d, calls[at]) # Blank
    BY DEF Streak
  <2> QED
    BY <2>2, <2>3, <2>4 DEF Continues
<1>3. SuffixInv(d)'
  BY <1>2 DEF SuffixInv
<1>4. LastInv(d)'
  <2>1. last' # Blank => Streak(d, calls, at, at)
    BY DEF Streak
  <2> QED
    BY <2>1 DEF LastInv
<1>5. LongestInv(d)'
  BY <1>1, <1>2 DEF LongestInv
<1> QED
  BY <1>3, <1>4, <1>5

-----------------------------------------------------------------------------
(* Greatest and least members.                                             *)

\* A bounded set of numbers has a greatest member.
LEMMA GreatestMember ==
  ASSUME NEW T \in SUBSET Nat, T # {}, NEW b \in Nat, \A x \in T : x <= b
  PROVE  Max(T) \in T /\ \A x \in T : x <= Max(T)
<1> DEFINE D == {b - x : x \in T}
<1>1. D \in SUBSET Nat /\ D # {}
  <2>1. \A x \in T : b - x \in Nat
    OBVIOUS
  <2>2. QED BY <2>1
<1>2. PICK y \in D : \A z \in D : y <= z
  BY <1>1, LeastMember
<1>3. PICK x \in T : y = b - x
  BY <1>2
<1>4. \A z \in T : b - x <= b - z
  BY <1>2, <1>3
<1>5. \A z \in T : x >= z
  BY <1>4
<1>6. \E m \in T : \A z \in T : m >= z
  BY <1>5
<1>7. Max(T) \in T /\ \A z \in T : Max(T) >= z
  BY <1>6, Zenon DEF Max
<1>8. QED BY <1>7

\* A set of numbers has a least member, and Min finds it.
LEMMA MinMember ==
  ASSUME NEW T \in SUBSET Nat, T # {}
  PROVE  Min(T) \in T /\ \A x \in T : Min(T) <= x
<1>1. \E m \in T : \A z \in T : m <= z
  BY LeastMember
<1>2. QED BY <1>1, Zenon DEF Min

-----------------------------------------------------------------------------
(* The pattern loop detector.                                              *)

Drops(n) == calls[n].tool \in Polling \cup {Blank}

\* The names in the first n calls are collected one call at a time.
LEMMA FilteredStep ==
  ASSUME calls \in Seq(Calls)
  PROVE  /\ filtered[0] = << >>
         /\ \A n \in 1 .. Len(calls) :
              filtered[n] = IF Drops(n) THEN filtered[n - 1]
                                        ELSE Append(filtered[n - 1], calls[n].tool)
<1> DEFINE Step(g, n) == IF calls[n].tool \in Polling \cup {Blank} THEN g
                         ELSE Append(g, calls[n].tool)
           IsFilter(f, m) == f = [n \in 0 .. m |-> IF n = 0 THEN << >> ELSE Step(f[n - 1], n)]
           U == {m \in Nat : \E f : IsFilter(f, m)}
<1>1. 0 \in U
  <2>1. IsFilter([n \in 0 .. 0 |-> << >>], 0)
    OBVIOUS
  <2>2. QED BY <2>1
<1>2. ASSUME NEW m \in Nat, m \in U PROVE m + 1 \in U
  <2>1. PICK f : IsFilter(f, m)
    BY <1>2
  <2> DEFINE g == [n \in 0 .. m + 1 |-> IF n = m + 1 THEN Step(f[m], n) ELSE f[n]]
  <2> HIDE DEF Step
  <2>2. \A n \in 0 .. m : g[n] = f[n]
    OBVIOUS
  <2>3. \A n \in 0 .. m + 1 : g[n] = IF n = 0 THEN << >> ELSE Step(g[n - 1], n)
    <3> SUFFICES ASSUME NEW n \in 0 .. m + 1
                 PROVE  g[n] = IF n = 0 THEN << >> ELSE Step(g[n - 1], n)
      OBVIOUS
    <3>1. CASE n = m + 1
      BY <3>1, <2>2
    <3>2. CASE n \in 0 .. m
      <4>1. f[n] = IF n = 0 THEN << >> ELSE Step(f[n - 1], n)
        BY <2>1, <3>2
      <4>2. n # 0 => n - 1 \in 0 .. m
        BY <3>2
      <4> HIDE DEF g
      <4>3. QED BY <4>1, <4>2, <3>2, <2>2
    <3>3. QED BY <3>1, <3>2
  <2>4. IsFilter(g, m + 1)
    BY <2>3
  <2>5. m + 1 \in Nat
    OBVIOUS
  <2> HIDE DEF IsFilter, g
  <2>6. QED BY <2>4, <2>5
<1>3. \E f : IsFilter(f, Len(calls))
  <2>1. Len(calls) \in Nat
    OBVIOUS
  <2> HIDE DEF U
  <2>2. \A m \in Nat : m \in U
    BY <1>1, <1>2, NaturalInduction
  <2>3. QED BY <2>1, <2>2 DEF U
<1>4. IsFilter(filtered, Len(calls))
  BY <1>3 DEF filtered
<1> HIDE DEF Step
<1>5. \A n \in 0 .. Len(calls) : filtered[n] = IF n = 0 THEN << >> ELSE Step(filtered[n - 1], n)
  BY <1>4
<1>6. 0 \in 0 .. Len(calls) /\ \A n \in 1 .. Len(calls) : n \in 0 .. Len(calls) /\ n # 0
  OBVIOUS
<1>7. QED BY <1>5, <1>6 DEF Step, Drops

\* They are names of tools.
LEMMA FilteredType ==
  ASSUME calls \in Seq(Calls)
  PROVE  \A n \in 0 .. Len(calls) : filtered[n] \in Seq(Tools)
<1> DEFINE U == {n \in Nat : n <= Len(calls) => filtered[n] \in Seq(Tools)}
<1>1. 0 \in U
  <2>1. filtered[0] = << >>
    BY FilteredStep
  <2>2. << >> \in Seq(Tools)
    OBVIOUS
  <2>3. QED BY <2>1, <2>2
<1>2. ASSUME NEW n \in Nat, n \in U PROVE n + 1 \in U
  <2> SUFFICES ASSUME n + 1 <= Len(calls) PROVE filtered[n + 1] \in Seq(Tools)
    OBVIOUS
  <2>1. n + 1 \in 1 .. Len(calls) /\ (n + 1) - 1 = n /\ n <= Len(calls)
    OBVIOUS
  <2>2. calls[n + 1] \in Calls
    BY <2>1
  <2>3. calls[n + 1].tool \in Tools \cup {Blank}
    BY <2>2 DEF Calls
  <2>4. ~Drops(n + 1) => calls[n + 1].tool \in Tools
    BY <2>3 DEF Drops
  <2>5. filtered[n] \in Seq(Tools)
    BY <1>2, <2>1
  <2>6. filtered[n + 1] = IF Drops(n + 1) THEN filtered[n]
                                          ELSE Append(filtered[n], calls[n + 1].tool)
    BY <2>1, FilteredStep
  <2>7. QED BY <2>4, <2>5, <2>6
<1>3. \A n \in Nat : n \in U
  <2> HIDE DEF U
  <2>1. QED BY <1>1, <1>2, NaturalInduction
<1>4. QED BY <1>3

\* Collecting more calls keeps the names that are there.
LEMMA FilteredGrows ==
  ASSUME calls \in Seq(Calls), NEW m \in 0 .. Len(calls)
  PROVE  \A n \in m .. Len(calls) :
           /\ Len(filtered[m]) <= Len(filtered[n])
           /\ \A k \in 1 .. Len(filtered[m]) : filtered[n][k] = filtered[m][k]
<1> DEFINE Grown(n) == /\ Len(filtered[m]) <= Len(filtered[n])
                       /\ \A k \in 1 .. Len(filtered[m]) : filtered[n][k] = filtered[m][k]
           U == {n \in Nat : m <= n /\ n <= Len(calls) => Grown(n)}
<1>0. Len(filtered[m]) \in Nat
  BY FilteredType
<1>1. 0 \in U
  <2>1. m <= 0 => m = 0
    OBVIOUS
  <2>2. QED BY <2>1, <1>0
<1>2. ASSUME NEW n \in Nat, n \in U PROVE n + 1 \in U
  <2> SUFFICES ASSUME m <= n + 1, n + 1 <= Len(calls) PROVE Grown(n + 1)
    OBVIOUS
  <2>1. CASE m = n + 1
    BY <2>1, <1>0
  <2>2. CASE m <= n
    <3>1. n + 1 \in 1 .. Len(calls) /\ (n + 1) - 1 = n /\ n \in 0 .. Len(calls)
      OBVIOUS
    <3>2. Grown(n)
      BY <1>2, <2>2, <3>1
    <3>3. filtered[n] \in Seq(Tools)
      BY <3>1, FilteredType
    <3>4. \/ filtered[n + 1] = filtered[n]
          \/ filtered[n + 1] = Append(filtered[n], calls[n + 1].tool)
      BY <3>1, FilteredStep
    <3>5. Len(filtered[n]) \in Nat /\ Len(Append(filtered[n], calls[n + 1].tool)) = Len(filtered[n]) + 1
          /\ \A k \in 1 .. Len(filtered[n]) : Append(filtered[n], calls[n + 1].tool)[k] = filtered[n][k]
      BY <3>3
    <3>6. Len(filtered[n]) <= Len(filtered[n + 1]) /\ Len(filtered[m]) <= Len(filtered[n])
          /\ \A k \in 1 .. Len(filtered[n]) : filtered[n + 1][k] = filtered[n][k]
      BY <3>2, <3>4, <3>5
    <3>7. Len(filtered[n + 1]) \in Nat
      BY <3>1, FilteredType
    <3>8. Len(filtered[m]) <= Len(filtered[n + 1])
          /\ \A k \in 1 .. Len(filtered[m]) : k \in 1 .. Len(filtered[n])
      BY <3>5, <3>6, <3>7, <1>0
    <3>9. QED BY <3>2, <3>6, <3>8
  <2>3. QED BY <2>1, <2>2
<1>3. \A n \in Nat : n \in U
  <2> HIDE DEF U
  <2>1. QED BY <1>1, <1>2, NaturalInduction
<1>4. QED BY <1>3

\* A streak of one tool is a run of equal names.
LEMMA StreakIsRun ==
  ASSUME calls \in Seq(Calls), NEW i \in DOMAIN calls, NEW j \in DOMAIN calls, i <= j,
         Streak("loop", calls, i, j)
  PROVE  \A n \in i - 1 .. j :
           /\ Len(filtered[n]) = Len(filtered[i - 1]) + (n - (i - 1))
           /\ \A k \in Len(filtered[i - 1]) + 1 .. Len(filtered[n]) :
                filtered[n][k] = calls[i].tool
<1> DEFINE l == Len(filtered[i - 1])
           Run(n) == /\ Len(filtered[n]) = l + (n - (i - 1))
                     /\ \A k \in l + 1 .. Len(filtered[n]) : filtered[n][k] = calls[i].tool
           U == {n \in Nat : i - 1 <= n /\ n <= j => Run(n)}
<1>t. i \in Nat /\ j \in Nat /\ i - 1 \in Nat
  OBVIOUS
<1>0. i - 1 \in 0 .. Len(calls) /\ l \in Nat /\ Run(i - 1)
  <2>1. i - 1 \in 0 .. Len(calls)
    OBVIOUS
  <2>2. l \in Nat
    BY <2>1, FilteredType
  <2>3. l + ((i - 1) - (i - 1)) = l /\ \A k \in l + 1 .. l : FALSE
    BY <2>2
  <2>4. QED BY <2>1, <2>2, <2>3
<1>1. 0 \in U
  <2>1. i - 1 <= 0 => i - 1 = 0
    OBVIOUS
  <2> HIDE DEF Run
  <2>2. QED BY <2>1, <1>0
<1>2. ASSUME NEW n \in Nat, n \in U PROVE n + 1 \in U
  <2> SUFFICES ASSUME i - 1 <= n + 1, n + 1 <= j PROVE Run(n + 1)
    OBVIOUS
  <2>1. CASE i - 1 = n + 1
    <3> HIDE DEF Run
    <3>1. QED BY <2>1, <1>0
  <2>2. CASE i - 1 <= n
    <3>1. n + 1 \in 1 .. Len(calls) /\ (n + 1) - 1 = n /\ n \in 0 .. Len(calls) /\ n + 1 \in i .. j
      BY <2>2
    <3>2. Run(n)
      BY <1>2, <2>2, <3>1
    <3>3. filtered[n] \in Seq(Tools)
      BY <3>1, FilteredType
    <3>4. ~Drops(n + 1) /\ calls[n + 1].tool = calls[i].tool
      BY <3>1 DEF Streak, Skipped, StreakKey, Drops
    <3>5. filtered[n + 1] = Append(filtered[n], calls[i].tool)
      BY <3>1, <3>4, FilteredStep
    <3>6. /\ Len(filtered[n]) \in Nat
          /\ Len(Append(filtered[n], calls[i].tool)) = Len(filtered[n]) + 1
          /\ \A k \in 1 .. Len(filtered[n]) : Append(filtered[n], calls[i].tool)[k] = filtered[n][k]
          /\ Append(filtered[n], calls[i].tool)[Len(filtered[n]) + 1] = calls[i].tool
      BY <3>3
    <3> DEFINE s == filtered[n]
               u == filtered[n + 1]
    <3>7. Len(u) = Len(s) + 1 /\ u[Len(s) + 1] = calls[i].tool
          /\ \A k \in 1 .. Len(s) : u[k] = s[k]
      BY <3>5, <3>6
    <3>8. Len(u) = l + ((n + 1) - (i - 1))
      <4>1. Len(s) = l + (n - (i - 1)) /\ Len(s) \in Nat /\ l \in Nat /\ Len(u) = Len(s) + 1
        BY <3>2, <3>7, <3>6, <1>0
      <4> HIDE DEF l, s, u
      <4>2. QED BY <4>1, <1>t, SMTT(30)
    <3>9. \A k \in l + 1 .. Len(u) : u[k] = calls[i].tool
      <4> SUFFICES ASSUME NEW k \in l + 1 .. Len(u) PROVE u[k] = calls[i].tool
        OBVIOUS
      <4>1. k \in l + 1 .. Len(s) \/ k = Len(s) + 1
        <5>1. l \in Nat /\ Len(s) \in Nat /\ Len(u) = Len(s) + 1
          BY <3>7, <3>6, <1>0
        <5> HIDE DEF l, s, u
        <5>2. QED BY <5>1
      <4>2. k \in l + 1 .. Len(s) => k \in 1 .. Len(s)
        BY <3>6, <1>0
      <4>3. QED BY <4>1, <4>2, <3>2, <3>7
    <3>10. QED BY <3>8, <3>9
  <2>3. QED BY <2>1, <2>2
<1>3. \A n \in Nat : n \in U
  <2> HIDE DEF U
  <2>1. QED BY <1>1, <1>2, NaturalInduction
<1>4. \A n \in i - 1 .. j : n \in Nat
  OBVIOUS
<1>5. QED BY <1>3, <1>4

\* So a streak of two windows of one tool is a pattern.
LEMMA StreakIsPattern ==
  ASSUME calls \in Seq(Calls), HasStreak("loop", calls, 2 * Window)
  PROVE  PatternLoop # "silent"
<1>1. PICK i, j \in DOMAIN calls :
        i < j /\ j - i + 1 >= 2 * Window /\ Streak("loop", calls, i, j)
  BY DEF HasStreak
<1> DEFINE p == Len(filtered[i - 1])
           F == Filtered
<1>2. Window \in Nat \ {0}
  BY ThresholdAssumption
<1>3. i - 1 \in 0 .. Len(calls) /\ j \in 0 .. Len(calls) /\ Len(calls) \in j .. Len(calls)
      /\ j \in i - 1 .. j /\ i \in Nat /\ j \in Nat
  BY <1>1
<1>4. p \in Nat /\ F \in Seq(Tools) /\ Len(F) \in Nat /\ Len(filtered[j]) \in Nat
  BY <1>3, FilteredType DEF Filtered
<1>5. /\ Len(filtered[j]) = p + (j - (i - 1))
      /\ \A k \in p + 1 .. Len(filtered[j]) : filtered[j][k] = calls[i].tool
  <2>1. i <= j
    BY <1>1, <1>3
  <2>2. \A n \in i - 1 .. j :
           /\ Len(filtered[n]) = Len(filtered[i - 1]) + (n - (i - 1))
           /\ \A k \in Len(filtered[i - 1]) + 1 .. Len(filtered[n]) :
                filtered[n][k] = calls[i].tool
    BY <1>1, <2>1, StreakIsRun
  <2>3. QED BY <2>2, <1>3
<1>6. /\ Len(filtered[j]) <= Len(F)
      /\ \A k \in 1 .. Len(filtered[j]) : F[k] = filtered[j][k]
  BY <1>3, FilteredGrows DEF Filtered
<1> DEFINE m == Len(filtered[j])
<1>7. /\ m <= Len(F) /\ m >= p + 2 * Window /\ m \in Nat
      /\ \A k \in p + 1 .. m : F[k] = calls[i].tool
  <2>1. \A k \in p + 1 .. m : k \in 1 .. m
    BY <1>4
  <2>2. \A k \in p + 1 .. m : F[k] = calls[i].tool
    BY <2>1, <1>5, <1>6
  <2>3. m = p + (j - (i - 1)) /\ m <= Len(F) /\ m \in Nat
    BY <1>4, <1>5, <1>6
  <2> HIDE DEF p, F, m
  <2>4. m >= p + 2 * Window
    <3>1. j - i + 1 >= 2 * Window /\ i \in Nat /\ j \in Nat /\ Window \in Nat /\ p \in Nat
      BY <1>1, <1>2, <1>3, <1>4
    <3>2. QED BY <2>3, <3>1, SMTT(30)
  <2>5. QED BY <1>4, <2>2, <2>3, <2>4 DEF m
<1> HIDE DEF p, F, m
<1>8. p + 1 \in 1 .. Len(F) - 2 * Window + 1
  BY <1>2, <1>4, <1>7
<1>9. WindowAt(p + 1 + 1 * Window) = WindowAt(p + 1)
  <2>1. WindowAt(p + 1) = [k \in 1 .. Window |-> calls[i].tool]
    <3>1. SubSeq(F, p + 1, p + 1 + Window - 1) = [k \in 1 .. Window |-> F[p + k]]
      BY <1>2, <1>4, <1>7
    <3>2. \A k \in 1 .. Window : F[p + k] = calls[i].tool
      BY <1>2, <1>4, <1>7
    <3>3. QED BY <3>1, <3>2 DEF WindowAt, F
  <2>2. WindowAt(p + 1 + 1 * Window) = [k \in 1 .. Window |-> calls[i].tool]
    <3>1. SubSeq(F, p + 1 + 1 * Window, p + 1 + 1 * Window + Window - 1)
            = [k \in 1 .. Window |-> F[p + Window + k]]
      BY <1>2, <1>4, <1>7
    <3>2. \A k \in 1 .. Window : F[p + Window + k] = calls[i].tool
      BY <1>2, <1>4, <1>7
    <3>3. QED BY <3>1, <3>2 DEF WindowAt, F
  <2>3. QED BY <2>1, <2>2
<1> DEFINE Rep(q) == {n \in 1 .. Len(F) :
                        /\ q + n * Window - 1 <= Len(F)
                        /\ \A k \in 1 .. n - 1 : WindowAt(q + k * Window) = WindowAt(q)}
<1>10. 2 \in Rep(p + 1)
  <2>1. 2 \in 1 .. Len(F) /\ p + 1 + 2 * Window - 1 <= Len(F)
    BY <1>2, <1>4, <1>7
  <2>2. \A k \in 1 .. 2 - 1 : k = 1
    OBVIOUS
  <2>3. QED BY <2>1, <2>2, <1>9
<1>11. \A q \in Starts : Repeats(q) = Max(Rep(q)) /\ Rep(q) \in SUBSET Nat
                         /\ \A x \in Rep(q) : x <= Len(F)
  BY <1>4 DEF Repeats, F
<1>12. \A q \in Starts : 1 \in Rep(q)
  <2> SUFFICES ASSUME NEW q \in Starts PROVE 1 \in Rep(q)
    OBVIOUS
  <2>1. q \in 1 .. Len(F) - 2 * Window + 1
    BY DEF Starts, F
  <2>2. 1 \in 1 .. Len(F) /\ q + 1 * Window - 1 <= Len(F)
    BY <2>1, <1>2, <1>4
  <2>3. \A k \in 1 .. 1 - 1 : FALSE
    OBVIOUS
  <2>4. QED BY <2>2, <2>3
<1> HIDE DEF Rep
<1>13. \A q \in Starts : Repeats(q) \in Nat /\ Repeats(q) <= Len(F)
  <2> SUFFICES ASSUME NEW q \in Starts PROVE Repeats(q) \in Nat /\ Repeats(q) <= Len(F)
    OBVIOUS
  <2>1. Max(Rep(q)) \in Rep(q)
    BY <1>4, <1>11, <1>12, GreatestMember
  <2>2. QED BY <2>1, <1>11
<1>14. p + 1 \in Starts
  BY <1>8 DEF Starts, F
<1>15. Repeats(p + 1) >= 2
  <2>1. \A x \in Rep(p + 1) : x <= Max(Rep(p + 1))
    BY <1>4, <1>10, <1>11, <1>14, GreatestMember
  <2>2. 2 <= Max(Rep(p + 1)) /\ Repeats(p + 1) = Max(Rep(p + 1))
    BY <2>1, <1>10, <1>11, <1>14
  <2>3. Repeats(p + 1) \in Nat
    BY <1>13, <1>14
  <2>4. QED BY <2>2, <2>3
<1> DEFINE M == {Repeats(q) : q \in Starts}
<1>16. M \in SUBSET Nat /\ M # {} /\ (\A x \in M : x <= Len(F)) /\ Repeats(p + 1) \in M
  BY <1>13, <1>14
<1>17. Max(M) \in Nat /\ Repeats(p + 1) <= Max(M)
  <2> HIDE DEF M
  <2>1. Max(M) \in M /\ \A x \in M : x <= Max(M)
    BY <1>16, <1>4, GreatestMember
  <2>2. QED BY <2>1, <1>16
<1>18. ~(Max(M) < 2)
  BY <1>13, <1>14, <1>15, <1>17
<1>19. PatternLoop = Severity(Max(M), 2)
  BY <1>14, <1>18 DEF PatternLoop
<1>20. QED BY <1>19 DEF Severity

-----------------------------------------------------------------------------
(* Counting the calls.                                                     *)

\* The calls of a trace are finitely many, and so are its tools.
LEMMA CallsAreFinite ==
  ASSUME calls \in Seq(Calls)
  PROVE  /\ IsFiniteSet(DOMAIN calls) /\ Cardinality(DOMAIN calls) = Len(calls)
         /\ IsFiniteSet(Called)
         /\ \A I \in SUBSET DOMAIN calls : IsFiniteSet(I) /\ Cardinality(I) \in Nat
<1>1. DOMAIN calls = 1 .. Len(calls) /\ Len(calls) \in Nat
  OBVIOUS
<1>2. IsFiniteSet(DOMAIN calls) /\ Cardinality(DOMAIN calls) = Len(calls)
  BY <1>1, FS_Interval, SMTT(30)
<1> DEFINE f == [i \in DOMAIN calls |-> calls[i].tool]
<1>3. f \in Surjection(DOMAIN calls, Called)
  BY DEF Surjection, Called
<1>4. IsFiniteSet(Called)
  BY <1>2, <1>3, FS_Surjection
<1>5. QED BY <1>2, <1>4, FS_Subset, FS_CardinalityType

\* If every tool fails less often than a threshold, so do all calls together.
LEMMA RatesAddUp ==
  ASSUME calls \in Seq(Calls), calls # << >>, NEW pct \in Nat,
         \A t \in Called : 100 * Cardinality(Failures(CallsOf(t))) < pct * Cardinality(CallsOf(t))
  PROVE  100 * Cardinality(Failures(DOMAIN calls)) < pct * Len(calls)
<1> DEFINE Of(s) == {i \in DOMAIN calls : calls[i].tool \in s}
           n(s) == Cardinality(Of(s))
           e(s) == Cardinality(Failures(Of(s)))
           U == {s \in SUBSET Called : s # {} => 100 * e(s) < pct * n(s)}
<1>1. \A s : n(s) \in Nat /\ e(s) \in Nat /\ IsFiniteSet(Of(s)) /\ IsFiniteSet(Failures(Of(s)))
  BY CallsAreFinite DEF Failures
<1>2. {} \in U
  OBVIOUS
<1>3. ASSUME NEW s \in SUBSET Called, NEW t \in Called \ s, s \in U PROVE s \cup {t} \in U
  <2>1. Of(s \cup {t}) = Of(s) \cup CallsOf(t) /\ Of(s) \cap CallsOf(t) = {}
    BY <1>3 DEF CallsOf
  <2>2. Failures(Of(s \cup {t})) = Failures(Of(s)) \cup Failures(CallsOf(t))
        /\ Failures(Of(s)) \cap Failures(CallsOf(t)) = {}
    BY <1>3 DEF Failures, CallsOf
  <2>3. /\ IsFiniteSet(CallsOf(t)) /\ Cardinality(CallsOf(t)) \in Nat
        /\ IsFiniteSet(Failures(CallsOf(t))) /\ Cardinality(Failures(CallsOf(t))) \in Nat
    BY CallsAreFinite DEF CallsOf, Failures
  <2> HIDE DEF Of
  <2>4. n(s \cup {t}) = n(s) + Cardinality(CallsOf(t))
    BY <1>1, <2>1, <2>3, DisjointUnion
  <2>5. e(s \cup {t}) = e(s) + Cardinality(Failures(CallsOf(t)))
    BY <1>1, <2>2, <2>3, DisjointUnion
  <2>6. s = {} => n(s) = 0 /\ e(s) = 0
    <3>1. s = {} => Of(s) = {} /\ Failures(Of(s)) = {}
      BY DEF Of, Failures
    <3>2. QED BY <3>1, FS_EmptySet
  <2>7. 100 * e(s) <= pct * n(s)
    <3>1. CASE s = {}
      <4>1. pct * 0 = 0
        OBVIOUS
      <4>2. QED BY <3>1, <2>6, <4>1
    <3>2. CASE s # {}
      <4>1. 100 * e(s) < pct * n(s) /\ pct * n(s) \in Nat
        BY <1>1, <1>3, <3>2
      <4>2. QED BY <4>1, <1>1
    <3>3. QED BY <3>1, <3>2
  <2>8. 100 * Cardinality(Failures(CallsOf(t))) < pct * Cardinality(CallsOf(t))
    OBVIOUS
  <2>9. pct * n(s \cup {t}) = pct * n(s) + pct * Cardinality(CallsOf(t))
    BY <1>1, <2>3, <2>4, Products
  <2>10. \A a, b, x, y \in Nat : 100 * a <= x /\ 100 * b < y => 100 * (a + b) < x + y
    OBVIOUS
  <2>11. pct * n(s) \in Nat /\ pct * Cardinality(CallsOf(t)) \in Nat
    BY <1>1, <2>3
  <2>12. 100 * e(s \cup {t}) < pct * n(s \cup {t})
    <3> HIDE DEF n, e
    <3>1. 100 * (e(s) + Cardinality(Failures(CallsOf(t))))
            < pct * n(s) + pct * Cardinality(CallsOf(t))
      BY <1>1, <2>3, <2>7, <2>8, <2>10, <2>11
    <3>2. QED BY <2>5, <2>9, <3>1
  <2>13. QED BY <1>3, <2>12
<1>4. Called \in U
  <2> HIDE DEF U
  <2>1. QED BY <1>2, <1>3, CallsAreFinite, FiniteInduction
<1>5. Called # {}
  <2>1. Len(calls) # 0 /\ Len(calls) \in Nat
    OBVIOUS
  <2>2. 1 \in DOMAIN calls
    BY <2>1
  <2>3. QED BY <2>2 DEF Called
<1>6. Of(Called) = DOMAIN calls
  BY DEF Called
<1>7. n(Called) = Len(calls)
  BY <1>6, CallsAreFinite
<1>8. QED BY <1>4, <1>5, <1>6, <1>7

\* A slow call has more timed calls of its tool beside it than the multiplier.
LEMMA SlowNeedsCalls ==
  ASSUME calls \in Seq(Calls), NEW t, NEW i \in Timed(t), Slow(t, i)
  PROVE  Cardinality(Timed(t)) > LatencyMultiplier
<1> DEFINE T == Timed(t)
           h == [j \in T |-> calls[j].ms]
           n == Cardinality(T)
<1>1. T \in SUBSET DOMAIN calls /\ T # {}
  BY DEF Timed, CallsOf
<1>2. IsFiniteSet(T) /\ n \in Nat
  BY <1>1, CallsAreFinite
<1>3. \A j \in T : h[j] \in Nat /\ h[j] = calls[j].ms
  <2>1. \A j \in T : calls[j] \in Calls
    BY <1>1
  <2>2. QED BY <2>1 DEF Calls
<1>4. h[i] > 0
  BY <1>3 DEF Timed
<1>5. TotalMs(T) = SumFunctionOnSet(h, T)
  BY DEF TotalMs
<1> HIDE DEF h
<1>6. TotalMs(T) \in Nat /\ TotalMs(T) >= h[i]
  <2>1. IsFiniteSet(T \ {i}) /\ T \ {i} \in SUBSET T /\ i \in T \ (T \ {i}) /\ (T \ {i}) \cup {i} = T
    BY <1>2, FS_Subset
  <2>2. SumFunctionOnSet(h, T \ {i}) \in Nat
    BY <1>3, <2>1, SumType
  <2>3. \A j \in T : h[j] \in Int
    BY <1>3
  <2>4. SumFunctionOnSet(h, (T \ {i}) \cup {i}) = SumFunctionOnSet(h, T \ {i}) + h[i]
    <3>1. \A S \in SUBSET T : \A x \in T \ S :
            SumFunctionOnSet(h, S \cup {x}) = SumFunctionOnSet(h, S) + h[x]
      BY <1>2, <2>3, SumAdd
    <3>2. QED BY <2>1, <3>1
  <2>5. SumFunctionOnSet(h, T) = SumFunctionOnSet(h, T \ {i}) + h[i]
    BY <2>1, <2>4
  <2>6. h[i] \in Nat
    BY <1>3
  <2>7. QED BY <1>5, <2>2, <2>5, <2>6
<1>7. h[i] * n > LatencyMultiplier * TotalMs(T)
  BY <1>3 DEF Slow
<1>8. LatencyMultiplier \in Nat
  BY ThresholdAssumption
<1>9. \A a, b, c, d \in Nat : a * b > c * d /\ d >= a => b > c
  <2> SUFFICES ASSUME NEW a \in Nat, NEW b \in Nat, NEW c \in Nat, NEW d \in Nat,
                      a * b > c * d, d >= a, b <= c
               PROVE  FALSE
    OBVIOUS
  <2>1. a * b <= a * c
    BY Products
  <2>2. c * a <= c * d
    BY Products
  <2>3. a * c = c * a
    OBVIOUS
  <2>4. a * b \in Nat /\ a * c \in Nat /\ c * d \in Nat
    OBVIOUS
  <2>5. QED BY <2>1, <2>2, <2>3, <2>4
<1>10. h[i] \in Nat
  BY <1>3
<1> HIDE DEF n, T
<1>11. n > LatencyMultiplier
  BY <1>2, <1>6, <1>7, <1>8, <1>9, <1>10
<1>12. QED BY <1>11 DEF n, T

-----------------------------------------------------------------------------
(* What the verdicts say of a trace.                                       *)

\* What a verdict says does not change while the trace stays.
LEMMA SaysStays ==
  ASSUME calls' = calls, costed' = costed, NEW d, NEW v, Says(d, v)
  PROVE  Says(d, v)'
<1>1. \A t : ErrorSpike(t)' <=> ErrorSpike(t)
  BY DEF ErrorSpike, CallsOf, Failures
<1>2. Called' = Called
  BY DEF Called
<1>3. HasStreak("loop", calls, 2 * Window)' <=> HasStreak("loop", calls, 2 * Window)
  BY DEF HasStreak, Streak, Skipped, StreakKey
<1>4. \A t : CallsOf(t)' = CallsOf(t) /\ Timed(t)' = Timed(t)
  BY DEF Timed, CallsOf
<1>5. \A I, pct : RateVerdict(I, pct)' = RateVerdict(I, pct)
  BY DEF RateVerdict, Failures, Severity
<1>6. RateVerdict(DOMAIN calls, ErrorPct)' = RateVerdict(DOMAIN calls, ErrorPct)
      /\ \A t : RateVerdict(CallsOf(t), SpecificPct)' = RateVerdict(CallsOf(t), SpecificPct)
  BY DEF RateVerdict, Failures, Severity, CallsOf
<1>7. QED BY <1>1, <1>2, <1>3, <1>4, <1>6 DEF Says

\* Among the calls of a single tool are all calls.
LEMMA OneTool ==
  ASSUME calls \in Seq(Calls), NEW t, Called = {t}
  PROVE  CallsOf(t) = DOMAIN calls /\ calls # << >>
<1>1. CallsOf(t) = DOMAIN calls
  BY DEF Called, CallsOf
<1>2. \E i \in DOMAIN calls : TRUE
  BY DEF Called
<1>3. QED BY <1>1, <1>2

\* A value over its threshold is reported.
LEMMA SeverityFires == \A v, t : Severity(v, t) # "silent"
BY DEF Severity

\* Every verdict says what it should.
LEMMA VerdictSays ==
  ASSUME calls \in Seq(Calls), costed \in BOOLEAN, NEW d \in Detectors \ Streaks
  PROVE  Says(d, Verdict(d))
<1>1. CASE d = "pattern_loop"
  BY <1>1, StreakIsPattern DEF Says, Verdict
<1>2. CASE d = "tool_error_rate"
  <2>1. Len(calls) = 0 <=> calls = << >>
    OBVIOUS
  <2>2. QED BY <1>2, <2>1, CallsAreFinite DEF Says, Verdict, ToolErrorRate, RateVerdict
<1>3. CASE d = "specific_tool_error"
  <2> DEFINE suspects == {u \in Called : ErrorSpike(u)}
             first == FirstTool([u \in suspects |-> CallsOf(u)])
  <2>1. SpecificToolError = IF suspects = {} THEN "silent"
                            ELSE Severity(100 * Cardinality(Failures(CallsOf(first))),
                                          SpecificPct * Cardinality(CallsOf(first)))
    BY DEF SpecificToolError
  <2>2. SpecificToolError # "silent" <=> \E t \in Called : ErrorSpike(t)
    <3> HIDE DEF first
    <3>1. QED BY <2>1, SeverityFires
  <2>3. ASSUME NEW t, Called = {t}, ErrorSpike(t)
        PROVE  SpecificToolError = RateVerdict(CallsOf(t), SpecificPct)
    <3>1. suspects = {t}
      BY <2>3
    <3> DEFINE f == [u \in suspects |-> CallsOf(u)]
    <3>2. DOMAIN f = {t} /\ f[t] = DOMAIN calls
      BY <2>3, <3>1, OneTool
    <3>3. DOMAIN calls \in SUBSET Nat /\ DOMAIN calls # {}
      <4>1. calls # << >> /\ DOMAIN calls = 1 .. Len(calls) /\ Len(calls) \in Nat
        BY <2>3, OneTool
      <4>2. Len(calls) # 0
        BY <4>1
      <4>3. 1 \in DOMAIN calls
        BY <4>1, <4>2
      <4>4. QED BY <4>1, <4>3
    <3>4. Min(f[t]) <= Min(f[t])
      BY <3>2, <3>3, MinMember
    <3>5. first = FirstTool(f)
      OBVIOUS
    <3> HIDE DEF f, first
    <3>6. FirstTool(f) = t
      BY <3>2, <3>4 DEF FirstTool
    <3>7. first = t
      BY <3>5, <3>6
    <3>8. SpecificToolError = Severity(100 * Cardinality(Failures(CallsOf(t))),
                                       SpecificPct * Cardinality(CallsOf(t)))
      BY <2>1, <3>1, <3>7
    <3>9. ~(100 * Cardinality(Failures(CallsOf(t))) < SpecificPct * Cardinality(CallsOf(t)))
      <4>1. Cardinality(CallsOf(t)) \in Nat /\ Cardinality(Failures(CallsOf(t))) \in Nat
        BY CallsAreFinite DEF CallsOf, Failures
      <4>2. SpecificPct \in Nat
        BY ThresholdAssumption
      <4>3. SpecificPct * Cardinality(CallsOf(t)) \in Nat
        BY <4>1, <4>2
      <4>4. 100 * Cardinality(Failures(CallsOf(t))) >= SpecificPct * Cardinality(CallsOf(t))
        BY <2>3 DEF ErrorSpike
      <4>5. QED BY <4>1, <4>3, <4>4
    <3>10. QED BY <3>8, <3>9 DEF RateVerdict
  <2>4. QED BY <1>3, <2>2, <2>3 DEF Says, Verdict
<1>4. CASE d = "tool_latency"
  <2>1. ASSUME ToolLatency # "silent"
        PROVE  \E t \in Called : Cardinality(Timed(t)) > LatencyMultiplier
    <3>1. {t \in Called : {i \in Timed(t) : Slow(t, i)} # {}} # {}
      BY <2>1 DEF ToolLatency
    <3>2. PICK t \in Called : \E i \in Timed(t) : Slow(t, i)
      BY <3>1
    <3>3. QED BY <3>2, SlowNeedsCalls
  <2>2. QED BY <1>4, <2>1 DEF Says, Verdict
<1>5. CASE d = "per_tool_cost_spike"
  <2>1. ASSUME NEW t, Called = {t}, Len(calls) >= 3
        PROVE  PerToolCostSpike # "silent" <=> costed
    <3> DEFINE drives(u) == Cardinality(CallsOf(u)) >= 3
                            /\ Cardinality(CallsOf(u)) > 2 * (Len(calls) - Cardinality(CallsOf(u)))
               driving == {u \in Called : drives(u)}
    <3>1. Cardinality(CallsOf(t)) = Len(calls) /\ Len(calls) \in Nat
      BY <2>1, OneTool, CallsAreFinite
    <3>2. drives(t)
      BY <2>1, <3>1
    <3>3. driving # {}
      BY <2>1, <3>2
    <3>4. ~costed => PerToolCostSpike = "silent"
      BY DEF PerToolCostSpike
    <3>5. costed => PerToolCostSpike \in {"critical", "warning"}
      BY <3>3 DEF PerToolCostSpike
    <3>6. QED BY <3>4, <3>5
  <2>2. QED BY <1>5, <2>1 DEF Says, Verdict
<1>6. CASE d = "wasted_tool_calls"
  <2>1. ASSUME Cardinality(Called) = 1 PROVE WastedToolCalls = "silent"
    <3>1. PICK t : Called = {t}
      BY <2>1, CallsAreFinite, FS_Singleton
    <3>2. ASSUME NEW r \in Results PROVE ~IsWasted(r)
      <4> DEFINE W == {calls[i].tool : i \in Returning(r)}
      <4>1. W = {} \/ W = {t}
        BY <3>1 DEF Called, Returning
      <4>2. Cardinality(W) = 0 \/ Cardinality(W) = 1
        BY <4>1, FS_EmptySet, FS_Singleton
      <4>3. ~(Cardinality(W) >= 2)
        BY <4>2
      <4>4. QED BY <4>3 DEF IsWasted
    <3>3. {r \in Results : IsWasted(r)} = {}
      BY <3>2
    <3>4. QED BY <3>3 DEF WastedToolCalls
  <2>2. QED BY <1>6, <2>1 DEF Says, Verdict
<1>7. CASE d \in {"tool_timeout", "recovery_path"}
  BY <1>7 DEF Says
<1>8. QED BY <1>1, <1>2, <1>3, <1>4, <1>5, <1>6, <1>7 DEF Detectors

-----------------------------------------------------------------------------
(* Moving from one detector to the next.                                   *)

\* The maximum decides which streaks there are.
LEMMA LongestDecides ==
  ASSUME BoundInv, NEW d, LongestInv(d), at = Len(calls) + 1, NEW n \in Nat, n >= 2
  PROVE  HasStreak(d, calls, n) <=> longest >= n
<1>1. DOMAIN calls = 1 .. at - 1
  BY DEF BoundInv
<1>2. ASSUME HasStreak(d, calls, n) PROVE longest >= n
  <2>1. PICK i, j \in 1 .. at - 1 : i < j /\ j - i + 1 >= n /\ Streak(d, calls, i, j)
    BY <1>1, <1>2 DEF HasStreak
  <2>2. j - i + 1 <= longest
    BY <2>1 DEF LongestInv
  <2> QED
    BY <2>1, <2>2 DEF BoundInv
<1>3. ASSUME longest >= n PROVE HasStreak(d, calls, n)
  <2>1. PICK i, j \in 1 .. at - 1 :
          i < j /\ j - i + 1 = longest /\ Streak(d, calls, i, j)
    BY <1>3 DEF LongestInv, BoundInv
  <2> QED
    BY <2>1, <1>1, <1>3 DEF HasStreak, BoundInv
<1> QED
  BY <1>2, <1>3

\* At the end of the loop the detector reports what it has to.
LEMMA ConcludeReports ==
  ASSUME IInv, NEW d \in Detectors, Conclude(d)
  PROVE  report' = [report EXCEPT ![d] = Expected(d)]
<1>1. BoundInv /\ LongestInv(d) /\ at = Len(calls) + 1
  BY DEF IInv, BoundInv, ScanInv, Conclude
<1>2. Threshold[d] \in Nat /\ Threshold[d] >= 2
  BY TraceAssumption DEF Conclude
<1>3. /\ HasStreak(d, calls, Threshold[d]) <=> longest >= Threshold[d]
      /\ HasStreak(d, calls, 2 * Threshold[d]) <=> longest >= 2 * Threshold[d]
  BY <1>1, <1>2, LongestDecides
<1>4. (IF longest >= Threshold[d] THEN Severity(longest, Threshold[d])
                                   ELSE "silent") = Expected(d)
  <2>1. longest \in Nat
    BY <1>1 DEF BoundInv
  <2>2. longest >= 2 * Threshold[d] => longest >= Threshold[d]
    BY <2>1, <1>2
  <2> QED
    BY <1>3, <2>2 DEF Expected, Severity
<1> QED
  BY <1>4 DEF Conclude

\* A loop starts from counters of zero or one and no key.
LEMMA StartFresh ==
  ASSUME NEW k, StartScan(k)
  PROVE  at' = 1 /\ current' \in {0, 1} /\ longest' \in {0, 1} /\ last' = Blank
BY DEF StartScan, StartCount

\* The verdicts of the other detectors are verdicts.
LEMMA SeverityType == \A v, t : Severity(v, t) \in Verdicts
BY DEF Severity, Verdicts

LEMMA VerdictType == \A d \in Detectors \ Streaks : Verdict(d) \in Verdicts
<1> SUFFICES ASSUME NEW d \in Detectors \ Streaks PROVE Verdict(d) \in Verdicts
  OBVIOUS
<1>1. PatternLoop \in Verdicts /\ ToolErrorRate \in Verdicts
  BY SeverityType DEF PatternLoop, ToolErrorRate, Verdicts
<1>2. SpecificToolError \in Verdicts /\ ToolLatency \in Verdicts
  BY SeverityType DEF SpecificToolError, ToolLatency, Verdicts
<1>3. ToolTimeout \in Verdicts /\ PerToolCostSpike \in Verdicts
  BY SeverityType DEF ToolTimeout, PerToolCostSpike, Verdicts
<1>4. WastedToolCalls \in Verdicts /\ RecoveryPath \in Verdicts
  BY SeverityType DEF WastedToolCalls, RecoveryPath, Verdicts
<1> QED
  BY <1>1, <1>2, <1>3, <1>4 DEF Verdict, Detectors

\* The detector in turn hands over: the reports made so far stay.
LEMMA HandOver ==
  ASSUME IInv, turn \in DOMAIN Order, turn' = turn + 1, StartScan(turn + 1),
         UNCHANGED <<calls, costed>>,
         NEW v \in Verdicts, report' = [report EXCEPT ![Order[turn]] = v],
         Order[turn] \in Streaks => v = Expected(Order[turn]),
         Order[turn] \notin Streaks => Says(Order[turn], v)
  PROVE  IInv'
<1> USE DEF IInv
<1>1. Order \in Seq(Detectors)
  BY OrderAssumption
<1>2. BoundInv'
  BY <1>1, StartFresh DEF BoundInv
<1>3. ScanInv'
  <2>1. \A d : SuffixInv(d)' /\ LastInv(d)' /\ LongestInv(d)'
    BY StartFresh DEF SuffixInv, LastInv, LongestInv
  <2> QED
    BY <2>1 DEF ScanInv
<1>4. ReportInv'
  <2> SUFFICES ASSUME NEW k \in 1 .. turn, Order[k] \in Streaks
               PROVE  report'[Order[k]] = Expected(Order[k])'
    BY DEF ReportInv, BoundInv
  <2>1. Expected(Order[k])' = Expected(Order[k])
    BY DEF Expected
  <2>2. CASE k = turn
    BY <2>1, <2>2, <1>1 DEF BoundInv
  <2>3. CASE k < turn
    <3>1. Order[k] # Order[turn]
      BY <2>3, OrderAssumption DEF BoundInv
    <3> QED
      BY <2>1, <2>3, <3>1 DEF BoundInv, ReportInv
  <2> QED
    BY <2>2, <2>3 DEF BoundInv
<1>5. SaysInv'
  <2> SUFFICES ASSUME NEW k \in 1 .. turn, NEW w \in Verdicts,
                      Order[k] \notin Streaks, report'[Order[k]] = w
               PROVE  Says(Order[k], w)'
    BY DEF SaysInv, BoundInv
  <2>1. CASE k = turn
    <3>1. w = v
      BY <2>1, <1>1 DEF BoundInv
    <3>2. Says(Order[k], w)
      BY <2>1, <3>1
    <3> QED
      BY <3>2, SaysStays
  <2>2. CASE k < turn
    <3>1. Order[k] # Order[turn]
      BY <2>2, OrderAssumption DEF BoundInv
    <3>2. k \in 1 .. turn - 1 /\ report[Order[k]] = w
      BY <2>2, <3>1 DEF BoundInv
    <3>3. Says(Order[k], w)
      BY <3>2 DEF SaysInv
    <3> QED
      BY <3>3, SaysStays
  <2> QED
    BY <2>1, <2>2 DEF BoundInv
<1> QED
  BY <1>2, <1>3, <1>4, <1>5

-----------------------------------------------------------------------------
(* The inductive invariant.                                                *)

LEMMA InitIInv == Init => IInv
<1> SUFFICES ASSUME Init PROVE IInv
  OBVIOUS
<1>1. at = 1 /\ current \in {0, 1} /\ longest \in {0, 1} /\ last = Blank
  BY DEF Init, StartCount
<1>2. calls \in Seq(Calls)
  BY TraceAssumption DEF Init
<1>3. BoundInv
  BY <1>1, <1>2, OrderAssumption DEF Init, BoundInv, Verdicts
<1>4. ScanInv
  BY <1>1, FreshScan DEF ScanInv
<1>5. ReportInv /\ SaysInv
  BY DEF Init, ReportInv, SaysInv
<1> QED
  BY <1>3, <1>4, <1>5 DEF IInv

LEMMA NextIInv == IInv /\ [Next]_vars => IInv'
<1> SUFFICES ASSUME IInv, [Next]_vars PROVE IInv'
  OBVIOUS
<1>1. ASSUME NEW d \in Detectors, Scanning(d), BoundInv',
             SuffixInv(d)' /\ LastInv(d)' /\ LongestInv(d)'
      PROVE  IInv'
  <2>1. ScanInv'
    BY <1>1 DEF ScanInv, Scanning
  <2>2. ReportInv'
    BY <1>1 DEF IInv, ReportInv, Scanning, Expected
  <2>3. SaysInv'
    BY <1>1, SaysStays DEF IInv, SaysInv, Scanning
  <2> QED
    BY <2>1, <2>2, <2>3, <1>1 DEF IInv
<1>2. ASSUME NEW d \in Detectors, BreakStreak(d) PROVE IInv'
  <2>1. BoundInv'
    BY <1>2 DEF IInv, BoundInv, BreakStreak, Scanning, StartCount
  <2> QED
    BY <1>1, <1>2, <2>1, BreakKeeps DEF BreakStreak
<1>3. ASSUME NEW d \in Detectors, ExtendStreak(d) PROVE IInv'
  <2>1. current <= at - 1
    BY <1>3 DEF IInv, ScanInv, LastInv, ExtendStreak, Scanning, Continues
  <2>2. BoundInv'
    BY <1>3, <2>1 DEF IInv, BoundInv, ExtendStreak, Scanning
  <2> QED
    BY <1>1, <1>3, <2>2, ExtendKeeps DEF ExtendStreak
<1>4. ASSUME NEW d \in Detectors, RestartStreak(d) PROVE IInv'
  <2>1. BoundInv'
    BY <1>4 DEF IInv, BoundInv, RestartStreak, Scanning
  <2> QED
    BY <1>1, <1>4, <2>1, RestartKeeps DEF RestartStreak
<1>5. ASSUME NEW d \in Detectors, Conclude(d) PROVE IInv'
  <2>1. Expected(d) \in Verdicts
    BY DEF Expected, Verdicts
  <2> QED
    BY <1>5, <2>1, ConcludeReports, HandOver DEF Conclude
<1>6. ASSUME NEW d \in Detectors, Judge(d) PROVE IInv'
  <2>1. Verdict(d) \in Verdicts /\ Says(d, Verdict(d))
    BY <1>6, VerdictType, VerdictSays DEF Judge, IInv, BoundInv
  <2> QED
    BY <1>6, <2>1, HandOver DEF Judge
<1>7. ASSUME UNCHANGED vars PROVE IInv'
  <2>1. BoundInv' /\ ScanInv' /\ ReportInv'
    BY <1>7 DEF vars, IInv, BoundInv, ScanInv, ReportInv, SuffixInv, LastInv,
                LongestInv, Expected
  <2>2. SaysInv'
    BY <1>7, SaysStays DEF vars, IInv, SaysInv
  <2> QED
    BY <2>1, <2>2 DEF IInv
<1> QED
  BY <1>2, <1>3, <1>4, <1>5, <1>6, <1>7 DEF Next

\* Every reachable state satisfies the inductive invariant.
LEMMA Invariance == Spec => []IInv
BY InitIInv, NextIInv, PTL DEF Spec

-----------------------------------------------------------------------------
(* What follows for every trace.                                           *)

\* The variables have their types; the counters are bounded by the calls seen.
THEOREM TypeCorrect == Spec => []TypeOK
<1>1. IInv => TypeOK
  BY DEF IInv, BoundInv, TypeOK
<1> QED
  BY <1>1, Invariance, PTL

\* When every detector has had its turn, every streak detector has reported.
LEMMA DoneExpected ==
  ASSUME IInv, Done
  PROVE  \A d \in Streaks : report[d] = Expected(d)
<1> SUFFICES ASSUME NEW d \in Streaks PROVE report[d] = Expected(d)
  OBVIOUS
<1>1. PICK k \in DOMAIN Order : Order[k] = d
  BY OrderAssumption DEF Detectors
<1>2. k \in 1 .. turn - 1
  BY OrderAssumption DEF Done, IInv, BoundInv
<1> QED
  BY <1>1, <1>2 DEF IInv, ReportInv

\* The loop, argument loop and redundant call detectors report exactly the
\* streaks of a trace, of any length, with the right severity.
THEOREM StreaksCorrect == Spec => []StreaksAreExact
<1>1. IInv => StreaksAreExact
  BY DoneExpected DEF StreaksAreExact, Expected
<1> QED
  BY <1>1, Invariance, PTL

\* A streak of redundant calls is a streak of repeated arguments, unless it is
\* one of a polled tool.
LEMMA RedundantStreak ==
  ASSUME calls \in Seq(Calls), Called \cap Polling = {}, NEW i \in DOMAIN calls,
         NEW j \in DOMAIN calls, Streak("redundant_tool_call", calls, i, j)
  PROVE  Streak("argument_loop", calls, i, j)
<1> SUFFICES ASSUME NEW k \in i .. j
             PROVE  /\ ~Skipped("argument_loop", calls[k])
                    /\ StreakKey("argument_loop", calls[k]) = StreakKey("argument_loop", calls[i])
                    /\ StreakKey("argument_loop", calls[k]) # Blank
  BY DEF Streak
<1>1. k \in DOMAIN calls
  OBVIOUS
<1>2. calls[k].tool \notin Polling
  BY <1>1 DEF Called
<1>3. ~Skipped("redundant_tool_call", calls[k])
      /\ StreakKey("redundant_tool_call", calls[k]) = StreakKey("redundant_tool_call", calls[i])
  BY DEF Streak
<1>4. ~Skipped("argument_loop", calls[k])
  BY <1>2, <1>3 DEF Skipped
<1>5. calls[k].tool = calls[i].tool /\ calls[k].args = calls[i].args
  BY <1>3 DEF StreakKey
<1> QED
  BY <1>1, <1>4, <1>5, KeyNotBlank DEF StreakKey, Streaks

\* A run with redundant calls has an argument loop, for any trace and any
\* thresholds in that order.
THEOREM RedundantCorrect == Spec => []RedundantIsArgumentLoop
<1>1. ASSUME IInv PROVE RedundantIsArgumentLoop
  <2> SUFFICES ASSUME Done,
                      Threshold["argument_loop"] <= Threshold["redundant_tool_call"],
                      Fired("redundant_tool_call"),
                      Called \cap Polling = {}
               PROVE  Fired("argument_loop")
    BY DEF RedundantIsArgumentLoop
  <2>1. /\ report["redundant_tool_call"] = Expected("redundant_tool_call")
        /\ report["argument_loop"] = Expected("argument_loop")
    BY <1>1, DoneExpected DEF Streaks
  <2>2. Threshold["redundant_tool_call"] \in Nat /\ Threshold["argument_loop"] \in Nat
    BY TraceAssumption DEF Streaks
  <2>3. PICK i, j \in DOMAIN calls :
          /\ i < j
          /\ j - i + 1 >= Threshold["redundant_tool_call"]
          /\ Streak("redundant_tool_call", calls, i, j)
    BY <1>1, <2>1, <2>2 DEF Fired, Expected, HasStreak, IInv, BoundInv
  <2>4. Streak("argument_loop", calls, i, j)
    BY <1>1, <2>3, RedundantStreak DEF IInv, BoundInv
  <2>5. HasStreak("argument_loop", calls, Threshold["argument_loop"])
    BY <1>1, <2>2, <2>3, <2>4 DEF HasStreak, IInv, BoundInv
  <2> QED
    BY <2>1, <2>5 DEF Fired, Expected
<1> QED
  BY <1>1, Invariance, PTL

\* When every detector has had its turn, every verdict says what it should.
LEMMA DoneSays ==
  ASSUME IInv, Done
  PROVE  \A d \in Detectors \ Streaks : Says(d, report[d])
<1> SUFFICES ASSUME NEW d \in Detectors \ Streaks PROVE Says(d, report[d])
  OBVIOUS
<1>1. PICK k \in DOMAIN Order : Order[k] = d
  BY OrderAssumption
<1>2. k \in 1 .. turn - 1
  BY OrderAssumption DEF Done, IInv, BoundInv
<1>3. report[d] \in Verdicts
  BY DEF IInv, BoundInv
<1> QED
  BY <1>1, <1>2, <1>3 DEF IInv, SaysInv

\* For any trace and any thresholds, a critical loop of one tool is a pattern, a
\* high error rate has a culprit, a slow call has enough calls beside it, and in
\* a run with a single tool the verdicts collapse.
THEOREM VerdictsCorrect == Spec => []VerdictsAgree
<1>1. ASSUME IInv, Done PROVE VerdictsAgree
  <2>0. calls \in Seq(Calls) /\ Len(calls) \in Nat
    BY <1>1 DEF IInv, BoundInv
  <2>1. LongLoopIsPattern
    <3> SUFFICES ASSUME Window <= Threshold["loop"], report["loop"] = "critical"
                 PROVE  Fired("pattern_loop")
      BY DEF LongLoopIsPattern
    <3>1. HasStreak("loop", calls, 2 * Threshold["loop"])
      BY <1>1, DoneExpected DEF Streaks, Expected
    <3>2. Threshold["loop"] \in Nat /\ Window \in Nat
      BY TraceAssumption, ThresholdAssumption DEF Streaks
    <3>3. HasStreak("loop", calls, 2 * Window)
      BY <2>0, <3>1, <3>2 DEF HasStreak
    <3>4. Says("pattern_loop", report["pattern_loop"])
      BY <1>1, DoneSays DEF Detectors, Streaks
    <3> QED
      BY <3>3, <3>4 DEF Says, Fired
  <2>2. ErrorsHaveACulprit
    <3> SUFFICES ASSUME SpecificPct <= ErrorPct,
                        \A t \in Called : Cardinality(CallsOf(t)) >= 2,
                        Fired("tool_error_rate"), ~Fired("specific_tool_error")
                 PROVE  FALSE
      BY DEF ErrorsHaveACulprit
    <3>1. Says("tool_error_rate", report["tool_error_rate"])
          /\ Says("specific_tool_error", report["specific_tool_error"])
      BY <1>1, DoneSays DEF Detectors, Streaks
    <3>2. calls # << >> /\ RateVerdict(DOMAIN calls, ErrorPct) # "silent"
      BY <3>1 DEF Says, Fired
    <3>3. \A t \in Called : ~ErrorSpike(t)
      BY <3>1 DEF Says, Fired
    <3>4. SpecificPct \in Nat /\ ErrorPct \in Nat
      BY ThresholdAssumption
    <3>5. ASSUME NEW t \in Called
          PROVE  100 * Cardinality(Failures(CallsOf(t))) < ErrorPct * Cardinality(CallsOf(t))
      <4> DEFINE n == Cardinality(CallsOf(t))
                 e == 100 * Cardinality(Failures(CallsOf(t)))
      <4>1. n \in Nat /\ e \in Nat
        BY <2>0, CallsAreFinite DEF CallsOf, Failures
      <4>2. ~(e >= SpecificPct * n)
        BY <3>3 DEF ErrorSpike
      <4>3. SpecificPct * n <= ErrorPct * n
        BY <3>4, <4>1, Products
      <4>4. SpecificPct * n \in Nat /\ ErrorPct * n \in Nat
        BY <3>4, <4>1
      <4> HIDE DEF n, e
      <4>5. e < ErrorPct * n
        BY <4>1, <4>2, <4>3, <4>4
      <4> QED
        BY <4>5 DEF n, e
    <3>6. 100 * Cardinality(Failures(DOMAIN calls)) < ErrorPct * Len(calls)
      BY <2>0, <3>2, <3>4, <3>5, RatesAddUp
    <3> QED
      BY <2>0, <3>2, <3>6, CallsAreFinite DEF RateVerdict
  <2>3. LatencyNeedsCalls
    <3>1. Says("tool_latency", report["tool_latency"])
      BY <1>1, DoneSays DEF Detectors, Streaks
    <3> QED
      BY <3>1 DEF Says, Fired, LatencyNeedsCalls
  <2>4. OneToolVerdicts
    <3> SUFFICES ASSUME Cardinality(Called) = 1, Len(calls) >= 2
                 PROVE  /\ SpecificPct = ErrorPct
                             => report["specific_tool_error"] = report["tool_error_rate"]
                        /\ Len(calls) >= 3 => (Fired("per_tool_cost_spike") <=> costed)
                        /\ ~Fired("wasted_tool_calls")
      BY DEF OneToolVerdicts
    <3>1. PICK t : Called = {t}
      BY <2>0, CallsAreFinite, FS_Singleton
    <3>2. \A d \in {"specific_tool_error", "tool_error_rate", "per_tool_cost_spike",
                    "wasted_tool_calls"} : Says(d, report[d])
      BY <1>1, DoneSays DEF Detectors, Streaks
    <3>3. CallsOf(t) = DOMAIN calls /\ calls # << >> /\ Cardinality(DOMAIN calls) = Len(calls)
      BY <2>0, <3>1, OneTool, CallsAreFinite
    <3>4. ASSUME SpecificPct = ErrorPct
          PROVE  report["specific_tool_error"] = report["tool_error_rate"]
      <4>1. report["tool_error_rate"] = RateVerdict(DOMAIN calls, ErrorPct)
        BY <3>2, <3>3 DEF Says
      <4>2. CASE ErrorSpike(t)
        <5>1. report["specific_tool_error"] = RateVerdict(CallsOf(t), SpecificPct)
          BY <3>1, <3>2, <4>2 DEF Says
        <5> QED
          BY <3>3, <3>4, <4>1, <5>1
      <4>3. CASE ~ErrorSpike(t)
        <5>1. report["specific_tool_error"] = "silent"
          BY <3>1, <3>2, <4>3 DEF Says
        <5>2. ~(100 * Cardinality(Failures(DOMAIN calls)) >= ErrorPct * Cardinality(DOMAIN calls))
          BY <3>3, <3>4, <4>3 DEF ErrorSpike
        <5>3. Cardinality(Failures(DOMAIN calls)) \in Nat /\ ErrorPct \in Nat
          BY <2>0, CallsAreFinite, ThresholdAssumption DEF Failures
        <5>4. 100 * Cardinality(Failures(DOMAIN calls)) < ErrorPct * Cardinality(DOMAIN calls)
          <6>1. ErrorPct * Cardinality(DOMAIN calls) \in Nat
            BY <2>0, <3>3, <5>3
          <6> QED
            BY <5>2, <5>3, <6>1
        <5> QED
          BY <4>1, <5>1, <5>4 DEF RateVerdict
      <4> QED
        BY <4>2, <4>3
    <3>5. ASSUME Len(calls) >= 3 PROVE Fired("per_tool_cost_spike") <=> costed
      BY <3>1, <3>2, <3>5 DEF Says, Fired
    <3>6. ~Fired("wasted_tool_calls")
      BY <3>2 DEF Says, Fired
    <3> QED
      BY <3>4, <3>5, <3>6
  <2> QED
    BY <2>1, <2>2, <2>3, <2>4 DEF VerdictsAgree
<1>2. ASSUME IInv, ~Done PROVE VerdictsAgree
  BY <1>2 DEF VerdictsAgree, LongLoopIsPattern, ErrorsHaveACulprit, LatencyNeedsCalls,
              OneToolVerdicts
<1> QED
  BY <1>1, <1>2, Invariance, PTL
=============================================================================

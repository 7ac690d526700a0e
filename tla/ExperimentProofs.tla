--------------------------- MODULE ExperimentProofs --------------------------
(***************************************************************************)
(* Theorems about the baseline experiments for every history length, ping  *)
(* interval, choice of presets, threshold and step of the clock.           *)
(***************************************************************************)
EXTENDS MCExperiment, RouteScoreProofs

-----------------------------------------------------------------------------
(* The policies.                                                           *)

Ungated(name, sig, d, p) == decide_baseline(name, sig, d, p, FALSE)

\* The policies are monotone behind the privacy gate, which comes before every policy.
LEMMA UngatedMonotone ==
  ASSUME NEW name \in BASELINES, NEW s \in Signal, NEW t \in Signal, WorseReading(s, t),
         NEW d \in Nat, NEW p \in Nat, NEW d2 \in Nat, NEW p2 \in Nat,
         d2 <= d, p2 <= p,
         Ungated(name, s, d, p) = ROUTE_CLOUD
  PROVE  Ungated(name, t, d2, p2) = ROUTE_CLOUD
<1>1. CASE name = "always_edge"
  BY <1>1 DEF Ungated, decide_baseline, ROUTE_LOCAL, ROUTE_CLOUD
<1>2. CASE name = "always_cloud"
  BY <1>2 DEF Ungated, decide_baseline
<1>3. CASE name = "network_threshold"
  <2>1. ~(d > ThresholdMs)
    BY <1>3 DEF Ungated, decide_baseline, ROUTE_LOCAL, ROUTE_CLOUD
  <2>2. ~(d2 > ThresholdMs)
    BY <2>1, MsAssumption
  <2> QED
    BY <1>3, <2>2 DEF Ungated, decide_baseline
<1>4. CASE name = "routeedge"
  <2>1. router_decide(s, d, p, FALSE).decision = ROUTE_CLOUD
    BY <1>4 DEF Ungated, decide_baseline
  <2>2. LocalCost(s) >= CloudCost(d, p)
    BY <2>1, CostsAreIntegers DEF router_decide, ROUTE_LOCAL, ROUTE_CLOUD
  <2>3. LocalCost(t) >= CloudCost(d2, p2)
    BY <2>2, WorseReadingCostsMore, FasterNetworkCostsLess, CostsAreIntegers
  <2>4. router_decide(t, d2, p2, FALSE).decision = ROUTE_CLOUD
    BY <2>3, CostsAreIntegers DEF router_decide, ROUTE_LOCAL, ROUTE_CLOUD
  <2> QED
    BY <1>4, <2>4 DEF Ungated, decide_baseline
<1> QED
  BY <1>1, <1>2, <1>3, <1>4 DEF BASELINES

\* The four policies of run_baselines.py agree on what a bad frame and a bad network
\* are: none of them takes a frame back from the cloud when it reads no better and the
\* network is no slower, for every threshold and all measurements.
THEOREM BaselinesAreMonotone ==
  ASSUME NEW name \in BASELINES, NEW private \in BOOLEAN,
         NEW s \in Signal, NEW t \in Signal, WorseReading(s, t),
         NEW d \in Nat, NEW p \in Nat, NEW d2 \in Nat, NEW p2 \in Nat,
         d2 <= d, p2 <= p,
         decide_baseline(name, s, d, p, private) = ROUTE_CLOUD
  PROVE  decide_baseline(name, t, d2, p2, private) = ROUTE_CLOUD
<1>1. CASE private = TRUE
  <2>1. decide_baseline(name, s, d, p, TRUE) = ROUTE_LOCAL
    BY Zenon DEF decide_baseline
  <2>2. ROUTE_LOCAL # ROUTE_CLOUD
    BY DEF ROUTE_LOCAL, ROUTE_CLOUD
  <2> QED
    BY <1>1, <2>1, <2>2, Zenon
<1>2. CASE private = FALSE
  <2>1. Ungated(name, s, d, p) = ROUTE_CLOUD
    BY <1>2, Zenon DEF Ungated
  <2>2. Ungated(name, t, d2, p2) = ROUTE_CLOUD
    BY <2>1, UngatedMonotone
  <2> QED
    BY <1>2, <2>2, Zenon DEF Ungated
<1> QED
  BY <1>1, <1>2, Zenon

-----------------------------------------------------------------------------
(* The probe under a clock that is set back.                               *)

\* The jitter of no preset exceeds its delay: every round trip is a delay.
LEMMA RoundTripsAreDelays ==
  ASSUME netem \in Presets \cup {Unshaped}
  PROVE  RoundTrips \subseteq Nat
<1>1. CASE netem = Unshaped
  BY <1>1, MsAssumption DEF RoundTrips
<1>2. CASE netem # Unshaped
  <2>1. netem \in {"good", "medium", "bad"}
    BY <1>2, PresetsAssumption DEF PRESETS
  <2>2. /\ PRESETS["good"] = [delay_ms |-> 5, jitter_ms |-> 1]
        /\ PRESETS["medium"] = [delay_ms |-> 50, jitter_ms |-> 10]
        /\ PRESETS["bad"] = [delay_ms |-> 200, jitter_ms |-> 50]
    BY DEF PRESETS
  <2> QED
    BY <1>2, <2>1, <2>2 DEF RoundTrips
<1> QED
  BY <1>1, <1>2

\* A deque keeps its type and its maxlen.
LEMMA PushBoundedTyped ==
  ASSUME NEW deque \in Seq(Nat), Len(deque) <= HistoryLen, NEW x \in Nat
  PROVE  PushBounded(deque, x) \in Seq(Nat) /\ Len(PushBounded(deque, x)) <= HistoryLen
<1>1. CASE Len(deque) < HistoryLen
  BY <1>1, HistoryLenAssumption DEF PushBounded
<1>2. CASE ~(Len(deque) < HistoryLen)
  <2>1. Len(deque) = HistoryLen /\ deque # <<>>
    BY <1>2, HistoryLenAssumption
  <2>2. Tail(deque) \in Seq(Nat) /\ Len(Tail(deque)) = HistoryLen - 1
    BY <2>1
  <2>3. Append(Tail(deque), x) \in Seq(Nat) /\ Len(Append(Tail(deque), x)) = HistoryLen
    BY <2>2, HistoryLenAssumption
  <2> QED
    BY <1>2, <2>3, HistoryLenAssumption DEF PushBounded
<1> QED
  BY <1>1, <1>2

\* Later moves an instant away, up to the interval.
LEMMA LaterTyped ==
  ASSUME NEW seconds \in Int, seconds <= PingInterval, NEW elapsed \in Nat
  PROVE  /\ Later(seconds, elapsed) \in Int /\ Later(seconds, elapsed) <= PingInterval
         /\ Later(seconds, elapsed) >= seconds
BY PingIntervalAssumption DEF Later

\* A ping, answered with a delay or not, keeps the types.
LEMMA PingTyped ==
  ASSUME ExperimentTypeOK, NEW pong \in Nat \cup {NoPong}, NEW took \in Nat,
         Ping(pong, took), UNCHANGED netem
  PROVE  ExperimentTypeOK'
<1>1. Later(0, took) \in Int /\ Later(0, took) <= PingInterval /\ Later(0, took) >= 0
  BY LaterTyped, PingIntervalAssumption
<1>2. sincePing' >= -MaxStepBack
  BY <1>1, MeasuredAssumption DEF Ping
<1>3. CASE pong = NoPong
  BY <1>1, <1>2, <1>3 DEF Ping, ExperimentTypeOK, ProbeTypeOK
<1>4. CASE pong \in Nat /\ pong # NoPong
  <2>1. pings' \in Seq(Nat) /\ Len(pings') <= HistoryLen
    BY <1>4, PushBoundedTyped DEF Ping, ExperimentTypeOK, ProbeTypeOK
  <2> QED
    BY <1>1, <1>2, <1>4, <2>1 DEF Ping, ExperimentTypeOK, ProbeTypeOK
<1> QED
  BY <1>3, <1>4

\* A new NetworkProbe holds no measurement and its estimates are the defaults.
LEMMA ExperimentInitially == ExperimentInit => ExperimentTypeOK
BY DefaultsMsAssumption, PingIntervalAssumption, HistoryLenAssumption, MeasuredAssumption
DEF ExperimentInit, ProbeInit, ExperimentTypeOK, ProbeTypeOK

\* Pings, recorded times, shaping and the clock keep the types of the probe's state.
LEMMA ExperimentStep == ExperimentTypeOK /\ [Next]_experimentVars => ExperimentTypeOK'
<1> SUFFICES ASSUME ExperimentTypeOK, [Next]_experimentVars
             PROVE  ExperimentTypeOK'
  OBVIOUS
<1>1. CASE PingAnswered
  <2>1. PICK pong \in RoundTrips : Ping(pong, 0) /\ UNCHANGED netem
    BY <1>1 DEF PingAnswered
  <2>2. pong \in Nat
    BY <2>1, RoundTripsAreDelays DEF ExperimentTypeOK
  <2> QED
    BY <2>1, <2>2, PingTyped
<1>2. CASE PingLost
  <2>1. PICK took \in 0..2 : Ping(NoPong, took) /\ UNCHANGED netem
    BY <1>2 DEF PingLost
  <2>2. took \in Nat /\ NoPong \in Nat \cup {NoPong}
    BY <2>1
  <2> QED
    BY <2>1, <2>2, PingTyped
<1>3. CASE Record
  <2>1. PICK latency \in CloudTimes : RecordCloudLatency(latency) /\ UNCHANGED netem
    BY <1>3 DEF Record
  <2>2. latency \in Nat
    BY <2>1, MeasuredAssumption
  <2>3. cloudLatencies' \in Seq(Nat) /\ Len(cloudLatencies') <= HistoryLen
    BY <2>1, <2>2, PushBoundedTyped DEF RecordCloudLatency, ExperimentTypeOK, ProbeTypeOK
  <2> QED
    BY <2>1, <2>3 DEF RecordCloudLatency, ExperimentTypeOK, ProbeTypeOK
<1>4. CASE TimePasses
  <2>1. /\ Later(sincePing, 1) \in Int /\ Later(sincePing, 1) <= PingInterval
        /\ Later(sincePing, 1) >= sincePing
    BY LaterTyped DEF ExperimentTypeOK, ProbeTypeOK
  <2>2. Later(sincePing, 1) >= -MaxStepBack
    BY <2>1, MeasuredAssumption DEF ExperimentTypeOK, ProbeTypeOK
  <2> QED
    BY <1>4, <2>1, <2>2 DEF TimePasses, Elapse, ExperimentTypeOK, ProbeTypeOK
<1>5. CASE ClockJumps
  <2>1. PICK seconds \in 1..(PingInterval + MaxStepBack) : ClockSetBack(seconds)
    BY <1>5 DEF ClockJumps
  <2>2. sincePing' \in Int /\ sincePing' <= PingInterval
    BY <2>1, PingIntervalAssumption, MeasuredAssumption
    DEF ClockSetBack, ExperimentTypeOK, ProbeTypeOK
  <2> QED
    BY <1>5, <2>1, <2>2 DEF ClockJumps, ClockSetBack, ExperimentTypeOK, ProbeTypeOK
<1>6. CASE Shape
  BY <1>6 DEF Shape, apply_condition, clear_conditions, probeVars,
              ExperimentTypeOK, ProbeTypeOK
<1>7. CASE NoPing \/ UNCHANGED experimentVars
  BY <1>7 DEF NoPing, SkipPing, experimentVars, probeVars, ExperimentTypeOK, ProbeTypeOK
<1> QED
  BY <1>1, <1>2, <1>3, <1>4, <1>5, <1>6, <1>7 DEF Next

\* Whatever is measured, lost, shaped and set back, neither history outgrows its maxlen
\* and every estimate kept is a delay: for every maxlen, interval and step of the clock.
THEOREM ExperimentTypes == Spec => []ExperimentTypeOK
<1>1. Spec => ExperimentInit /\ [][Next]_experimentVars
  BY DEF Spec
<1> QED
  BY <1>1, ExperimentInitially, ExperimentStep, PTL

-----------------------------------------------------------------------------
(* The mean of a deque.  FoldSeq adds the entries in an order of its own:   *)
(* the sum over a set of positions is that over the set without one of them *)
(* and the entry at that one.                                               *)

Picked(s) == CHOOSE i \in s : TRUE

Plus(deque, sums, s) ==
  IF s = {} THEN 0 ELSE deque[Picked(s)] + sums[s \ {Picked(s)}]

\* The sums over all sets of positions of which S is the largest.
AreSums(deque, sums, S) == sums = [s \in SUBSET S |-> Plus(deque, sums, s)]

SumsOver(deque, S) == CHOOSE sums : AreSums(deque, sums, S)

\* A family of subsets of a finite set has a smallest member: what the proofs by
\* induction below use.
LEMMA SmallestMember ==
  ASSUME NEW S, IsFiniteSet(S), NEW family \in SUBSET SUBSET S, family # {}
  PROVE  \E s \in family : \A t \in SUBSET s : t # s => t \notin family
<1>1. IsWellFoundedOn(StrictSubsetOrdering(S), SUBSET S)
  BY FS_StrictSubsetOrderingWellFounded, FS_FiniteSubsetsOfFinite
<1>2. PICK s \in family : \A t \in family : ~ (<<t, s>> \in StrictSubsetOrdering(S))
  BY <1>1, WFMin
<1>3. ASSUME NEW t \in SUBSET s, t # s, t \in family
      PROVE  FALSE
  <2>1. <<t, s>> \in StrictSubsetOrdering(S)
    BY <1>3 DEF StrictSubsetOrdering
  <2> QED
    BY <1>2, <1>3, <2>1
<1> QED
  BY <1>2, <1>3

\* Picking takes a position out of a set.
LEMMA PickedInside ==
  ASSUME NEW s, s # {}
  PROVE  Picked(s) \in s /\ s \ {Picked(s)} \in SUBSET s /\ s \ {Picked(s)} # s
BY DEF Picked

\* The sum over a set does not depend on the largest set considered.
LEMMA SumsAgree ==
  ASSUME NEW deque, NEW S, IsFiniteSet(S), NEW T, NEW f, NEW g,
         AreSums(deque, f, S), AreSums(deque, g, T), NEW s \in SUBSET (S \cap T)
  PROVE  f[s] = g[s]
<1> DEFINE differ == {t \in SUBSET (S \cap T) : f[t] # g[t]}
<1> SUFFICES ASSUME differ # {} PROVE FALSE
  OBVIOUS
<1>1. PICK t \in differ : \A u \in SUBSET t : u # t => u \notin differ
  <2>1. differ \in SUBSET SUBSET S
    OBVIOUS
  <2> HIDE DEF differ
  <2> QED
    BY <2>1, SmallestMember
<1>2. f[t] = Plus(deque, f, t) /\ g[t] = Plus(deque, g, t)
  BY DEF AreSums
<1>3. t # {}
  BY <1>2 DEF Plus
<1>4. f[t \ {Picked(t)}] = g[t \ {Picked(t)}]
  BY <1>1, <1>3, PickedInside
<1> QED
  BY <1>2, <1>3, <1>4 DEF Plus

\* There are such sums for every finite set of positions.
LEMMA SumsExist ==
  ASSUME NEW deque, NEW S, IsFiniteSet(S)
  PROVE  AreSums(deque, SumsOver(deque, S), S)
<1> DEFINE without == {T \in SUBSET S : ~ AreSums(deque, SumsOver(deque, T), T)}
<1> SUFFICES ASSUME without # {} PROVE FALSE
  OBVIOUS
<1>1. PICK T \in without : \A U \in SUBSET T : U # T => U \notin without
  <2>1. without \in SUBSET SUBSET S
    OBVIOUS
  <2> HIDE DEF without
  <2> QED
    BY <2>1, SmallestMember
<1>2. ASSUME NEW U \in SUBSET T, U # T
      PROVE  AreSums(deque, SumsOver(deque, U), U) /\ IsFiniteSet(U)
  BY <1>1, <1>2, FS_Subset
<1> DEFINE Rest(s) == s \ {Picked(s)}
           sums == [s \in SUBSET T |-> Plus(deque, SumsOver(deque, Rest(s)), s)]
<1>3. ASSUME NEW s \in SUBSET T
      PROVE  sums[s] = Plus(deque, sums, s)
  <2>1. CASE s = {}
    BY <2>1 DEF Plus
  <2>2. CASE s # {}
    <3> DEFINE u == Rest(s)
    <3>1. u \in SUBSET T /\ u # T /\ u \in SUBSET u
      BY <2>2, PickedInside
    <3>2. SumsOver(deque, u)[u] = Plus(deque, SumsOver(deque, u), u)
      BY <1>2, <3>1 DEF AreSums
    <3>3. Plus(deque, SumsOver(deque, u), u) = Plus(deque, SumsOver(deque, Rest(u)), u)
      <4>1. CASE u = {}
        BY <4>1 DEF Plus
      <4>2. CASE u # {}
        <5>1. Rest(u) \in SUBSET u /\ Rest(u) \in SUBSET T /\ Rest(u) # T
          BY <3>1, <4>2, PickedInside
        <5>2. SumsOver(deque, u)[Rest(u)] = SumsOver(deque, Rest(u))[Rest(u)]
          <6> HIDE DEF Rest, u
          <6> QED
            BY <1>2, <3>1, <5>1, SumsAgree
        <5> QED
          BY <4>2, <5>2 DEF Plus
      <4> QED
        BY <4>1, <4>2
    <3>4. sums[u] = Plus(deque, SumsOver(deque, Rest(u)), u)
      BY <3>1
    <3>5. sums[u] = SumsOver(deque, u)[u]
      BY <3>2, <3>3, <3>4
    <3> QED
      BY <2>2, <3>5 DEF Plus
  <2> QED
    BY <2>1, <2>2
<1>4. AreSums(deque, sums, T)
  <2>1. sums = [s \in SUBSET T |-> sums[s]]
    OBVIOUS
  <2> HIDE DEF sums
  <2> QED
    BY <1>3, <2>1 DEF AreSums
<1> QED
  BY <1>1, <1>4 DEF SumsOver

\* What Mean divides by the length is the sum over all positions.
LEMMA MeanIsSum ==
  ASSUME NEW deque
  PROVE  Mean(deque) = SumsOver(deque, DOMAIN deque)[DOMAIN deque] \div Len(deque)
BY DEF Mean, FoldSeq, FoldFunction, FoldFunctionOnSet, MapThenFoldSet,
       SumsOver, AreSums, Plus, Picked

\* The mean of measurements is a measurement: no negative and no missing estimate.
LEMMA MeanTyped ==
  ASSUME NEW deque \in Seq(Nat), deque # <<>>
  PROVE  Mean(deque) \in Nat
<1> DEFINE D == DOMAIN deque
           sums == SumsOver(deque, D)
           wrong == {s \in SUBSET D : sums[s] \notin Nat}
<1>1. D = 1..Len(deque) /\ Len(deque) \in Nat \ {0}
  OBVIOUS
<1>2. IsFiniteSet(D) /\ AreSums(deque, sums, D)
  BY <1>1, FS_Interval, SumsExist
<1>3. wrong = {}
  <2> SUFFICES ASSUME wrong # {} PROVE FALSE
    OBVIOUS
  <2>1. PICK s \in wrong : \A t \in SUBSET s : t # s => t \notin wrong
    <3>1. wrong \in SUBSET SUBSET D
      OBVIOUS
    <3> HIDE DEF wrong, D
    <3> QED
      BY <1>2, <3>1, SmallestMember
  <2>2. sums[s] = Plus(deque, sums, s)
    BY <1>2 DEF AreSums
  <2>3. s # {}
    BY <2>2 DEF Plus
  <2>4. deque[Picked(s)] \in Nat /\ sums[s \ {Picked(s)}] \in Nat
    BY <2>1, <2>3, PickedInside
  <2> QED
    BY <2>2, <2>3, <2>4 DEF Plus
<1>4. sums[D] \in Nat
  BY <1>3
<1> HIDE DEF sums
<1>5. sums[D] \div Len(deque) \in Nat
  BY <1>1, <1>4
<1> QED
  BY <1>5, MeanIsSum DEF sums

\* A quotient lies between two bounds if what is divided lies between their multiples.
LEMMA QuotientBetween ==
  ASSUME NEW n \in Nat, n > 0, NEW x \in Nat, NEW a \in Nat
  PROVE  /\ x * n <= a => x <= a \div n
         /\ a <= x * n => a \div n <= x
<1> DEFINE q == a \div n
<1>1. q \in Int /\ n * q <= a /\ a < n * q + n
  OBVIOUS
<1> HIDE DEF q
<1>2. ASSUME x * n <= a, q <= x - 1 PROVE FALSE
  <2>1. n * q <= n * (x - 1)
    BY <1>1, <1>2
  <2>2. n * (x - 1) = x * n - n
    OBVIOUS
  <2>3. n * q \in Int /\ x * n \in Int
    BY <1>1
  <2> QED
    BY <1>1, <1>2, <2>1, <2>2, <2>3
<1>3. ASSUME a <= x * n, q >= x + 1 PROVE FALSE
  <2>1. n * (x + 1) <= n * q
    BY <1>1, <1>3
  <2>2. n * (x + 1) = x * n + n
    OBVIOUS
  <2>3. n * q \in Int /\ x * n \in Int
    BY <1>1
  <2> QED
    BY <1>1, <1>3, <2>1, <2>2, <2>3
<1> QED
  BY <1>1, <1>2, <1>3 DEF q

\* One multiple more.
LEMMA OneMoreTime ==
  ASSUME NEW a \in Nat, NEW c \in Nat
  PROVE  a * c \in Nat /\ a * (c + 1) = a + a * c
OBVIOUS

\* What bounds every measurement of a deque from below, and from above.
NoneBelow(deque, low) == \A i \in 1..Len(deque) : low <= deque[i]
NoneAbove(deque, high) == \A i \in 1..Len(deque) : deque[i] <= high

\* The sum of a set of measurements lies between the multiples of what bounds each of them.
LEMMA SumBetween ==
  ASSUME NEW deque \in Seq(Nat), NEW low \in Nat, NEW high \in Nat
  PROVE  LET total == SumsOver(deque, DOMAIN deque)[DOMAIN deque]
         IN  /\ total \in Nat
             /\ NoneBelow(deque, low) => low * Len(deque) <= total
             /\ NoneAbove(deque, high) => total <= high * Len(deque)
<1> DEFINE D == DOMAIN deque
           sums == SumsOver(deque, D)
           Between(s) == /\ sums[s] \in Nat
                         /\ NoneBelow(deque, low) => low * Cardinality(s) <= sums[s]
                         /\ NoneAbove(deque, high) => sums[s] <= high * Cardinality(s)
           wrong == {s \in SUBSET D : ~Between(s)}
<1>1. D = 1..Len(deque) /\ Len(deque) \in Nat
  OBVIOUS
<1>2. IsFiniteSet(D) /\ AreSums(deque, sums, D) /\ Cardinality(D) = Len(deque)
  <2>1. /\ IsFiniteSet(1..Len(deque))
        /\ Cardinality(1..Len(deque)) = IF 1 > Len(deque) THEN 0 ELSE Len(deque) - 1 + 1
    BY <1>1, FS_Interval
  <2>2. IsFiniteSet(D) /\ Cardinality(D) = Len(deque)
    BY <1>1, <2>1
  <2> QED
    BY <2>2, SumsExist
<1>3. wrong = {}
  <2> SUFFICES ASSUME wrong # {} PROVE FALSE
    OBVIOUS
  <2>1. PICK s \in wrong : \A t \in SUBSET s : t # s => t \notin wrong
    <3>1. wrong \in SUBSET SUBSET D
      OBVIOUS
    <3> HIDE DEF wrong, D
    <3> QED
      BY <1>2, <3>1, SmallestMember
  <2>2. sums[s] = Plus(deque, sums, s)
    BY <1>2 DEF AreSums
  <2>3. s # {}
    <3> SUFFICES ASSUME s = {} PROVE FALSE
      OBVIOUS
    <3>1. sums[s] = 0 /\ Cardinality(s) = 0
      BY <2>2, FS_EmptySet DEF Plus
    <3> QED
      BY <2>1, <3>1
  <2> DEFINE rest == s \ {Picked(s)}
             x == deque[Picked(s)]
  <2>4. /\ x \in Nat /\ Between(rest)
        /\ NoneBelow(deque, low) => low <= x
        /\ NoneAbove(deque, high) => x <= high
    BY <1>1, <2>1, <2>3, PickedInside DEF NoneBelow, NoneAbove
  <2>5. Cardinality(rest) \in Nat /\ Cardinality(s) = Cardinality(rest) + 1
    <3>1. IsFiniteSet(s) /\ Picked(s) \in s
      BY <1>2, <2>3, FS_Subset, PickedInside
    <3>2. /\ IsFiniteSet(rest) /\ Cardinality(rest) = Cardinality(s) - 1
          /\ Cardinality(s) \in Nat /\ Cardinality(rest) \in Nat
      BY <3>1, FS_RemoveElement, FS_CardinalityType
    <3> QED
      BY <3>2
  <2>6. sums[s] = x + sums[rest]
    BY <2>2, <2>3 DEF Plus
  <2>7. /\ low * Cardinality(s) = low + low * Cardinality(rest)
        /\ high * Cardinality(s) = high + high * Cardinality(rest)
        /\ low * Cardinality(rest) \in Nat /\ high * Cardinality(rest) \in Nat
    BY <2>5, OneMoreTime
  <2>8. Between(s)
    <3> HIDE DEF rest, x, sums
    <3> QED
      BY <2>4, <2>6, <2>7
  <2> QED
    BY <2>1, <2>8
<1>4. Between(D)
  BY <1>3
<1> QED
  BY <1>2, <1>4

\* The mean of measurements lies between two numbers between which all of them lie.
LEMMA MeanBetween ==
  ASSUME NEW deque \in Seq(Nat), deque # <<>>, NEW low \in Nat, NEW high \in Nat
  PROVE  /\ NoneBelow(deque, low) => low <= Mean(deque)
         /\ NoneAbove(deque, high) => Mean(deque) <= high
<1> DEFINE total == SumsOver(deque, DOMAIN deque)[DOMAIN deque]
<1>1. /\ total \in Nat
      /\ NoneBelow(deque, low) => low * Len(deque) <= total
      /\ NoneAbove(deque, high) => total <= high * Len(deque)
  BY SumBetween
<1>2. Len(deque) \in Nat /\ Len(deque) > 0
  OBVIOUS
<1>3. Mean(deque) = total \div Len(deque)
  BY MeanIsSum
<1> HIDE DEF total
<1>4. /\ low * Len(deque) <= total => low <= total \div Len(deque)
      /\ total <= high * Len(deque) => total \div Len(deque) <= high
  BY <1>1, <1>2, QuotientBetween
<1> QED
  BY <1>1, <1>3, <1>4

\* The mean of equal measurements is that measurement.
LEMMA MeanOfEquals ==
  ASSUME NEW deque \in Seq(Nat), deque # <<>>, NEW x \in Nat,
         \A i \in 1..Len(deque) : deque[i] = x
  PROVE  Mean(deque) = x
<1>1. NoneBelow(deque, x) /\ NoneAbove(deque, x)
  BY DEF NoneBelow, NoneAbove
<1>2. Mean(deque) \in Nat
  BY MeanTyped
<1>3. x <= Mean(deque) /\ Mean(deque) <= x
  BY <1>1, MeanBetween
<1> QED
  BY <1>2, <1>3

-----------------------------------------------------------------------------
(* The estimates.                                                          *)

\* A full deque drops its oldest entry: the others move one place towards it.
LEMMA PushBoundedEntries ==
  ASSUME NEW deque \in Seq(Nat), Len(deque) <= HistoryLen, NEW x \in Nat
  PROVE  /\ Len(PushBounded(deque, x))
               = IF Len(deque) < HistoryLen THEN Len(deque) + 1 ELSE HistoryLen
         /\ PushBounded(deque, x)[Len(PushBounded(deque, x))] = x
         /\ \A i \in 1..(Len(PushBounded(deque, x)) - 1) :
              PushBounded(deque, x)[Len(PushBounded(deque, x)) - i]
                = deque[Len(deque) + 1 - i]
<1> DEFINE pushed == PushBounded(deque, x)
<1> SUFFICES /\ Len(pushed) = IF Len(deque) < HistoryLen THEN Len(deque) + 1 ELSE HistoryLen
             /\ pushed[Len(pushed)] = x
             /\ \A i \in 1..(Len(pushed) - 1) :
                  pushed[Len(pushed) - i] = deque[Len(deque) + 1 - i]
  OBVIOUS
<1>0. Len(deque) \in Nat /\ HistoryLen \in Nat
  BY HistoryLenAssumption
<1>1. CASE Len(deque) < HistoryLen
  <2> DEFINE longer == Append(deque, x)
  <2>1. /\ Len(longer) = Len(deque) + 1 /\ longer[Len(deque) + 1] = x
        /\ \A i \in 1..Len(deque) : longer[i] = deque[i]
    OBVIOUS
  <2>2. pushed = longer
    BY <1>1 DEF PushBounded
  <2> HIDE DEF longer, pushed
  <2>3. \A i \in 1..Len(deque) : longer[Len(deque) + 1 - i] = deque[Len(deque) + 1 - i]
    <3> SUFFICES ASSUME NEW i \in 1..Len(deque)
                 PROVE  longer[Len(deque) + 1 - i] = deque[Len(deque) + 1 - i]
      OBVIOUS
    <3>1. Len(deque) + 1 - i \in 1..Len(deque)
      OBVIOUS
    <3> QED
      BY <2>1, <3>1
  <2> QED
    <3>1. Len(pushed) = Len(deque) + 1 /\ pushed[Len(pushed)] = x
      BY <2>1, <2>2
    <3>2. \A i \in 1..(Len(pushed) - 1) : pushed[Len(pushed) - i] = deque[Len(deque) + 1 - i]
      BY <1>0, <2>2, <2>3, <3>1
    <3> QED
      BY <1>1, <3>1, <3>2
<1>2. CASE Len(deque) = HistoryLen
  <2> DEFINE rest == Tail(deque)
             moved == Append(rest, x)
  <2>1. /\ rest \in Seq(Nat) /\ Len(rest) = Len(deque) - 1
        /\ \A i \in 1..Len(rest) : rest[i] = deque[i + 1]
    BY <1>2, HistoryLenAssumption
  <2> HIDE DEF rest
  <2>2. /\ Len(moved) = Len(deque) /\ moved[Len(deque)] = x
        /\ \A i \in 1..Len(rest) : moved[i] = rest[i]
    BY <2>1
  <2>3. pushed = moved
    BY <1>2, HistoryLenAssumption DEF PushBounded, rest
  <2> HIDE DEF moved, pushed
  <2>4. \A i \in 1..(Len(deque) - 1) : moved[i] = deque[i + 1]
    BY <2>1, <2>2
  <2>5. \A i \in 1..(Len(deque) - 1) : moved[Len(deque) - i] = deque[Len(deque) + 1 - i]
    <3> SUFFICES ASSUME NEW i \in 1..(Len(deque) - 1)
                 PROVE  moved[Len(deque) - i] = deque[Len(deque) + 1 - i]
      OBVIOUS
    <3>1. Len(deque) - i \in 1..(Len(deque) - 1) /\ Len(deque) - i + 1 = Len(deque) + 1 - i
      OBVIOUS
    <3> QED
      BY <2>4, <3>1
  <2> QED
    <3>1. Len(pushed) = HistoryLen /\ pushed[Len(pushed)] = x
      BY <1>2, <2>2, <2>3
    <3>2. \A i \in 1..(Len(pushed) - 1) : pushed[Len(pushed) - i] = deque[Len(deque) + 1 - i]
      BY <1>0, <1>2, <2>3, <2>5, <3>1
    <3> QED
      BY <1>0, <1>2, <3>1, <3>2
<1> QED
  BY <1>0, <1>1, <1>2

\* What a call of current_delay_ms returned last is the estimate of the pings kept; the
\* run of equal answers is at the end of them, as far as they reach.
EstimateStands ==
  /\ estimate = CurrentDelay(pings, lastDelay)
  /\ pings = <<>> => lastDelay = DefaultDelayMs

StreakAtTheEnd ==
  /\ streak \in [value : Nat, length : 0..HistoryLen]
  /\ streak.length <= Len(pings)
  /\ streak.length = 0 <=> pings = <<>>
  /\ \A i \in 0..(streak.length - 1) : pings[Len(pings) - i] = streak.value

\* The round trips of the last answers are the pings kept, the other way round.
RecentAreKept ==
  /\ Len(recent) = Len(pings) /\ DOMAIN recent = 1..Len(pings)
  /\ recent = <<>> <=> pings = <<>>
  /\ \A i \in 1..Len(pings) : recent[i] = pings[Len(pings) + 1 - i]

ProbedInv == ExperimentTypeOK /\ EstimateStands /\ StreakAtTheEnd /\ RecentAreKept

\* An answered ping that is returned at once joins the run of equal answers or starts one.
LEMMA AnsweredProbed ==
  ASSUME ProbedInv, MCPingAnswered
  PROVE  ProbedInv'
<1>1. ExperimentTypeOK'
  BY ExperimentStep DEF ProbedInv, MCPingAnswered, Next
<1>2. PICK pong \in RoundTrips : Ping(pong, 0)
  BY DEF MCPingAnswered, PingAnswered
<1>3. pong \in Nat /\ pong # NoPong
  BY <1>2, RoundTripsAreDelays, NoPongAssumption DEF ProbedInv, ExperimentTypeOK
<1>4. pings' = PushBounded(pings, pong) /\ lastDelay' = pong
  BY <1>2, <1>3 DEF Ping
<1>5. pings \in Seq(Nat) /\ Len(pings) <= HistoryLen /\ pings' \in Seq(Nat)
  BY <1>1 DEF ProbedInv, ExperimentTypeOK, ProbeTypeOK
<1>6. /\ Len(pings') = IF Len(pings) < HistoryLen THEN Len(pings) + 1 ELSE HistoryLen
      /\ pings'[Len(pings')] = pong
      /\ \A i \in 1..(Len(pings') - 1) : pings'[Len(pings') - i] = pings[Len(pings) + 1 - i]
  BY <1>3, <1>4, <1>5, PushBoundedEntries
<1>7. Len(pings') \in 1..HistoryLen /\ pings' # <<>>
  BY <1>5, <1>6, HistoryLenAssumption
<1>8. EstimateStands'
  BY <1>7 DEF MCPingAnswered, Called, EstimateStands
<1>9. StreakAtTheEnd'
  <2>1. streak' = [value  |-> pong,
                   length |-> IF pong = streak.value THEN Longer(streak.length) ELSE 1]
    BY <1>4 DEF MCPingAnswered
  <2>2. /\ streak.value \in Nat /\ streak.length \in 0..HistoryLen
        /\ streak.length <= Len(pings)
        /\ \A i \in 0..(streak.length - 1) : pings[Len(pings) - i] = streak.value
    BY DEF ProbedInv, StreakAtTheEnd
  <2>3. streak'.length \in 1..HistoryLen /\ streak'.length <= Len(pings')
    BY <1>5, <1>6, <2>1, <2>2, HistoryLenAssumption, SMTT(30) DEF Longer
  <2>4. ASSUME NEW i \in 0..(streak'.length - 1)
        PROVE  pings'[Len(pings') - i] = pong
    <3>1. CASE i = 0
      BY <1>5, <1>6, <3>1
    <3>2. CASE i # 0
      <4>1. pong = streak.value /\ i - 1 \in 0..(streak.length - 1)
        BY <2>1, <2>2, <2>4, <3>2 DEF Longer
      <4>2. i \in 1..(Len(pings') - 1)
        BY <1>7, <2>3, <2>4, <3>2
      <4>3. pings'[Len(pings') - i] = pings[Len(pings) + 1 - i]
        BY <1>6, <4>2
      <4>4. Len(pings) + 1 - i = Len(pings) - (i - 1)
        BY <1>5, <2>4
      <4> QED
        BY <2>2, <4>1, <4>3, <4>4
    <3> QED
      BY <3>1, <3>2
  <2>5. streak' \in [value : Nat, length : 0..HistoryLen] /\ streak'.value = pong
    BY <1>3, <2>1, <2>3
  <2> QED
    BY <1>7, <2>3, <2>4, <2>5 DEF StreakAtTheEnd
<1>10. RecentAreKept'
  <2> DEFINE n == Longer(Len(recent))
  <2>1. /\ Len(recent) = Len(pings)
        /\ \A i \in 1..Len(pings) : recent[i] = pings[Len(pings) + 1 - i]
    BY DEF ProbedInv, RecentAreKept
  <2>2. n = Len(pings') /\ n \in Nat /\ n > 0
    BY <1>5, <1>6, <2>1, HistoryLenAssumption DEF Longer
  <2>3. recent' = [i \in 1..n |-> IF i = 1 THEN pong ELSE recent[i - 1]]
    BY <1>4 DEF MCPingAnswered
  <2> HIDE DEF n
  <2>4. Len(recent') = n /\ DOMAIN recent' = 1..n /\ recent' # <<>>
    BY <2>2, <2>3
  <2>5. ASSUME NEW i \in 1..n PROVE recent'[i] = pings'[n + 1 - i]
    <3>1. CASE i = 1
      <4>1. recent'[i] = pong /\ n + 1 - i = n
        BY <2>2, <2>3, <3>1
      <4> QED
        BY <1>6, <2>2, <4>1
    <3>2. CASE i # 1
      <4>1. /\ recent'[i] = recent[i - 1] /\ i - 1 \in 1..(n - 1)
            /\ n + 1 - i = n - (i - 1)
        BY <2>2, <2>3, <3>2
      <4>2. pings'[n - (i - 1)] = pings[Len(pings) + 1 - (i - 1)]
        BY <1>6, <2>2, <4>1
      <4>3. i - 1 \in 1..Len(pings)
        BY <1>5, <1>6, <2>2, <4>1, HistoryLenAssumption
      <4> QED
        BY <2>1, <4>1, <4>2, <4>3
    <3> QED
      BY <3>1, <3>2
  <2> QED
    BY <1>7, <2>2, <2>4, <2>5 DEF RecentAreKept
<1> QED
  BY <1>1, <1>8, <1>9, <1>10 DEF ProbedInv

\* Every step but an answered ping leaves the pings, the last of them and the run alone.
LEMMA OthersLeavePings ==
  ASSUME [MCNext]_mcVars, ~MCPingAnswered
  PROVE  UNCHANGED <<pings, lastDelay, streak, recent>>
<1>1. CASE PingLost
  BY <1>1 DEF PingLost, Ping, MCNext, mcVars, answers
<1>2. CASE NoPing
  BY <1>2 DEF NoPing, SkipPing, probeVars, MCNext, mcVars, answers
<1>3. CASE Record
  BY <1>3 DEF Record, RecordCloudLatency, MCNext, mcVars, answers
<1>4. CASE TimePasses
  BY <1>4 DEF TimePasses, Elapse, MCNext, mcVars, answers
<1>5. CASE ClockJumps
  BY <1>5 DEF ClockJumps, ClockSetBack, MCNext, mcVars, answers
<1>6. CASE Shape
  BY <1>6 DEF Shape, apply_condition, clear_conditions, probeVars, MCNext, mcVars, answers
<1>7. CASE UNCHANGED mcVars
  BY <1>7 DEF mcVars, answers, experimentVars, probeVars
<1> QED
  BY <1>1, <1>2, <1>3, <1>4, <1>5, <1>6, <1>7 DEF MCNext

\* Such a step leaves the estimate alone or computes it from the same pings.
LEMMA OthersProbed ==
  ASSUME ProbedInv, [MCNext]_mcVars, ~MCPingAnswered
  PROVE  ProbedInv'
<1>1. [Next]_experimentVars
  BY DEF MCNext, mcVars, Next
<1>2. ExperimentTypeOK'
  BY <1>1, ExperimentStep DEF ProbedInv
<1>3. UNCHANGED <<pings, lastDelay, streak, recent>>
  BY OthersLeavePings
<1>4. Called \/ UNCHANGED estimate
  BY DEF MCNext, mcVars
<1> QED
  BY <1>2, <1>3, <1>4 DEF ProbedInv, EstimateStands, StreakAtTheEnd, RecentAreKept, Called, CurrentDelay

\* The estimate and the run of equal answers belong to the pings kept, always.
LEMMA ProbedInvariant == MCSpec => []ProbedInv
<1>1. MCInit => ProbedInv
  <2> SUFFICES ASSUME MCInit PROVE ProbedInv
    OBVIOUS
  <2>1. ExperimentTypeOK
    BY ExperimentInitially DEF MCInit
  <2>2. pings = <<>> /\ lastDelay = DefaultDelayMs /\ estimate = DefaultDelayMs
    BY DEF MCInit, ExperimentInit, ProbeInit
  <2>3. StreakAtTheEnd
    BY <2>2, HistoryLenAssumption DEF MCInit, StreakAtTheEnd
  <2>4. RecentAreKept
    BY <2>2 DEF MCInit, RecentAreKept
  <2> QED
    BY <2>1, <2>2, <2>3, <2>4 DEF ProbedInv, EstimateStands, CurrentDelay
<1>2. ProbedInv /\ [MCNext]_mcVars => ProbedInv'
  BY AnsweredProbed, OthersProbed
<1> QED
  BY <1>1, <1>2, PTL DEF MCSpec

\* After HistoryLen equal answers in a row the estimate is that round trip: the deque
\* forgets what was measured before, and so does its mean (network_probe.py).
THEOREM EstimateForgets == MCSpec => []EstimateConverges
<1>1. ProbedInv => EstimateConverges
  <2> SUFFICES ASSUME ProbedInv, streak.length = HistoryLen
               PROVE  estimate = streak.value
    BY DEF EstimateConverges
  <2>1. /\ pings \in Seq(Nat) /\ pings # <<>> /\ streak.value \in Nat
        /\ Len(pings) = HistoryLen
    BY HistoryLenAssumption
    DEF ProbedInv, StreakAtTheEnd, ExperimentTypeOK, ProbeTypeOK
  <2>2. ASSUME NEW i \in 1..Len(pings)
        PROVE  pings[i] = streak.value
    <3>1. /\ Len(pings) - i \in 0..(streak.length - 1)
          /\ Len(pings) - (Len(pings) - i) = i
      BY <2>1
    <3>2. pings[Len(pings) - (Len(pings) - i)] = streak.value
      BY <3>1 DEF ProbedInv, StreakAtTheEnd
    <3> QED
      BY <3>1, <3>2
  <2>3. Mean(pings) = streak.value
    BY <2>1, <2>2, MeanOfEquals
  <2> QED
    BY <2>1, <2>3 DEF ProbedInv, EstimateStands, CurrentDelay
<1> QED
  BY <1>1, ProbedInvariant, PTL

\* The default delay is in use until a ping is first answered, and from then on the
\* estimate lies between two of the last HistoryLen round trips, for every default and
\* every history length: no lost ping brings the default back (network_probe.py).
THEOREM EstimateMeasured == MCSpec => []EstimateIsMeasured
<1>1. ProbedInv => EstimateIsMeasured
  <2> SUFFICES ASSUME ProbedInv, recent # <<>>
               PROVE  \E i, k \in DOMAIN recent : recent[i] <= estimate /\ estimate <= recent[k]
    BY DEF EstimateIsMeasured, ProbedInv, EstimateStands, RecentAreKept, CurrentDelay
  <2> DEFINE n == Len(pings)
  <2>1. /\ pings \in Seq(Nat) /\ pings # <<>> /\ n \in Nat /\ n > 0
        /\ \A i \in 1..n : pings[i] \in Nat
    BY DEF ProbedInv, RecentAreKept, ExperimentTypeOK, ProbeTypeOK
  <2>2. estimate = Mean(pings) /\ estimate \in Nat
    BY <2>1, MeanTyped DEF ProbedInv, EstimateStands, CurrentDelay
  <2>3. /\ DOMAIN recent = 1..n
        /\ \A i \in 1..n : recent[i] = pings[n + 1 - i]
    BY DEF ProbedInv, RecentAreKept
  <2>4. ASSUME NEW k \in 1..n
        PROVE  n + 1 - k \in DOMAIN recent /\ recent[n + 1 - k] = pings[k]
    <3>1. n + 1 - k \in 1..n /\ n + 1 - (n + 1 - k) = k
      BY <2>1
    <3> QED
      BY <2>3, <3>1
  <2> HIDE DEF n
  <2>5. \E i \in 1..n : pings[i] <= estimate
    <3> SUFFICES ASSUME \A i \in 1..n : ~(pings[i] <= estimate) PROVE FALSE
      OBVIOUS
    <3>1. NoneBelow(pings, estimate + 1)
      BY <2>1, <2>2 DEF NoneBelow, n
    <3>2. estimate + 1 \in Nat
      BY <2>2
    <3>3. estimate + 1 <= Mean(pings)
      BY <2>1, <3>1, <3>2, MeanBetween
    <3> QED
      BY <2>2, <3>3
  <2>6. \E k \in 1..n : estimate <= pings[k]
    <3> SUFFICES ASSUME \A k \in 1..n : ~(estimate <= pings[k]) PROVE FALSE
      OBVIOUS
    <3>1. NoneAbove(pings, estimate - 1)
      BY <2>1, <2>2 DEF NoneAbove, n
    <3>2. estimate - 1 \in Nat
      <4>1. 1 \in 1..n
        BY <2>1
      <4> QED
        BY <2>1, <2>2, <4>1
    <3>3. Mean(pings) <= estimate - 1
      BY <2>1, <3>1, <3>2, MeanBetween
    <3> QED
      BY <2>2, <3>3
  <2> QED
    BY <2>4, <2>5, <2>6
<1> QED
  BY <1>1, ProbedInvariant, PTL

\* What the policies decide on are naturals: means of measurements, or the defaults.
LEMMA EstimatesTyped ==
  ProbedInv => estimate \in Nat /\ PredictedCloudLatency \in Nat
BY MeanTyped, DefaultsMsAssumption
DEF ProbedInv, EstimateStands, CurrentDelay, PredictedCloudLatency, ExperimentTypeOK,
    ProbeTypeOK

\* The frames the policies are compared on are signals.
LEMMA SignalsTyped == Signals \subseteq Signal
BY UnitAssumption
DEF Signals, Clear, Borderline, Noisy, Nothing, SignalOf, Signal

\* No policy takes a frame back from the cloud while the estimates are no slower and the
\* frame reads no better, whatever was measured and lost between the two decisions.
THEOREM PoliciesMonotone == MCSpec => PoliciesAreMonotone
<1>1. ASSUME ProbedInv, ProbedInv',
             estimate' <= estimate, PredictedCloudLatency' <= PredictedCloudLatency,
             NEW name \in BASELINES, NEW pair \in Worsening,
             Decision(name, pair[1]) = ROUTE_CLOUD
      PROVE  Decision(name, pair[2])' = ROUTE_CLOUD
  <2> DEFINE predicted == PredictedCloudLatency
  <2>1. pair[1] \in Signal /\ pair[2] \in Signal /\ WorseReading(pair[1], pair[2])
    BY SignalsTyped DEF Worsening
  <2>2. estimate \in Nat /\ predicted \in Nat
    BY <1>1, EstimatesTyped
  <2>3. estimate' \in Nat /\ predicted' \in Nat
    <3>1. (ProbedInv => estimate \in Nat /\ PredictedCloudLatency \in Nat)'
      BY EstimatesTyped, PTL
    <3> QED
      BY <1>1, <3>1
  <2>4. Ungated(name, pair[1], estimate, predicted) = ROUTE_CLOUD
    BY <1>1, Zenon DEF Decision, Ungated
  <2>5. estimate' <= estimate /\ predicted' <= predicted
    BY <1>1
  <2>6. Decision(name, pair[2])' = Ungated(name, pair[2], estimate', predicted')
    BY Zenon DEF Decision, Ungated
  <2> HIDE DEF predicted
  <2>7. Ungated(name, pair[2], estimate', predicted') = ROUTE_CLOUD
    BY <2>1, <2>2, <2>3, <2>4, <2>5, UngatedMonotone
  <2> QED
    BY <2>6, <2>7
<1>2. ProbedInv /\ ProbedInv' =>
        (estimate' <= estimate /\ PredictedCloudLatency' <= PredictedCloudLatency =>
           \A name \in BASELINES : \A pair \in Worsening :
             Decision(name, pair[1]) = ROUTE_CLOUD => Decision(name, pair[2])' = ROUTE_CLOUD)
  BY <1>1
<1> QED
  BY <1>2, ProbedInvariant, PTL DEF PoliciesAreMonotone
=============================================================================

--------------------------- MODULE AlgorithmProofs ---------------------------
(***************************************************************************)
(* What the pure parts of the program compute, for every deployment and    *)
(* every case the assumptions of Algorithms admit.                         *)
(***************************************************************************)
EXTENDS Algorithms, FoldTheorems

-------------------------------------------------------------------------------
(* Requests: from the form to the engine.                                   *)

LEMMA RunSets ==
  ASSUME NEW s
  PROVE  /\ Run!Range(s) = ToSet(s)
         /\ Run!IsInjective(s) <=> IsInjective(s)
<1>1. Run!Range(s) = ToSet(s)
  BY DEF Run!Range, ToSet
<1>2. Run!IsInjective(s) <=> IsInjective(s)
  BY DEF Run!IsInjective, IsInjective
<1> QED BY <1>1, <1>2

LEMMA WeightSumIsSum ==
  ASSUME NEW T, NEW w, w \in [T -> Int]
  PROVE  Run!WeightSum(w, T) = SumFunction(w)
<1>1. DOMAIN w = T
  OBVIOUS
<1>2. Run!WeightSum(w, T) = Run!SumFunctionOnSet(w, DOMAIN w)
  BY <1>1 DEF Run!WeightSum
<1> QED BY <1>2 DEF Run!SumFunctionOnSet, Run!FoldFunctionOnSet, Run!MapThenFoldSet, SumFunction,
             SumFunctionOnSet, FoldFunctionOnSet, MapThenFoldSet

\* The configuration of a run, key by key.
LEMMA ConfigView ==
  ASSUME NEW r, NEW run, run = Run!Built(r), NEW o, o = Run!Overlay(r),
         NEW d, d = Registry[r.strategy].config, Run!Registered(Registry[r.strategy])
  PROVE  LET c == Run!Config(run)
         IN  /\ c.tickers = Run!Or(o.tickers, d.tickers)
             /\ c.weights = Run!Or(o.weights, d.weights)
             /\ c.bar = Run!Or(Run!Or(o.bar, Absent), Run!DailyBar)
             /\ c.poll = Run!Or(Run!Or(o.poll, d.poll), 60)
<1> DEFINE K == {"tickers", "weights", "bar", "poll", "lookback"}
           m == [k \in K |-> Run!Or(o[k], d[k])]
<1>1. DOMAIN d = K /\ d.bar = Absent
  BY DEF Run!Registered
<1>2. run.config = d /\ run.overlay = o
  BY DEF Run!Built
<1>3. Run!Merged(run) = m
  BY <1>1, <1>2 DEF Run!Merged
<1>4. Run!Config(run) = [m EXCEPT !.bar = Run!Or(@, Run!DailyBar), !.poll = Run!Or(@, 60),
                                  !.lookback = Run!Or(@, 30)]
  BY <1>3 DEF Run!Config
<1> QED BY <1>1, <1>4

\* What a request and its row have in common.
LEMMA TickersOfRun ==
  ASSUME NEW r \in Requests, Run!Accepted(r), NEW c, c = Run!Config(Run!Built(r)),
         NEW u, u = Run!Universe(r), NEW o, o = Run!Overlay(r)
  PROVE  /\ r.strategy \in DOMAIN Registry /\ Run!Registered(Registry[r.strategy])
         /\ u # Absent /\ u \in Seq(ToSet(u)) /\ IsInjective(u)
         /\ c.tickers \in Seq(ToSet(u)) /\ IsInjective(c.tickers)
         /\ ToSet(c.tickers) = ToSet(u) /\ Len(c.tickers) = Len(u)
         /\ o.tickers = Absent => c.tickers = Registry[r.strategy].universe
         /\ o.tickers # Absent => c.tickers = u
<1> DEFINE row == Registry[r.strategy]
<1>1. r.strategy \in DOMAIN Registry /\ Run!Registered(row)
  BY StrategiesAreRegistered DEF Run!Accepted, Run!StrategyAccepted
<1>2. /\ row.universe # Absent /\ row.universe \in Seq(ToSet(row.universe))
      /\ IsInjective(row.universe) /\ row.config.tickers = row.universe
  BY <1>1, RunSets DEF Run!Registered
<1>3. u # Absent /\ u \in Seq(ToSet(u)) /\ IsInjective(u)
  <2>1. CASE r.universe = Absent
    BY <1>2, <2>1 DEF Run!Universe
  <2>2. CASE r.universe # Absent
    <3>1. r.universe # Malformed /\ IsInjective(r.universe)
      BY <2>2, RunSets DEF Run!Accepted, Run!ControlsAccepted, Run!UniverseAccepted
    <3>2. r.universe \in Seq(ToSet(r.universe))
      BY <2>2, <3>1, RequestsAreParsed, RunSets DEF Run!Parsed
    <3> QED BY <2>2, <3>1, <3>2 DEF Run!Universe
  <2> QED BY <2>1, <2>2
<1>4. c.tickers = Run!Or(o.tickers, row.universe)
  BY <1>1, <1>2, ConfigView
<1>5. o.tickers = IF r.weights # Absent \/ ToSet(u) # ToSet(row.universe) THEN u ELSE Absent
  BY RunSets DEF Run!Overlay
<1>6. o.tickers = Absent => c.tickers = row.universe /\ ToSet(row.universe) = ToSet(u)
  BY <1>3, <1>4, <1>5 DEF Run!Or
<1>7. o.tickers # Absent => c.tickers = u
  BY <1>4, <1>5 DEF Run!Or
<1>8. /\ c.tickers \in Seq(ToSet(u)) /\ IsInjective(c.tickers)
      /\ ToSet(c.tickers) = ToSet(u)
  BY <1>2, <1>3, <1>6, <1>7
<1>9. Len(c.tickers) = Len(u)
  <2>1. Cardinality(ToSet(u)) = Len(u)
    BY <1>3, InjectiveLength
  <2>2. Cardinality(ToSet(c.tickers)) = Len(c.tickers)
    BY <1>8, InjectiveLength
  <2> QED BY <1>8, <2>1, <2>2
<1> QED BY <1>1, <1>3, <1>6, <1>7, <1>8, <1>9

\* The bar size of a run.
LEMMA BarOfRun ==
  ASSUME NEW r \in Requests, Run!Accepted(r), NEW c, c = Run!Config(Run!Built(r)),
         NEW o, o = Run!Overlay(r)
  PROVE  /\ o.bar = IF r.interval # Absent /\ Run!IsIntraday(r.interval)
                    THEN r.interval ELSE Absent
         /\ c.bar = IF o.bar = Absent THEN Run!DailyBar ELSE o.bar
         /\ r.interval # Absent => r.interval \in Run!BarSeconds
         /\ o.bar # Absent => o.bar \in Run!BarSeconds /\ Run!IsIntraday(o.bar)
         /\ \A b \in Run!BarSeconds : Run!IsIntraday(b) <=> b # Run!DailyBar
         /\ Run!DailyBar \in Run!BarSeconds
<1>1. Run!Registered(Registry[r.strategy])
  BY TickersOfRun
<1>2. o.bar = IF r.interval # Absent /\ Run!IsIntraday(r.interval) THEN r.interval ELSE Absent
  BY DEF Run!Overlay
<1>3. c.bar = Run!Or(Run!Or(o.bar, Absent), Run!DailyBar)
  BY <1>1, ConfigView
<1>4. c.bar = IF o.bar = Absent THEN Run!DailyBar ELSE o.bar
  BY <1>3 DEF Run!Or
<1>5. r.interval # Absent => r.interval \in Run!BarSeconds
  BY DEF Run!Accepted, Run!ControlsAccepted, Run!IntervalAccepted
<1>6. Run!BarSeconds = {60, 300, 900, 1800, 3600, 86400} /\ Run!DailyBar = 86400
  BY DEF Run!BarSeconds, Run!DailyBar
<1>7. \A b : Run!IsIntraday(b) <=> b \div 60 < 390
  BY DEF Run!IsIntraday, Run!I!SessionMinutes
<1>8. \A b \in Run!BarSeconds : Run!IsIntraday(b) <=> b # Run!DailyBar
  BY <1>6, <1>7
<1> QED BY <1>2, <1>4, <1>5, <1>6, <1>8

\* The engine refuses what the API accepts only for its size.
LEMMA RefusalOfRun ==
  ASSUME NEW r \in Requests, Run!Accepted(r), NEW run, run = Run!Built(r),
         NEW c, c = Run!Config(run)
  PROVE  \/ Run!Refusal(run) = "none"
         \/ /\ Run!Refusal(run) = "size"
            /\ Run!Bars(Len(c.tickers), r.start, r.end, c.bar) <= MaxBars
<1> DEFINE o == Run!Overlay(r)
<1>1. /\ run.mode = r.mode /\ run.overlay = o /\ run.class = Registry[r.strategy].class
      /\ run.slippage = IF r.slippageBps = Absent THEN 0 ELSE r.slippageBps
      /\ run.commission = IF r.commission = Absent THEN 0 ELSE r.commission
      /\ (r.gate = Absent \/ ~r.gate.enabled) => run.gate = Absent
  BY DEF Run!Built
<1>2. run.mode \in {"event", "fast"}
  BY <1>1, ModesAreKnown DEF Run!Accepted, Run!ModeAccepted
<1>3. ~(run.slippage < 0 \/ run.slippage >= 10000)
  <2>1. r.slippageBps # Absent =>
          r.slippageBps \in Int /\ 0 <= r.slippageBps /\ r.slippageBps <= 1000
    BY RequestsAreParsed
       DEF Run!Accepted, Run!ControlsAccepted, Run!CostsAccepted, Run!InRange, Run!Parsed
  <2>2. CASE r.slippageBps = Absent
    <3>1. run.slippage = 0
      BY <1>1, <2>2
    <3> QED BY <3>1
  <2>3. CASE r.slippageBps # Absent
    <3>1. run.slippage = r.slippageBps
      BY <1>1, <2>3
    <3> QED BY ONLY <2>1, <2>3, <3>1
  <2> QED BY <2>2, <2>3
<1>4. /\ ~(run.commission < 0)
      /\ run.mode = "fast" => run.commission = 0
  <2>1. r.commission # Absent => r.commission \in Int /\ 0 <= r.commission
    BY RequestsAreParsed
       DEF Run!Accepted, Run!ControlsAccepted, Run!CostsAccepted, Run!InRange, Run!Parsed
  <2>2. r.mode = "fast" => r.commission \in {Absent, 0}
    BY DEF Run!Accepted, Run!ControlsAccepted, Run!CostsAccepted
  <2> QED BY <1>1, <2>1, <2>2
<1>5. run.mode = "fast" => run.gate = Absent
  BY <1>1 DEF Run!Accepted, Run!ControlsAccepted, Run!GateAccepted
<1>6. ~Run!IntervalRefused(run) /\ c.bar \in Run!BarSeconds
  <2>1. r.interval # Absent /\ Run!IsIntraday(r.interval) => r.mode # "fast"
    BY DEF Run!Accepted, Run!ControlsAccepted, Run!IntervalAccepted
  <2> HIDE DEF o
  <2> QED BY <1>1, <2>1, BarOfRun DEF Run!IntervalRefused, o
<1>7. ~Run!FastRefused(run)
  <2>1. r.strategy \in DOMAIN Registry
    BY TickersOfRun
  <2> QED BY <1>1, <2>1, ModesAreKnown DEF Run!FastRefused, Run!Accepted, Run!ModeAccepted
<1>8. Run!Refusal(run) = IF Run!SizeRefused(run) THEN "size" ELSE "none"
  <2>1. ~(run.mode \notin {"event", "fast"}) 
    BY <1>2
  <2>2. ~(run.commission < 0 \/ (run.mode = "fast" /\ run.commission # 0))
    BY <1>4
  <2>3. ~(run.mode = "fast" /\ run.gate # Absent)
    BY <1>5
  <2>4. ~(Run!IntervalRefused(run) \/ Run!Config(run).bar \notin Run!BarSeconds)
    BY <1>6
  <2> QED BY ONLY <1>3, <1>7, <2>1, <2>2, <2>3, <2>4 DEF Run!Refusal
<1>9. Run!SizeRefused(run) => Run!Bars(Len(c.tickers), r.start, r.end, c.bar) <= MaxBars
  <2>1. SUFFICES ASSUME Run!IsIntraday(c.bar)
                 PROVE  Run!Bars(Len(c.tickers), r.start, r.end, c.bar) <= MaxBars
    BY DEF Run!SizeRefused
  <2>2. c.bar = o.bar /\ o.bar # Absent
    <3> HIDE DEF o
    <3> QED BY <2>1, BarOfRun DEF o
  <2>3. Len(c.tickers) = Len(Run!Universe(r))
    BY TickersOfRun
  <2> HIDE DEF o
  <2> QED BY <2>2, <2>3 DEF Run!Accepted, Run!SizeAccepted, o
<1> QED BY <1>8, <1>9

\* What the strategies, the forms and the overlay weigh.
LEMMA EqualWeightsView ==
  ASSUME NEW S, NEW u, u \in Seq(S), IsInjective(u), NEW w, w = Run!EqualWeights(u)
  PROVE  /\ IsFiniteSet(ToSet(u)) /\ w \in [ToSet(u) -> Nat]
         /\ Run!WeightSum(w, ToSet(u)) <= Unit
         /\ Len(u) <= Unit => \A t \in ToSet(u) : w[t] > 0
<1> DEFINE T == ToSet(u)
           n == Len(u)
           k == Unit \div n
<1>1. IsFiniteSet(T) /\ Cardinality(T) = n /\ n \in Nat
  BY InjectiveLength, SeqView
<1>2. w = [t \in T |-> k]
  BY RunSets DEF Run!EqualWeights
<1>3. CASE n = 0
  <2>1. T = {}
    <3> HIDE DEF T, n
    <3> QED BY <1>1, <1>3, FS_EmptySet
  <2>2. w \in [T -> Nat] /\ w \in [T -> Int] /\ w \in [T -> {0}]
    <3> HIDE DEF T, n, k
    <3> QED BY <1>2, <2>1
  <2>3. Run!WeightSum(w, T) = 0
    <3> HIDE DEF T, n, k
    <3> QED BY <1>1, <2>2, WeightSumIsSum, SumOfZeros
  <2>4. 0 <= Unit
    BY LimitsArePositive
  <2> HIDE DEF T, n, k
  <2> QED BY <1>1, <2>1, <2>2, <2>3, <2>4 DEF T
<1>4. CASE n # 0
  <2>1. n > 0 /\ Unit \in Nat /\ Unit > 0
    BY <1>1, <1>4, LimitsArePositive
  <2>2. k \in Nat /\ k * n <= Unit /\ (n <= Unit => k > 0)
    <3> HIDE DEF n
    <3>1. k \in Int /\ Unit = n * k + (Unit % n) /\ 0 <= Unit % n /\ Unit % n < n
      BY <1>1, <2>1
    <3>2. k >= 0
      BY <1>1, <2>1
    <3>3. n * k = k * n /\ k * n \in Int
      BY <1>1, <3>1
    <3>4. k * n <= Unit
      <4> DEFINE a == n * k
                 b == Unit % n
      <4>1. a \in Int /\ b \in Int /\ Unit = a + b /\ 0 <= b /\ a = k * n
        BY <1>1, <2>1, <3>1, <3>3
      <4> HIDE DEF a, b, k
      <4> QED BY <2>1, <4>1
    <3>5. n <= Unit => k > 0
      BY <1>1, <2>1
    <3> QED BY <3>1, <3>2, <3>4, <3>5
  <2> HIDE DEF k, n, T
  <2>3. w \in [T -> Nat] /\ w \in [T -> Int] /\ w \in [T -> {k}]
    BY <1>2, <2>2
  <2>4. Run!WeightSum(w, T) = SumFunction(w)
    BY <1>1, <2>3, WeightSumIsSum
  <2>5. SumFunction(w) = k * n
    <3>1. k \in Int
      BY <2>2
    <3>2. SumFunction(w) = k * Cardinality(T)
      BY ONLY <1>1, <2>3, <3>1, SumOfConstant
    <3> QED BY <1>1, <3>2
  <2> QED BY <1>1, <1>2, <2>2, <2>3, <2>4, <2>5 DEF T, n
<1> QED BY <1>3, <1>4

\* Weights of some of the tickers, and 0 for the others.
LEMMA ExtendedSum ==
  ASSUME NEW T, IsFiniteSet(T), NEW A, A \in SUBSET T, NEW v, v \in [A -> Int],
         NEW w, w = [t \in T |-> IF t \in A THEN v[t] ELSE 0]
  PROVE  w \in [T -> Int] /\ Run!WeightSum(w, T) = Run!WeightSum(v, A)
<1>1. w \in [T -> Int] /\ IsFiniteSet(A) /\ IsFiniteSet(T \ A)
  BY FS_Subset
<1>2. [x \in A |-> w[x]] = v /\ [x \in T \ A |-> w[x]] \in [T \ A -> {0}]
  OBVIOUS
<1>3. SumFunction(w) = SumFunction([x \in A |-> w[x]]) + SumFunction([x \in T \ A |-> w[x]])
  BY ONLY <1>1, A \in SUBSET T, IsFiniteSet(T), SumOfParts
<1>4. SumFunction([x \in T \ A |-> w[x]]) = 0
  BY <1>1, <1>2, SumOfZeros
<1>5. Run!WeightSum(w, T) = SumFunction(w) /\ Run!WeightSum(v, A) = SumFunction(v)
  BY <1>1, WeightSumIsSum
<1>6. SumFunction(v) \in Int
  BY <1>1, SumIsInt
<1>7. SumFunction(w) = SumFunction(v) + 0
  BY <1>2, <1>3, <1>4
<1> QED BY <1>1, <1>5, <1>6, <1>7

\* The weights a run is measured by.
LEMMA WeightsOfRun ==
  ASSUME NEW r \in Requests, Run!Accepted(r), NEW run, run = Run!Built(r),
         NEW c, c = Run!Config(run), NEW w, w = Run!BenchmarkWeights(c)
  PROVE  /\ w \in [ToSet(c.tickers) -> Nat]
         /\ Run!WeightSum(w, ToSet(c.tickers)) <= Unit
         /\ r.weights # Absent => w = r.weights
         /\ c.weights # run.config.weights =>
              \A t \in ToSet(c.tickers) : w[t] > 0 \/ r.weights # Absent
         /\ c.weights # Absent => DOMAIN c.weights \subseteq ToSet(c.tickers)
<1> DEFINE u == Run!Universe(r)
           o == Run!Overlay(r)
           row == Registry[r.strategy]
           T == ToSet(c.tickers)
<1>1. /\ r.strategy \in DOMAIN Registry /\ Run!Registered(row)
      /\ u \in Seq(ToSet(u)) /\ IsInjective(u)
      /\ c.tickers \in Seq(T) /\ IsInjective(c.tickers) /\ T = ToSet(u)
      /\ o.tickers = Absent => c.tickers = row.universe
      /\ o.tickers # Absent => c.tickers = u
  BY TickersOfRun
<1>2. run.config = row.config /\ c.weights = Run!Or(o.weights, row.config.weights)
  BY <1>1, ConfigView DEF Run!Built
<1>3. w = IF c.weights = Absent THEN Run!EqualWeights(c.tickers)
          ELSE [t \in T |-> IF t \in DOMAIN c.weights THEN c.weights[t] ELSE 0]
  BY RunSets DEF Run!BenchmarkWeights
<1>4. IsFiniteSet(T)
  BY <1>1, InjectiveLength
<1>5. /\ o.weights = IF r.weights # Absent THEN r.weights
                     ELSE IF ToSet(u) # ToSet(row.universe) THEN Run!EqualWeights(u) ELSE Absent
      /\ o.tickers = IF r.weights # Absent \/ ToSet(u) # ToSet(row.universe) THEN u ELSE Absent
  BY RunSets DEF Run!Overlay
\* The weights of the form.
<1>6. CASE r.weights # Absent
  <2>1. /\ r.weights # Malformed /\ DOMAIN r.weights = ToSet(u)
        /\ \A t \in DOMAIN r.weights : r.weights[t] # Malformed /\ r.weights[t] >= 0
        /\ Run!WeightSum(r.weights, DOMAIN r.weights) \in 1..Unit
    BY <1>6, RunSets DEF Run!Accepted, Run!ControlsAccepted, Run!WeightsAccepted
  <2>2. r.weights \in [T -> Int \union {Malformed}]
    BY <1>1, <1>6, <2>1, RequestsAreParsed DEF Run!Parsed
  <2>3. r.weights \in [T -> Nat]
    <3> HIDE DEF T, u
    <3> QED BY <1>1, <2>1, <2>2
  <2>4. c.weights = r.weights
    BY <1>2, <1>5, <1>6 DEF Run!Or
  <2>5. w = r.weights
    <3> HIDE DEF T, u
    <3> QED BY <1>1, <1>3, <1>6, <2>1, <2>3, <2>4
  <2>6. Unit \in Nat
    BY LimitsArePositive
  <2> HIDE DEF T, u
  <2> QED BY <1>1, <1>6, <2>1, <2>3, <2>4, <2>5, <2>6 DEF T
\* Equal weights of another universe.
<1>7. CASE r.weights = Absent /\ ToSet(u) # ToSet(row.universe)
  <2>1. r.universe # Absent /\ u = r.universe
    BY <1>7 DEF Run!Universe
  <2>2. ToSet(u) \subseteq Symbols /\ Len(u) <= Unit
    <3>1. ToSet(u) \subseteq Symbols /\ Len(u) \in 1..MaxTickers
      BY <2>1, RunSets DEF Run!Accepted, Run!ControlsAccepted, Run!UniverseAccepted
    <3>2. MaxTickers \in Int /\ MaxTickers <= Unit /\ Unit \in Nat
      BY LimitsArePositive
    <3> HIDE DEF u
    <3> QED BY <3>1, <3>2
  <2>3. /\ Run!EqualWeights(u) \in [ToSet(u) -> Nat]
        /\ Run!WeightSum(Run!EqualWeights(u), ToSet(u)) <= Unit
        /\ \A t \in ToSet(u) : Run!EqualWeights(u)[t] > 0
    <3> HIDE DEF u
    <3> QED BY <1>1, <2>2, EqualWeightsView
  <2>4. Run!EqualWeights(u) # Absent
    <3>1. Run!EqualWeights(u) \in [ToSet(u) -> Int]
      <4> HIDE DEF u
      <4> QED BY <2>3
    <3>2. ToSet(u) \in SUBSET Symbols
      BY <2>2
    <3> HIDE DEF u
    <3> QED BY <3>1, <3>2, AbsentIsNoValue
  <2>5. c.weights = Run!EqualWeights(u)
    BY <1>2, <1>5, <1>7, <2>4 DEF Run!Or
  <2>6. w = Run!EqualWeights(u)
    <3> HIDE DEF T, u
    <3> QED BY <1>1, <1>3, <2>3, <2>4, <2>5
  <2> HIDE DEF T, u
  <2> QED BY <1>1, <1>7, <2>3, <2>5, <2>6 DEF T
\* The strategy's own weights, or equal ones when it has none.
<1>8. CASE r.weights = Absent /\ ToSet(u) = ToSet(row.universe)
  <2>1. c.weights = row.config.weights /\ c.weights = run.config.weights
    BY <1>2, <1>5, <1>8 DEF Run!Or
  <2>2. CASE c.weights = Absent
    <3>1. w = Run!EqualWeights(c.tickers)
      BY <1>3, <2>2
    <3> HIDE DEF u
    <3> QED BY <1>1, <1>8, <2>1, <2>2, <3>1, EqualWeightsView
  <2>3. CASE c.weights # Absent
    <3> DEFINE v == c.weights
               A == DOMAIN v
    <3>1. /\ v \in [A -> Nat] /\ A \subseteq ToSet(row.universe)
          /\ Run!WeightSum(v, A) \in 0..Unit
      BY <1>1, <2>1, <2>3, RunSets DEF Run!Registered
    <3>2. A \in SUBSET T /\ v \in [A -> Int]
      <4> HIDE DEF T, u
      <4> QED BY <1>1, <1>8, <3>1
    <3>3. w = [t \in T |-> IF t \in A THEN v[t] ELSE 0]
      BY <1>3, <2>3
    <3>4. Run!WeightSum(w, T) = Run!WeightSum(v, A)
      <4> HIDE DEF T, u, v, A
      <4> QED BY <1>4, <3>2, <3>3, ExtendedSum
    <3>5. w \in [T -> Nat]
      <4> HIDE DEF T, u
      <4> QED BY <3>1, <3>3
    <3>6. Unit \in Nat
      BY LimitsArePositive
    <3> HIDE DEF T, u
    <3> QED BY <1>8, <2>1, <3>1, <3>2, <3>4, <3>5, <3>6 DEF T
  <2> QED BY <2>2, <2>3
<1> QED BY <1>6, <1>7, <1>8

\* The least and the greatest of a set that has one.
LEMMA RunMin ==
  ASSUME NEW S, S \subseteq Int, NEW x \in S, \A y \in S : x <= y
  PROVE  Run!Min1(S) = x
<1>1. Run!Min1(S) \in S /\ \A y \in S : Run!Min1(S) <= y
  BY DEF Run!Min1
<1>2. Run!Min1(S) \in Int /\ x \in Int /\ x <= Run!Min1(S) /\ Run!Min1(S) <= x
  BY <1>1
<1> QED BY ONLY <1>2

LEMMA RunMax ==
  ASSUME NEW S, S \subseteq Int, NEW x \in S, \A y \in S : y <= x
  PROVE  Run!Max1(S) = x
<1>1. Run!Max1(S) \in S /\ \A y \in S : y <= Run!Max1(S)
  BY DEF Run!Max1
<1>2. Run!Max1(S) \in Int /\ x \in Int /\ x <= Run!Max1(S) /\ Run!Max1(S) <= x
  BY <1>1
<1> QED BY ONLY <1>2

\* The window the tickers share is the one a validation run of them ends on.
LEMMA WindowOfValidation ==
  ASSUME NEW T, NEW shared \in Run!Shared(T), NEW source,
         NEW v, v = Run!ValidationWindow(T, source)
  PROVE  /\ v[2] = shared[2]
         /\ source = "fmp" => shared[1] <= v[1] /\ v[1] <= v[2]
         /\ \A t \in T : /\ t \in DOMAIN Coverage
                         /\ Coverage[t][1] \in Int /\ Coverage[t][2] \in Int
                         /\ Coverage[t][1] <= shared[1] /\ shared[2] <= Coverage[t][2]
         /\ shared[1] \in Int /\ shared[2] \in Int
<1> DEFINE firsts == {Coverage[t][1] : t \in T}
           lasts == {Coverage[t][2] : t \in T}
<1>1. /\ T \subseteq DOMAIN Coverage /\ shared[1] <= shared[2]
      /\ \A t \in T : Coverage[t][1] <= shared[1] /\ shared[2] <= Coverage[t][2]
      /\ \E t \in T : shared[1] = Coverage[t][1]
      /\ \E t \in T : shared[2] = Coverage[t][2]
  BY DEF Run!Shared
<1>2. \A t \in T : Coverage[t][1] \in Int /\ Coverage[t][2] \in Int
  BY <1>1, CoverageIsDays
<1>3. shared[1] \in firsts /\ \A y \in firsts : y <= shared[1]
  BY <1>1
<1>4. shared[2] \in lasts /\ \A y \in lasts : shared[2] <= y
  BY <1>1
<1>5. firsts \subseteq Int /\ lasts \subseteq Int
  BY <1>2
<1>6. shared[1] \in Int /\ shared[2] \in Int
  <2> HIDE DEF firsts, lasts
  <2> QED BY <1>3, <1>4, <1>5
<1>7. Run!LatestDate(T) = shared[2]
  <2>1. Run!Min1(lasts) = shared[2]
    <3> HIDE DEF lasts
    <3> QED BY <1>4, <1>5, RunMin
  <2> QED BY <2>1 DEF Run!LatestDate
<1> DEFINE first == shared[2] - ValidationDays
<1>8. v = IF source = "fmp" THEN <<Run!Max1({first} \union firsts), shared[2]>>
          ELSE <<first, shared[2]>>
  BY <1>7 DEF Run!ValidationWindow
<1>9. v[2] = shared[2]
  <2> HIDE DEF first, firsts
  <2> QED BY <1>8
<1>10. ASSUME source = "fmp" PROVE shared[1] <= v[1] /\ v[1] <= v[2]
  <2> DEFINE S == {first} \union firsts
  <2>1. first \in Int /\ first <= shared[2]
    BY <1>6, LimitsArePositive
  <2>2. v[1] = Run!Max1(S)
    <3> HIDE DEF first, firsts
    <3> QED BY <1>8, <1>10
  <2> HIDE DEF first, firsts
  <2>3. CASE first <= shared[1]
    <3>1. Run!Max1(S) = shared[1]
      <4>1. S \subseteq Int /\ shared[1] \in S /\ \A y \in S : y <= shared[1]
        BY <1>3, <1>5, <2>1, <2>3
      <4> HIDE DEF S
      <4> QED BY <4>1, RunMax
    <3> HIDE DEF S
    <3> QED BY <1>1, <1>6, <1>9, <2>2, <3>1
  <2>4. CASE ~(first <= shared[1])
    <3>1. Run!Max1(S) = first
      <4>1. S \subseteq Int /\ first \in S /\ \A y \in S : y <= first
        BY <1>3, <1>5, <1>6, <2>1, <2>4
      <4> HIDE DEF S
      <4> QED BY <4>1, RunMax
    <3> HIDE DEF S
    <3> QED BY <1>6, <1>9, <2>1, <2>2, <2>4, <3>1
  <2> QED BY <2>3, <2>4
<1> QED BY <1>1, <1>2, <1>6, <1>9, <1>10

LEMMA AcceptedIsRun ==
  ASSUME NEW r \in Requests
  PROVE  Run!RunAsSubmitted(r)
<1> SUFFICES ASSUME Run!Accepted(r) PROVE Run!RunAsSubmitted(r)
  BY DEF Run!RunAsSubmitted
<1> DEFINE run == Run!Built(r)
           c == Run!Config(run)
           w == Run!BenchmarkWeights(c)
           o == Run!Overlay(r)
           u == Run!Universe(r)
           T == ToSet(c.tickers)
<1>1. /\ T = ToSet(u) /\ IsInjective(c.tickers)
      /\ Run!Range(c.tickers) = T /\ Run!Range(u) = T
      /\ Run!IsInjective(c.tickers)
  BY TickersOfRun, RunSets
<1>2. /\ run.start = r.start /\ run.end = r.end /\ run.mode = r.mode
      /\ run.gate # Absent => run.gate.tickers = T
  BY <1>1 DEF Run!Built
<1>3. \/ Run!Refusal(run) = "none"
      \/ /\ Run!Refusal(run) = "size"
         /\ Run!Bars(Len(c.tickers), r.start, r.end, c.bar) <= MaxBars
  BY RefusalOfRun
<1>4. ASSUME NEW t \in T
      PROVE  Coverage[t][1] <= run.start /\ run.end <= Coverage[t][2]
  <2>1. \E p \in Run!Shared(T) : p[1] <= r.start /\ r.end <= p[2]
    <3>1. T # {} => \E p \in Run!Shared(T) : p[1] <= r.start /\ r.end <= p[2]
      BY <1>1 DEF Run!Accepted, Run!CoverageAccepted
    <3> HIDE DEF T
    <3> QED BY <1>4, <3>1
  <2>2. PICK p \in Run!Shared(T) : p[1] <= r.start /\ r.end <= p[2]
    BY <2>1
  <2>3. r.start \in Int /\ r.end \in Int
    BY RequestsAreParsed DEF Run!Accepted, Run!WindowAccepted, Run!Parsed
  <2> HIDE DEF T, run
  <2>4. /\ Coverage[t][1] \in Int /\ Coverage[t][2] \in Int /\ p[1] \in Int /\ p[2] \in Int
        /\ Coverage[t][1] <= p[1] /\ p[2] <= Coverage[t][2]
    BY <1>4, <2>2, WindowOfValidation
  <2> QED BY <1>2, <2>2, <2>3, <2>4
<1>5. /\ w \in [T -> Nat] /\ Run!WeightSum(w, T) <= Unit
      /\ r.weights # Absent => w = r.weights
      /\ c.weights # run.config.weights => \A t \in T : w[t] > 0 \/ r.weights # Absent
      /\ c.weights # Absent => DOMAIN c.weights \subseteq T
  BY WeightsOfRun
<1>6. DOMAIN w = T /\ \A t \in T : w[t] >= 0
  <2> HIDE DEF T, w
  <2> QED BY <1>5
\* The bar size, and how often an intraday run decides.
<1>7. r.interval # Absent => Run!Resolution(run) = Run!Timeframe(r)
  <2> SUFFICES ASSUME r.interval # Absent PROVE Run!Resolution(run) = Run!Timeframe(r)
    OBVIOUS
  <2>1. Run!Timeframe(r) = r.interval
    BY DEF Run!Timeframe
  <2>2. Run!IsIntraday(r.interval) => r.mode # "fast"
    BY DEF Run!Accepted, Run!ControlsAccepted, Run!IntervalAccepted
  <2>3. /\ r.interval \in Run!BarSeconds
        /\ c.bar = IF Run!IsIntraday(r.interval) THEN r.interval ELSE Run!DailyBar
        /\ Run!IsIntraday(r.interval) <=> r.interval # Run!DailyBar
        /\ Run!IsIntraday(c.bar) <=> c.bar # Run!DailyBar
    <3> HIDE DEF run
    <3> QED BY BarOfRun, AbsentIsNoValue DEF run
  <2> HIDE DEF run, c
  <2> QED BY <1>2, <2>1, <2>2, <2>3 DEF Run!Resolution, c
<1>8. Run!IsIntraday(c.bar) /\ r.interval # Absent => c.poll = 0
  <2> SUFFICES ASSUME Run!IsIntraday(c.bar), r.interval # Absent PROVE c.poll = 0
    OBVIOUS
  <2>1. Run!IsIntraday(r.interval)
    BY BarOfRun
  <2>2. o.poll = 0
    BY <2>1 DEF Run!Overlay
  <2>3. c.poll = Run!Or(Run!Or(o.poll, Registry[r.strategy].config.poll), 60)
    <3>1. Run!Registered(Registry[r.strategy])
      BY TickersOfRun
    <3> QED BY <3>1, ConfigView
  <2>4. 0 # Absent
    BY AbsentIsNoValue
  <2> QED BY <2>2, <2>3, <2>4 DEF Run!Or
<1>9. \A shared \in Run!Shared(T), source \in {"fmp", "database"} :
         LET v == Run!ValidationWindow(T, source)
         IN  v[2] = shared[2] /\ (source = "fmp" => shared[1] <= v[1] /\ v[1] <= v[2])
  <2> HIDE DEF T
  <2> QED BY WindowOfValidation
<1> HIDE DEF run, c, w, o, u, T
<1> QED BY <1>1, <1>2, <1>3, <1>4, <1>5, <1>6, <1>7, <1>8, <1>9
        DEF Run!RunAsSubmitted, run, c, w, u

-------------------------------------------------------------------------------
(* Uploaded files: what the scan, the check and the worker make of them.    *)

ClassNames(C) == {c.name : c \in C}

DirectNames(C) == {c.name : c \in {d \in C : Scan!ExtendsBase(d)}}

Heirs(C, X) == {c.name : c \in {d \in C : \E b \in d.bases : ~b.dotted /\ b.id \in X}}

\* The rounds of the fixed point of SubclassNames.
Rounds(g, n, C) ==
    /\ g \in [0..n -> SUBSET ClassNames(C)] /\ g[0] = DirectNames(C)
    /\ \A i \in 1..n : g[i] = g[i - 1] \union Heirs(C, g[i - 1])

LEMMA ScanOperators ==
  /\ \A s : Scan!Range1(s) = {s[i] : i \in DOMAIN s}
  /\ \A S : Scan!Cardinality(S) = Cardinality(S)
<1>1. \A s : Scan!Range1(s) = {s[i] : i \in DOMAIN s}
  BY DEF Scan!Range1
<1>2. \A S : Scan!Cardinality(S) = Cardinality(S)
  BY DEF Scan!Cardinality, Cardinality
<1> QED BY <1>1, <1>2

LEMMA FileView ==
  ASSUME NEW file, Scan!FileRead(file), NEW n, n = Len(file.body)
  PROVE  /\ n \in Nat /\ DOMAIN file.body = 1..n
         /\ \A i \in 1..n : file.body[i].form \in {"class", "nested", "bind"}
         /\ \A i \in 1..n : file.body[i].form # "bind" => file.body[i] \in Scan!Classes(file)
         /\ \A i \in 1..n : file.body[i] \in Scan!Range1(file.body)
         /\ IsFiniteSet(1..n)
<1>1. file.body \in Seq(Scan!Range1(file.body))
  BY DEF Scan!FileRead
<1>2. n \in Nat /\ DOMAIN file.body = 1..n
  BY <1>1, SeqView
<1>3. \A i \in 1..n : file.body[i] \in Scan!Range1(file.body)
  BY <1>2, ScanOperators
<1>4. \A i \in 1..n : file.body[i].form \in {"class", "nested", "bind"}
  BY <1>3 DEF Scan!FileRead
<1>5. IsFiniteSet(1..n)
  BY <1>2, FS_Interval
<1> QED BY <1>2, <1>3, <1>4, <1>5 DEF Scan!Classes

LEMMA NamesGrow ==
  ASSUME NEW file, Scan!FileRead(file), NEW n, n = Len(file.body),
         NEW C, C = Scan!Classes(file)
  PROVE  \E g : Rounds(g, n, C) /\ Scan!SubclassNames(file) = g[n]
<1> DEFINE V == SUBSET ClassNames(C)
           step(X) == X \union Heirs(C, X)
           F == [i \in 1..n |-> [X \in V |-> step(X)]]
           It(g) == g = [i \in 0..n |-> IF i = 0 THEN DirectNames(C)
                                        ELSE g[i - 1] \union Heirs(C, g[i - 1])]
           grow == CHOOSE g : It(g)
<1>1. n \in Nat
  BY FileView
<1>2. DirectNames(C) \in V /\ F \in [1..n -> [V -> V]]
  <2>1. DirectNames(C) \in V
    BY DEF DirectNames, ClassNames
  <2>2. \A X \in V : step(X) \in V
    BY DEF Heirs, ClassNames
  <2> HIDE DEF V, step
  <2> QED BY <2>1, <2>2
<1>3. PICK t : Traces(t, n, V, DirectNames(C), F)
  <2> HIDE DEF V, F
  <2> QED BY <1>1, <1>2, TraceExists
<1>4. /\ t \in [0..n -> V] /\ t[0] = DirectNames(C)
      /\ \A i \in 1..n : t[i - 1] \in V /\ t[i] = F[i][t[i - 1]]
  BY <1>3 DEF Traces
<1>5. \A i \in 1..n : t[i] = t[i - 1] \union Heirs(C, t[i - 1])
  <2> HIDE DEF V
  <2> QED BY <1>4
<1>6. It(t)
  <2>1. \A i \in 0..n : i # 0 => i \in 1..n
    BY <1>1
  <2> HIDE DEF V, F
  <2> QED BY <1>4, <1>5, <2>1
<1>7. It(grow)
  <2> HIDE DEF It
  <2> QED BY <1>6
<1>8. Scan!SubclassNames(file) = grow[n]
  BY DEF Scan!SubclassNames, DirectNames, Heirs
<1>9. Rounds(grow, n, C)
  <2>1. \A i \in 1..n : i \in 0..n /\ i # 0 /\ i - 1 \in 0..n
    BY <1>1
  <2>2. /\ DOMAIN grow = 0..n /\ grow[0] = DirectNames(C)
        /\ \A i \in 1..n : grow[i] = grow[i - 1] \union Heirs(C, grow[i - 1])
    <3>1. grow = [i \in 0..n |-> IF i = 0 THEN DirectNames(C)
                                 ELSE grow[i - 1] \union Heirs(C, grow[i - 1])]
      BY <1>7
    <3>2. 0 \in 0..n
      BY <1>1
    <3> HIDE DEF grow
    <3> QED BY <2>1, <3>1, <3>2
  <2> HIDE DEF grow
  <2>3. ASSUME NEW i \in 0..n PROVE grow[i] \in V
    <3> DEFINE Bad == {k \in 0..n : grow[k] \notin V}
    <3> SUFFICES ASSUME Bad # {} PROVE FALSE
      OBVIOUS
    <3>1. PICK m \in Bad : \A k \in Bad : m <= k
      <4>1. Bad \subseteq Nat
        OBVIOUS
      <4> HIDE DEF Bad
      <4> QED BY <4>1, LeastNatural
    <3>2. m \in 0..n /\ grow[m] \notin V
      BY <3>1
    <3>3. m # 0
      <4> HIDE DEF V
      <4> QED BY <1>2, <2>2, <3>2
    <3>4. m \in 1..n /\ m - 1 \in 0..n /\ ~(m <= m - 1)
      BY <3>2, <3>3
    <3>5. grow[m - 1] \in V
      <4> HIDE DEF V
      <4> QED BY <3>1, <3>4
    <3>6. step(grow[m - 1]) \in V
      BY <3>5 DEF Heirs, ClassNames
    <3> HIDE DEF V, Bad
    <3> QED BY <2>2, <3>2, <3>4, <3>6
  <2>4. grow \in [0..n -> V]
    <3>1. grow = [i \in 0..n |-> grow[i]]
      <4>1. \E f : grow = [i \in 0..n |-> f[i]]
        <5> DEFINE f == [i \in 0..n |-> IF i = 0 THEN DirectNames(C)
                                        ELSE grow[i - 1] \union Heirs(C, grow[i - 1])]
        <5>1. grow = f
          BY <1>7
        <5>2. f = [i \in 0..n |-> f[i]]
          OBVIOUS
        <5> HIDE DEF f
        <5> QED BY <5>1, <5>2
      <4> QED BY <4>1
    <3> HIDE DEF V
    <3> QED BY <2>3, <3>1
  <2> QED BY <2>2, <2>4 DEF Rounds
<1> HIDE DEF grow
<1> QED BY <1>8, <1>9

\* Later rounds have more names; a name is in a round for a reason.
LEMMA RoundsGrow ==
  ASSUME NEW n, n \in Nat, NEW C, NEW g, Rounds(g, n, C)
  PROVE  /\ \A i, j \in 0..n : i <= j => g[i] \subseteq g[j]
         /\ \A x \in g[n] : x \in DirectNames(C) \/ x \in Heirs(C, ClassNames(C))
<1>1. ASSUME NEW i \in 0..n, NEW j \in 0..n, i <= j PROVE g[i] \subseteq g[j]
  <2> DEFINE Bad == {k \in i..n : ~(g[i] \subseteq g[k])}
  <2>0. SUFFICES ASSUME Bad # {} PROVE FALSE
    BY <1>1
  <2>1. PICK m \in Bad : \A k \in Bad : m <= k
    <3>1. Bad \subseteq Nat
      OBVIOUS
    <3> HIDE DEF Bad
    <3> QED BY <2>0, <3>1, LeastNatural
  <2>2. m \in i..n /\ ~(g[i] \subseteq g[m]) /\ m # i
    BY <2>1
  <2>3. m \in 1..n /\ m - 1 \in i..n /\ ~(m <= m - 1)
    BY <2>2
  <2>4. g[i] \subseteq g[m - 1]
    BY <2>1, <2>3
  <2> QED BY <2>2, <2>3, <2>4 DEF Rounds
<1>2. ASSUME NEW x \in g[n]
      PROVE  x \in DirectNames(C) \/ x \in Heirs(C, ClassNames(C))
  <2> DEFINE In == {k \in 0..n : x \in g[k]}
  <2>1. In \subseteq Nat /\ In # {}
    <3>1. n \in In
      OBVIOUS
    <3> QED BY <3>1
  <2>2. PICK m \in In : \A k \in In : m <= k
    <3> HIDE DEF In
    <3> QED BY <2>1, LeastNatural
  <2>3. m \in 0..n /\ x \in g[m]
    BY <2>2
  <2>4. CASE m = 0
    BY <2>3, <2>4 DEF Rounds
  <2>5. CASE m # 0
    <3>1. m \in 1..n /\ m - 1 \in 0..n /\ ~(m <= m - 1)
      BY <2>3, <2>5
    <3>2. x \notin g[m - 1]
      BY <2>2, <3>1
    <3>3. x \in Heirs(C, g[m - 1]) /\ g[m - 1] \subseteq ClassNames(C)
      BY <2>3, <3>1, <3>2 DEF Rounds
    <3> QED BY <3>3 DEF Heirs
  <2> QED BY <2>4, <2>5
<1> QED BY <1>1, <1>2

\* What a name is bound to before the i-th class.
LEMMA BoundView ==
  ASSUME NEW file, NEW name, NEW i, i \in Nat \ {0}, NEW j, j = Scan!Bound(file, name, i)
  PROVE  /\ j \in 0..i - 1
         /\ j > 0 => file.body[j].form # "nested" /\ file.body[j].name = name
         /\ \A k \in 1..i - 1 : file.body[k].form # "nested" /\ file.body[k].name = name => k <= j
<1> DEFINE D == 1..i - 1
           S == {k \in D : file.body[k].form # "nested" /\ file.body[k].name = name}
<1>1. j = IF S = {} THEN 0 ELSE Scan!Last1(S)
  BY DEF Scan!Bound
<1>2. CASE S = {}
  BY <1>1, <1>2
<1>3. CASE S # {}
  <2>1. IsFiniteSet(D) /\ S \in SUBSET D /\ S \subseteq Int
    BY FS_Interval
  <2>2. IsFiniteSet(S)
    <3> HIDE DEF D, S
    <3> QED BY <2>1, FS_Subset
  <2>3. \E m \in S : \A y \in S : y <= m
    <3> HIDE DEF D, S
    <3> QED BY <1>3, <2>1, <2>2, MaxOfFinite
  <2>4. Scan!Last1(S) \in S /\ \A y \in S : y <= Scan!Last1(S)
    <3> HIDE DEF D, S
    <3> QED BY <2>3 DEF Scan!Last1
  <2>5. j \in S /\ \A y \in S : y <= j
    <3> HIDE DEF D, S
    <3> QED BY <1>1, <1>3, <2>4
  <2> QED BY <2>5
<1> QED BY <1>2, <1>3

\* Where a base, or what a name is bound to, takes its value from.
LEMMA SourceView ==
  ASSUME NEW file, NEW b, NEW i, i \in Nat \ {0}, NEW j, j = Scan!Source(file, b, i)
  PROVE  /\ j \in 0..i - 1
         /\ j > 0 => ~b.dotted /\ file.body[j].form # "nested" /\ file.body[j].name = b.id
<1>1. CASE b.dotted
  BY <1>1 DEF Scan!Source
<1>2. CASE ~b.dotted
  <2>1. j = Scan!Bound(file, b.id, i)
    BY <1>2 DEF Scan!Source
  <2> QED BY <1>2, <2>1, BoundView
<1> QED BY <1>1, <1>2

\* What one statement gives its name, from what those before it gave.
ClassValue(file, i, f) ==
    [ class |-> file.body[i].name,
      kind  |-> IF \E b \in file.body[i].bases :
                      Scan!Denotes(file, b, i, f).kind \in Scan!Strategic
                THEN "own" ELSE "plain" ]

Gives(file, i, f) ==
    IF file.body[i].form = "bind" THEN Scan!Denotes(file, file.body[i].of, i, f)
    ELSE ClassValue(file, i, f)

LEMMA ValuesView ==
  ASSUME NEW file, Scan!FileRead(file), NEW n, n = Len(file.body),
         NEW s, s = Scan!Values(file)
  PROVE  \A i \in 1..n : s[i] = Gives(file, i, s)
<1> DEFINE N == 0..n
           R == Scan!Range1(file.body)
           v == [kind |-> "unbound", class |-> "none"]
           V == {v} \union {t.of.outer : t \in R}
                 \union [class : {t.name : t \in R}, kind : {"own", "plain"}]
           W == [N -> V]
           G == [i \in 1..n |-> [f \in W |-> Gives(file, i, f)]]
           It(f) == f = [i \in N |-> IF i = 0 THEN v ELSE Gives(file, i, f)]
           sub == CHOOSE f : It(f)
<1>1. n \in Nat /\ \A i \in 1..n : file.body[i] \in R
  BY FileView
<1>2. \A i \in 1..n, f \in W : G[i][f] = Gives(file, i, f)
  <2> HIDE DEF W
  <2> QED OBVIOUS
<1>3. Progressive(G, n, V)
  <2>1. ASSUME NEW i \in 1..n, NEW f \in W PROVE Gives(file, i, f) \in V
    <3>1. ClassValue(file, i, f) \in V
      <4>1. file.body[i].name \in {t.name : t \in R}
        BY <1>1
      <4>2. ClassValue(file, i, f) \in [class : {t.name : t \in R}, kind : {"own", "plain"}]
        BY <4>1 DEF ClassValue
      <4> QED BY <4>2
    <3>2. Scan!Denotes(file, file.body[i].of, i, f) \in V
      <4> DEFINE j == Scan!Source(file, file.body[i].of, i)
      <4>1. j \in N
        <5>1. i \in Nat \ {0} /\ \A m \in 0..i - 1 : m \in N
          BY <1>1
        <5> HIDE DEF N
        <5> QED BY <5>1, SourceView
      <4>2. file.body[i].of.outer \in V
        BY <1>1
      <4> HIDE DEF V, j
      <4>3. f[j] \in V
        BY <4>1
      <4> QED BY <4>2, <4>3 DEF Scan!Denotes, j
    <3> HIDE DEF V
    <3> QED BY <3>1, <3>2 DEF Gives
  <2>2. G \in [1..n -> [W -> V]]
    <3> HIDE DEF W, V
    <3> QED BY <2>1
  <2>3. ASSUME NEW i \in 1..n, NEW f \in W, NEW h \in W, \A j \in 0..i - 1 : f[j] = h[j]
        PROVE  G[i][f] = G[i][h]
    <3>1. \A b : Scan!Denotes(file, b, i, f) = Scan!Denotes(file, b, i, h)
      <4>1. \A b : Scan!Source(file, b, i) \in 0..i - 1
        <5>1. i \in Nat \ {0}
          BY <1>1
        <5> QED BY <5>1, SourceView
      <4> HIDE DEF W
      <4> QED BY <2>3, <4>1 DEF Scan!Denotes
    <3>2. Gives(file, i, f) = Gives(file, i, h)
      BY <3>1 DEF Gives, ClassValue
    <3> HIDE DEF G, W
    <3> QED BY <1>2, <3>2
  <2> HIDE DEF G, V
  <2> QED BY <2>2, <2>3 DEF Progressive
<1>4. PICK f : Courses(f, n, V, v, G)
  <2>1. v \in V
    OBVIOUS
  <2> HIDE DEF G, V, v
  <2> QED BY ONLY <1>1, <1>3, <2>1, CourseOfValues
<1>5. f \in W /\ f[0] = v /\ \A i \in 1..n : f[i] = G[i][f]
  <2> HIDE DEF G, V, v
  <2> QED BY <1>4 DEF Courses
<1>6. It(f)
  <2>1. \A i \in N : f[i] = IF i = 0 THEN v ELSE Gives(file, i, f)
    <3> TAKE i \in N
    <3>1. CASE i = 0
      BY <1>5, <3>1
    <3>2. CASE i # 0
      <4>1. i \in 1..n
        BY <1>1, <3>2
      <4>2. f[i] = Gives(file, i, f)
        <5> HIDE DEF G, W
        <5> QED BY <1>2, <1>5, <4>1
      <4> QED BY <3>2, <4>2
    <3> QED BY <3>1, <3>2
  <2> HIDE DEF G, N, V, v
  <2> QED BY <1>5, <2>1
<1>7. It(sub)
  <2> HIDE DEF It
  <2> QED BY <1>6
<1>8. s = sub
  BY DEF Scan!Values, Gives, ClassValue
<1>9. \A i \in N : s[i] = IF i = 0 THEN v ELSE Gives(file, i, s)
  <2> HIDE DEF sub, N, v
  <2> QED BY <1>7, <1>8
<1>10. \A i \in 1..n : i \in N /\ i # 0
  BY <1>1
<1> HIDE DEF N, v, sub
<1> QED BY <1>9, <1>10

LEMMA ClassValueView ==
  ASSUME NEW file, Scan!FileRead(file), NEW v, v = Scan!Values(file),
         NEW i, i \in 1..Len(file.body), file.body[i].form # "bind"
  PROVE  /\ v[i].class = file.body[i].name
         /\ v[i].kind \in {"own", "plain"}
         /\ v[i].kind = "own" <=>
              \E b \in file.body[i].bases :
                  Scan!Denotes(file, b, i, v).kind \in Scan!Strategic
<1>1. v[i] = Gives(file, i, v)
  BY ValuesView
<1>2. v[i] = ClassValue(file, i, v)
  BY <1>1 DEF Gives
<1> QED BY <1>2 DEF ClassValue

\* A class the worker takes for a strategy, the scan took for one.
LEMMA SubclassIsNamed ==
  ASSUME NEW file, Scan!FileRead(file), ~Scan!Sibling(file),
         NEW i, i \in 1..Len(file.body), file.body[i].form = "class",
         Scan!Values(file)[i].kind = "own"
  PROVE  file.body[i].name \in Scan!SubclassNames(file)
<1> DEFINE n == Len(file.body)
           C == Scan!Classes(file)
           s == Scan!Values(file)
           cs == file.body
           Own(k) == cs[k].form = "class" /\ s[k].kind = "own"
<1>1. /\ n \in Nat /\ DOMAIN cs = 1..n
      /\ \A k \in 1..n : cs[k].form \in {"class", "nested", "bind"}
      /\ \A k \in 1..n : cs[k].form # "bind" => cs[k] \in C
  BY FileView
<1>2. PICK g : Rounds(g, n, C) /\ Scan!SubclassNames(file) = g[n]
  BY NamesGrow
<1>3. \A j, k \in 0..n : j <= k => g[j] \subseteq g[k]
  <2> HIDE DEF n, C
  <2> QED BY <1>1, <1>2, RoundsGrow
<1> DEFINE Bad == {k \in 1..n : Own(k) /\ cs[k].name \notin g[k - 1]}
<1>5. Bad = {}
  <2> SUFFICES ASSUME Bad # {} PROVE FALSE
    OBVIOUS
  <2>1. PICK m \in Bad : \A k \in Bad : m <= k
    <3>1. Bad \subseteq Nat
      OBVIOUS
    <3> HIDE DEF Bad
    <3> QED BY <3>1, LeastNatural
  <2>2. m \in 1..n /\ Own(m) /\ cs[m].name \notin g[m - 1]
    BY <2>1
  <2>4. m \in Nat \ {0} /\ 0 \in 0..n /\ m - 1 \in 0..n /\ 0 <= m - 1 /\ cs[m] \in C
    BY <1>1, <2>2
  <2>3. PICK b \in cs[m].bases : Scan!Denotes(file, b, m, s).kind \in Scan!Strategic
    BY <2>2, ClassValueView
  <2>5. ~Scan!ExtendsBase(cs[m])
    <3> SUFFICES ASSUME Scan!ExtendsBase(cs[m]) PROVE FALSE
      OBVIOUS
    <3> HIDE DEF s, cs, n, C
    <3>1. cs[m].name \in DirectNames(C)
      BY <2>4 DEF DirectNames
    <3>2. g[0] = DirectNames(C) /\ g[0] \subseteq g[m - 1]
      BY <1>2, <1>3, <2>4 DEF Rounds
    <3> QED BY <2>2, <3>1, <3>2
  <2> DEFINE j == Scan!Source(file, b, m)
  <2>6. j # 0 /\ cs[j].form # "bind"
    <3>1. m \in DOMAIN file.body
      BY <1>1, <2>2
    <3> QED BY <2>2, <2>3, <2>5, <3>1 DEF Scan!Sibling
  <2>7. /\ j \in 0..m - 1
        /\ j > 0 => ~b.dotted /\ cs[j].form # "nested" /\ cs[j].name = b.id
    <3>1. m \in Nat \ {0} /\ j = Scan!Source(file, b, m)
      BY <2>4
    <3> HIDE DEF j
    <3> QED BY ONLY <3>1, SourceView DEF cs
  <2>8. Scan!Denotes(file, b, m, s) = s[j]
    BY <2>6 DEF Scan!Denotes
  <2> HIDE DEF j
  <2>9. j \in 1..n /\ j < m /\ ~(m <= j) /\ j > 0
    <3> HIDE DEF n
    <3> QED BY <1>1, <2>2, <2>6, <2>7
  <2>10. cs[j].form = "class"
    BY <1>1, <2>6, <2>7, <2>9
  <2>11. s[j].kind = "own"
    <3>1. s[j].kind \in {"own", "plain"}
      BY <2>6, <2>9, ClassValueView
    <3> QED BY <2>3, <2>8, <3>1 DEF Scan!Strategic
  <2> HIDE DEF s, cs, n, C
  <2>12. cs[j].name \in g[j - 1]
    BY <2>1, <2>9, <2>10, <2>11
  <2>13. cs[m].name \in Heirs(C, g[j - 1])
    BY <2>4, <2>7, <2>9, <2>12 DEF Heirs
  <2>14. cs[m].name \in g[j]
    BY <1>2, <2>9, <2>13 DEF Rounds
  <2>15. g[j] \subseteq g[m - 1]
    <3>1. j \in 0..n /\ j <= m - 1
      BY <1>1, <2>2, <2>9
    <3> QED BY <1>3, <2>4, <3>1
  <2> QED BY <2>2, <2>14, <2>15
<1>6. i \in 1..n /\ Own(i)
  OBVIOUS
<1> HIDE DEF Own, cs, n, C
<1>7. cs[i].name \in g[i - 1]
  BY <1>5, <1>6
<1>8. i - 1 \in 0..n /\ n \in 0..n /\ i - 1 <= n
  BY <1>1, <1>6
<1>9. g[i - 1] \subseteq g[n]
  BY <1>3, <1>8
<1> QED BY <1>2, <1>7, <1>9 DEF cs

\* The classes that count.
LEMMA ClassesView ==
  ASSUME NEW file, Scan!FileRead(file),
         NEW S, S = Scan!StrategyClasses(file)
  PROVE  /\ S \subseteq 1..Len(file.body)
         /\ Scan!Cardinality(S) = Cardinality(S)
         /\ Cardinality(S) \in Nat /\ (Cardinality(S) = 0 <=> S = {})
         /\ Cardinality(S) = 1 => \E k : S = {k}
         /\ \A k : S = {k} => Cardinality(S) = 1
<1> DEFINE D == 1..Len(file.body)
<1>1. IsFiniteSet(D) /\ DOMAIN file.body = D
  BY FileView
<1>2. S \in SUBSET D
  BY <1>1 DEF Scan!StrategyClasses
<1>3. IsFiniteSet(S)
  <2> HIDE DEF D
  <2> QED BY <1>1, <1>2, FS_Subset
<1>5. Cardinality(S) \in Nat /\ (Cardinality(S) = 0 <=> S = {})
  BY <1>3, FS_CardinalityType, FS_EmptySet
<1>6. Cardinality(S) = 1 <=> \E k : S = {k}
  BY <1>3, FS_Singleton
<1> QED BY <1>2, <1>5, <1>6, ScanOperators

\* A file that checks clean is taken, with the class it was shown to have.
LEMMA CleanIsTaken ==
  ASSUME NEW file, Scan!FileRead(file), Scan!Check(file).compatible
  PROVE  Scan!Scan(file).ok /\ Scan!Scan(file).class = Scan!Check(file).class
<1> DEFINE S == Scan!StrategyClasses(file)
           cs == file.body
           c == cs[CHOOSE i \in S : \A j \in S : i <= j]
           second == cs[CHOOSE i \in S : \E j \in S : j < i]
           shape == CASE S = {} -> {<<0, "no class">>}
                      [] Scan!Cardinality(S) > 1 -> {<<second.line, "several classes">>}
                      [] OTHER -> Scan!ContractIssues(c) \union Scan!IndicatorIssues(c)
           issues == IF file.parses
                     THEN {<<n.line, "violation">> : n \in Scan!Refused(file)} \union shape
                     ELSE {<<file.badLine, "syntax">>}
<1>0. /\ Scan!Cardinality(S) = Cardinality(S)
      /\ Cardinality(S) \in Nat /\ (Cardinality(S) = 0 <=> S = {})
      /\ Cardinality(S) = 1 => \E k : S = {k}
      /\ S \subseteq 1..Len(file.body)
  BY ClassesView
<1>1. /\ Scan!Check(file).compatible = (issues = {})
      /\ Scan!Check(file).class = IF file.parses /\ Scan!Cardinality(S) = 1
                                  THEN c.name ELSE "none"
  <2> HIDE DEF issues, c, S
  <2> QED BY DEF Scan!Check, issues, shape, second, c, cs, S
<1>2. issues = {}
  <2> HIDE DEF issues, c, S
  <2> QED BY <1>1
<1>3. file.parses /\ Scan!Refused(file) = {} /\ shape = {}
  <2> HIDE DEF shape
  <2>1. file.parses
    BY <1>2
  <2>2. {<<n.line, "violation">> : n \in Scan!Refused(file)} = {} /\ shape = {}
    BY <1>2, <2>1
  <2>3. Scan!Refused(file) = {}
    BY <2>2
  <2> QED BY <2>1, <2>2, <2>3
<1>4. S # {} /\ ~(Scan!Cardinality(S) > 1)
  <2> HIDE DEF S, c, second
  <2>1. S # {}
    <3> SUFFICES ASSUME S = {} PROVE FALSE
      OBVIOUS
    <3>1. ~(Scan!Cardinality(S) > 1)
      BY <1>0
    <3> QED BY <1>3, <3>1
  <2> QED BY <1>3, <2>1
<1>5. Cardinality(S) = 1
  <2> DEFINE m == Cardinality(S)
  <2>1. m \in Nat /\ m # 0 /\ ~(m > 1)
    <3> HIDE DEF S
    <3> QED BY <1>0, <1>4
  <2> HIDE DEF m
  <2>2. m = 1
    BY <2>1
  <2> QED BY <2>2 DEF m
<1>6. PICK k : S = {k}
  BY <1>0, <1>5
<1>7. (CHOOSE i \in S : \A j \in S : i <= j) = k /\ (CHOOSE i \in S : TRUE) = k
  <2>1. k \in Nat
    <3> HIDE DEF S
    <3> QED BY <1>0, <1>6
  <2> HIDE DEF S
  <2> QED BY <1>6, <2>1
<1>8. c.name = cs[k].name
  BY <1>7
<1>9. Scan!Check(file).class = cs[k].name
  <2> HIDE DEF S, c, issues
  <2> QED BY <1>0, <1>1, <1>3, <1>5, <1>8
<1>10. Scan!Scan(file) = [ok |-> TRUE, why |-> "none",
                          class |-> cs[CHOOSE i \in S : TRUE].name]
  <2> HIDE DEF shape, issues, c
  <2> QED BY <1>3, <1>4 DEF Scan!Scan
<1>11. Scan!Scan(file).ok = TRUE /\ Scan!Scan(file).class = cs[CHOOSE i \in S : TRUE].name
  <2> HIDE DEF S, cs
  <2> QED BY <1>10
<1>12. Scan!Scan(file).class = cs[k].name
  <2> HIDE DEF S, cs
  <2> QED BY <1>7, <1>11
<1> QED BY <1>9, <1>11, <1>12

\* The one class a module has, when it is the only strategy in it.
LEMMA SoleIsLoaded ==
  ASSUME NEW file, NEW k, Scan!Candidates(file) = {k}, file.parses, ~Scan!ImportFails(file)
  PROVE  Scan!Load(file).ok /\ Scan!Load(file).class = Scan!Values(file)[k].class
<1> DEFINE L == Scan!Candidates(file)
<1>1. ~(Scan!Cardinality(L) > 1)
  <2>1. Cardinality({k}) = 1
    BY FS_Singleton
  <2>2. Scan!Cardinality(L) = 1
    BY <2>1, ScanOperators
  <2> HIDE DEF L
  <2> QED BY <2>2
<1> DEFINE c == CHOOSE i \in L : TRUE
<1>2. c = k /\ L # {}
  OBVIOUS
<1>3. Scan!Load(file) = [ok |-> TRUE, why |-> "none", class |-> Scan!Values(file)[c].class]
  <2> HIDE DEF L
  <2> QED BY <1>1, <1>2 DEF Scan!Load, L
<1> HIDE DEF L, c
<1> QED BY <1>2, <1>3

LEMMA FilesAgree ==
  ASSUME NEW file, Scan!FileRead(file)
  PROVE  Scan!FileAgrees(file)
<1> DEFINE S == Scan!StrategyClasses(file)
           L == Scan!Candidates(file)
           v == Scan!Values(file)
           n == Len(file.body)
           scan == Scan!Scan(file)
           load == Scan!Load(file)
           k == CHOOSE i \in S : TRUE
<1>1. Scan!Check(file).compatible => scan.ok /\ scan.class = Scan!Check(file).class
  BY CleanIsTaken
<1>2. /\ S \subseteq 1..n /\ Scan!Cardinality(S) = Cardinality(S)
      /\ Cardinality(S) \in Nat /\ (Cardinality(S) = 0 <=> S = {})
      /\ Cardinality(S) = 1 => \E i : S = {i}
  BY ClassesView
<1>3. ASSUME scan.ok, ~Scan!ImportFails(file), Scan!Stays(file, k), ~Scan!Impostor(file, k),
             ~Scan!Aliased(file), ~Scan!Sibling(file)
      PROVE  load.ok /\ load.class = scan.class
  <2>1. S # {} /\ ~(Scan!Cardinality(S) > 1) /\ file.parses
    <3> HIDE DEF S
    <3> QED BY <1>3 DEF Scan!Scan, S
  <2>2. S = {k}
    <3> DEFINE m == Cardinality(S)
    <3>1. m \in Nat /\ m # 0 /\ ~(m > 1)
      <4> HIDE DEF S
      <4> QED BY <1>2, <2>1
    <3>2. m = 1
      <4> HIDE DEF m
      <4> QED BY <3>1
    <3> HIDE DEF S
    <3> QED BY <1>2, <3>2
  <2>3. scan.class = file.body[k].name
    <3> HIDE DEF S
    <3> QED BY <1>3 DEF Scan!Scan, S
  <2> HIDE DEF S, k, scan, load
  <2>4. k \in 1..n /\ DOMAIN file.body = 1..n /\ file.body[k].form = "class"
    BY <1>2, <1>3, <2>2, FileView DEF Scan!Stays
  <2>5. v[k].kind = "own" /\ v[k].class = file.body[k].name
    <3>1. \E b \in file.body[k].bases : Scan!Denotes(file, b, k, v).kind \in Scan!Strategic
      BY <1>3 DEF Scan!Impostor
    <3> QED BY <2>4, <3>1, ClassValueView
  <2>6. k \in L
    BY <1>3, <2>4, <2>5 DEF Scan!Candidates, Scan!Stays
  <2>7. ASSUME NEW i \in L PROVE i = k
    <3>1. /\ i \in 1..n /\ file.body[i].form # "nested" /\ v[i].kind = "own"
      BY <2>4 DEF Scan!Candidates
    <3>2. file.body[i].form # "bind"
      <4> HIDE DEF L
      <4> QED BY <1>3, <2>7 DEF Scan!Aliased, L
    <3>3. file.body[i].form = "class"
      BY <3>1, <3>2, FileView
    <3>4. file.body[i].name \in Scan!SubclassNames(file)
      BY <1>3, <3>1, <3>3, SubclassIsNamed
    <3>5. i \in S
      BY <2>4, <3>1, <3>2, <3>4 DEF Scan!StrategyClasses, S
    <3> QED BY <2>2, <3>5
  <2>8. L = {k}
    <3> HIDE DEF L
    <3> QED BY <2>6, <2>7
  <2> HIDE DEF L
  <2>9. load.ok /\ load.class = v[k].class
    BY <1>3, <2>1, <2>8, SoleIsLoaded DEF load, L
  <2> QED BY <2>3, <2>5, <2>9
<1> HIDE DEF scan, load, k
<1> QED BY <1>1, <1>3 DEF Scan!FileAgrees, scan, load, k, S

-------------------------------------------------------------------------------
(* Drafts: a line of the draft, in the file and back.                       *)

LEMMA OffsetType ==
  ASSUME NEW d, Scan!DraftRead(d)
  PROVE  Scan!BodyOffset(d) \in Nat /\ Scan!BodyOffset(d) >= 1
<1>1. Len(d.rows) \in Nat
  BY SeqView DEF Scan!DraftRead
<1> QED BY <1>1, FilesAreRead DEF Scan!BodyOffset

LEMMA LinesReturn ==
  ASSUME NEW d, Scan!DraftRead(d), NEW l, l \in 1..d.lines, NEW why
  PROVE  Scan!Remap(d, <<Scan!ShiftLine(d, l), why>>) = <<l, why>>
<1> DEFINE o == Scan!BodyOffset(d)
<1>1. o \in Nat /\ o >= 1
  BY OffsetType
<1>2. d.lines \in Nat
  BY DEF Scan!DraftRead
<1> DEFINE s == Scan!ShiftLine(d, l)
<1>3. s = l + o - 1
  BY DEF Scan!ShiftLine
<1> HIDE DEF o, s
<1>4. s \in o..(o + d.lines - 1) /\ s # 0 /\ s - o + 1 = l
  BY <1>1, <1>2, <1>3
<1>5. Scan!Remap(d, <<s, why>>) =
        CASE s = 0 -> <<s, why>>
          [] s \in o..(o + d.lines - 1) -> <<s - o + 1, why>>
          [] OTHER -> <<0, "scaffold">>
  BY DEF Scan!Remap, o
<1> QED BY <1>4, <1>5 DEF s

\* The assembled file: the import, the generated class, and then those of the draft.
Generated(d) == Scan!Assemble(d).body[2]

Named == [id |-> Base, dotted |-> FALSE, outer |-> [kind |-> "unbound", class |-> "none"]]

Imported ==
    [ form |-> "bind", name |-> Base,
      of |-> [id |-> Base, dotted |-> TRUE, outer |-> [kind |-> "base", class |-> Base]] ]

LEMMA AssembledView ==
  ASSUME NEW d, Scan!DraftRead(d), NEW f, f = Scan!Assemble(d)
  PROVE  /\ Scan!FileRead(f) /\ Len(f.body) = Len(d.classes) + 2
         /\ Len(d.classes) \in Nat
         /\ f.body[1] = Imported /\ Generated(d).bases = {Named} /\ f.raises = FALSE
         /\ Generated(d).form = "class" /\ Generated(d).name = "MyStrategy"
         /\ Scan!ContractIssues(Generated(d)) = {}
         /\ Generated(d).indicators =
              {<<8 + i, d.rows[i].indicator>> : i \in DOMAIN d.rows}
                \union {<<Scan!ShiftLine(d, n[1]), n[2]>> : n \in d.named}
         /\ \A i \in 3..Len(f.body) : f.body[i].form = "nested"
         /\ \A i \in 3..Len(f.body) :
               \E l \in 1..d.lines : f.body[i].line = Scan!ShiftLine(d, l)
         /\ f.badLine = Scan!ShiftLine(d, d.badLine)
         /\ \A n \in f.nodes : \E l \in 1..d.lines : n.line = Scan!ShiftLine(d, l)
<1> DEFINE gen == [ form |-> "class", name |-> "MyStrategy", line |-> 5, bases |-> {Named},
                    onData |-> "def", dataLine |-> Scan!BodyOffset(d) - 1,
                    args |-> 2, vararg |-> FALSE, static |-> FALSE, init |-> "none",
                    indicators |-> {<<8 + i, d.rows[i].indicator>> : i \in DOMAIN d.rows}
                       \union {<<Scan!ShiftLine(d, n[1]), n[2]>> : n \in d.named} ]
           moved(c) == [c EXCEPT !.line = Scan!ShiftLine(d, @),
                                 !.dataLine = Scan!ShiftLine(d, @)]
           n == Len(d.classes)
           shifted == [i \in DOMAIN d.classes |-> moved(d.classes[i])]
           T == {Imported, gen} \union {shifted[i] : i \in 1..n}
<1>1. /\ n \in Nat /\ DOMAIN d.classes = 1..n
      /\ \A i \in 1..n : d.classes[i] \in Scan!Range1(d.classes)
  BY SeqView, ScanOperators DEF Scan!DraftRead
<1>2. f.body = <<Imported, gen>> \o shifted
  BY DEF Scan!Assemble, Imported, Named
<1>3. shifted \in Seq(T) /\ Len(shifted) = n
  <2>1. DOMAIN shifted = 1..n /\ \A i \in 1..n : shifted[i] \in T
    BY <1>1
  <2>2. shifted = [i \in 1..n |-> shifted[i]]
    BY <1>1
  <2>3. shifted \in [1..n -> T]
    <3> HIDE DEF shifted, T, n
    <3> QED BY <2>1, <2>2
  <2> HIDE DEF shifted, T, n
  <2> QED BY <1>1, <2>1, <2>3
<1>4. /\ <<Imported, gen>> \in Seq(T) /\ Len(<<Imported, gen>>) = 2
      /\ <<Imported, gen>>[1] = Imported /\ <<Imported, gen>>[2] = gen
  <2>1. gen \in T /\ Imported \in T
    OBVIOUS
  <2> HIDE DEF gen, T
  <2> QED BY <2>1
<1> DEFINE one == <<Imported, gen>>
<1>5. /\ one \o shifted \in Seq(T) /\ Len(one \o shifted) = Len(one) + Len(shifted)
      /\ \A j \in 1..Len(one) : (one \o shifted)[j] = one[j]
      /\ \A j \in 1..Len(shifted) : (one \o shifted)[Len(one) + j] = shifted[j]
  <2> HIDE DEF one, shifted, T
  <2> QED BY <1>3, <1>4, ConcatView DEF one
<1>6. /\ f.body \in Seq(T) /\ Len(f.body) = n + 2
      /\ f.body[1] = Imported /\ f.body[2] = gen
      /\ \A i \in 3..n + 2 : f.body[i] = shifted[i - 2]
  <2> HIDE DEF gen, shifted, T, n
  <2>1. f.body \in Seq(T) /\ Len(f.body) = n + 2
    BY <1>1, <1>2, <1>3, <1>4, <1>5
  <2>2. f.body[1] = Imported /\ f.body[2] = gen
    BY <1>2, <1>4, <1>5
  <2>3. ASSUME NEW i \in 3..n + 2 PROVE f.body[i] = shifted[i - 2]
    <3>1. i - 2 \in 1..n /\ 2 + (i - 2) = i
      BY <1>1
    <3> QED BY <1>2, <1>3, <1>4, <1>5, <3>1
  <2> QED BY <2>1, <2>2, <2>3
<1>15. ASSUME NEW i \in 1..n PROVE shifted[i].form = "nested"
  <2> DEFINE c == d.classes[i]
  <2>1. shifted[i] = moved(c)
    BY <1>1
  <2>2. DOMAIN c = Scan!ClassFields /\ c.form = "nested"
    BY <1>1 DEF Scan!DraftRead
  <2>3. "form" \in DOMAIN c
    BY <2>2 DEF Scan!ClassFields
  <2>4. moved(c).form = c.form
    <3> HIDE DEF c
    <3> QED BY <2>3
  <2> HIDE DEF c, moved, shifted
  <2> QED BY <2>1, <2>2, <2>4
<1>7. Scan!FileRead(f)
  <2> DEFINE cs == f.body
             R == Scan!Range1(cs)
  <2>1. Len(cs) \in Nat /\ DOMAIN cs = 1..Len(cs) /\ cs \in [1..Len(cs) -> T]
    <3> HIDE DEF T
    <3> QED BY <1>6, SeqView
  <2>2. \A i \in 1..Len(cs) : cs[i] \in R
    BY <2>1, ScanOperators
  <2>3. cs \in [1..Len(cs) -> R]
    <3> HIDE DEF cs, R, T
    <3> QED BY <2>1, <2>2
  <2>4. cs \in Seq(R)
    <3> HIDE DEF cs, R, T
    <3> QED BY <2>1, <2>3
  <2>5. \A t \in T : t.form \in {"class", "nested", "bind"}
    <3>1. gen.form = "class" /\ Imported.form = "bind"
      BY DEF Imported
    <3>2. \A i \in 1..n : shifted[i].form = "nested"
      <4> HIDE DEF n, shifted
      <4> QED BY <1>15
    <3> HIDE DEF gen, shifted, n
    <3> QED BY <3>1, <3>2
  <2>6. \A t \in R : t \in T
    <3> HIDE DEF T, cs
    <3> QED BY <2>1, ScanOperators
  <2> QED BY <2>4, <2>5, <2>6 DEF Scan!FileRead
<1>8. Generated(d) = gen
  BY <1>6 DEF Generated
<1>9. gen.bases = {Named} /\ gen.form = "class" /\ gen.name = "MyStrategy"
  OBVIOUS
<1>16. f.raises = FALSE
  BY DEF Scan!Assemble
<1>10. Scan!ContractIssues(gen) = {}
  <2>1. /\ gen.onData = "def" /\ gen.args = 2 /\ gen.static = FALSE /\ gen.vararg = FALSE
    OBVIOUS
  <2> HIDE DEF gen
  <2> QED BY <2>1 DEF Scan!ContractIssues
<1>11. ASSUME NEW i \in 3..Len(f.body)
       PROVE  /\ f.body[i].form = "nested"
              /\ \E l \in 1..d.lines : f.body[i].line = Scan!ShiftLine(d, l)
  <2>1. i - 2 \in 1..n /\ i \in 3..n + 2
    <3> HIDE DEF gen, shifted, T
    <3> QED BY <1>1, <1>6
  <2> DEFINE c == d.classes[i - 2]
  <2>a. shifted[i - 2] = moved(c)
    <3>1. i - 2 \in DOMAIN d.classes
      BY <1>1, <2>1
    <3> QED BY <3>1
  <2>b. f.body[i] = shifted[i - 2]
    <3> HIDE DEF shifted, moved, c, T, gen
    <3> QED BY <1>6, <2>1
  <2>2. f.body[i] = moved(c)
    <3> HIDE DEF shifted, moved, c, T, gen
    <3> QED BY <2>a, <2>b
  <2>3. DOMAIN c = Scan!ClassFields /\ c.line \in 1..d.lines
    BY <1>1, <2>1 DEF Scan!DraftRead
  <2>4. "line" \in DOMAIN c
    BY <2>3 DEF Scan!ClassFields
  <2>5. moved(c).line = Scan!ShiftLine(d, c.line)
    <3> HIDE DEF c
    <3> QED BY <2>4
  <2>6. f.body[i].form = "nested"
    <3> HIDE DEF shifted, n, c
    <3> QED BY <1>15, <2>1, <2>b
  <2> HIDE DEF c, moved
  <2> QED BY <2>2, <2>3, <2>5, <2>6
<1>12. f.badLine = Scan!ShiftLine(d, d.badLine)
  BY DEF Scan!Assemble
<1>13. ASSUME NEW m \in f.nodes
       PROVE  \E l \in 1..d.lines : m.line = Scan!ShiftLine(d, l)
  <2>1. PICK e \in d.nodes : m = [e EXCEPT !.line = Scan!ShiftLine(d, @)]
    BY DEF Scan!Assemble
  <2>2. "line" \in DOMAIN e /\ e.line \in 1..d.lines
    BY DEF Scan!DraftRead
  <2>3. m.line = Scan!ShiftLine(d, e.line)
    BY <2>1, <2>2
  <2> QED BY <2>2, <2>3
<1>14. gen.indicators = {<<8 + i, d.rows[i].indicator>> : i \in DOMAIN d.rows}
                          \union {<<Scan!ShiftLine(d, e[1]), e[2]>> : e \in d.named}
  OBVIOUS
<1> HIDE DEF gen, shifted, T, moved
<1> QED BY <1>1, <1>6, <1>7, <1>8, <1>9, <1>10, <1>11, <1>12, <1>13, <1>14, <1>16

\* Every issue is on a line that came from the draft.
LEMMA DraftIssues ==
  ASSUME NEW d, Scan!DraftRead(d), Scan!DraftAccepted(d),
         NEW x, x \in Scan!Check(Scan!Assemble(d)).issues
  PROVE  \E l \in 1..d.lines : \E why :
            x = <<Scan!ShiftLine(d, l), why>> /\ why # "scaffold"
<1> DEFINE f == Scan!Assemble(d)
           S == Scan!StrategyClasses(f)
           cs == f.body
           gen == Generated(d)
           c == cs[CHOOSE i \in S : \A j \in S : i <= j]
           second == cs[CHOOSE i \in S : \E j \in S : j < i]
           shape == CASE S = {} -> {<<0, "no class">>}
                      [] Scan!Cardinality(S) > 1 -> {<<second.line, "several classes">>}
                      [] OTHER -> Scan!ContractIssues(c) \union Scan!IndicatorIssues(c)
           issues == IF f.parses
                     THEN {<<n.line, "violation">> : n \in Scan!Refused(f)} \union shape
                     ELSE {<<f.badLine, "syntax">>}
<1>1. x \in issues
  <2> HIDE DEF issues, S, f
  <2> QED BY DEF Scan!Check, issues, shape, second, c, cs, S, f
<1>2. /\ Scan!FileRead(f) /\ Len(cs) = Len(d.classes) + 2 /\ Len(d.classes) \in Nat
      /\ cs[1] = Imported /\ gen.bases = {Named} /\ gen.form = "class"
      /\ Scan!ContractIssues(gen) = {}
      /\ gen.indicators =
            {<<8 + i, d.rows[i].indicator>> : i \in DOMAIN d.rows}
              \union {<<Scan!ShiftLine(d, n[1]), n[2]>> : n \in d.named}
      /\ \A i \in 3..Len(cs) : \E l \in 1..d.lines : cs[i].line = Scan!ShiftLine(d, l)
      /\ f.badLine = Scan!ShiftLine(d, d.badLine)
      /\ \A n \in f.nodes : \E l \in 1..d.lines : n.line = Scan!ShiftLine(d, l)
  <2> HIDE DEF f, gen
  <2> QED BY AssembledView DEF f, gen
<1>3. gen = cs[2]
  BY DEF Generated
<1>4. 2 \in S /\ S \subseteq 2..Len(cs)
  <2> DEFINE C == Scan!Classes(f)
             n == Len(cs)
  <2>1. /\ n \in Nat /\ n >= 2 /\ DOMAIN cs = 1..n
        /\ \A i \in 1..n : cs[i].form # "bind" => cs[i] \in C
    <3> HIDE DEF f
    <3> QED BY <1>2, FileView
  <2>2. PICK g : Rounds(g, n, C) /\ Scan!SubclassNames(f) = g[n]
    <3> HIDE DEF f
    <3> QED BY <1>2, NamesGrow
  <2> HIDE DEF f, C, n, gen, cs
  <2>3. g[0] \subseteq g[n]
    <3>1. 0 \in 0..n /\ n \in 0..n /\ 0 <= n
      BY <2>1
    <3> QED BY <2>1, <2>2, <3>1, RoundsGrow
  <2>4. cs[2].name \in DirectNames(C)
    <3>1. cs[2] \in C
      BY <1>2, <1>3, <2>1
    <3>2. Scan!ExtendsBase(cs[2])
      <4>1. Named \in cs[2].bases /\ Named.id = Base
        BY <1>2, <1>3 DEF Named
      <4> QED BY <4>1 DEF Scan!ExtendsBase
    <3> QED BY <3>1, <3>2 DEF DirectNames
  <2>5. cs[2].name \in Scan!SubclassNames(f) /\ 2 \in DOMAIN cs
    BY <2>1, <2>2, <2>3, <2>4 DEF Rounds
  <2>6. 2 \in S
    BY <1>2, <1>3, <2>5 DEF Scan!StrategyClasses, S, cs
  <2>7. 1 \notin S
    BY <1>2 DEF Scan!StrategyClasses, S, cs, Imported
  <2>8. S \subseteq 1..n
    BY <2>1 DEF Scan!StrategyClasses, S, cs
  <2> HIDE DEF S
  <2> QED BY <2>1, <2>6, <2>7, <2>8 DEF n
<1>5. /\ Scan!Cardinality(S) = Cardinality(S) /\ Cardinality(S) \in Nat
      /\ Cardinality(S) = 1 => \E k : S = {k}
      /\ Cardinality(S) = 0 <=> S = {}
      /\ \A k : S = {k} => Cardinality(S) = 1
  <2> HIDE DEF f
  <2> QED BY <1>2, ClassesView DEF S
<1> HIDE DEF f, S, cs, gen
<1>6. CASE ~f.parses
  <2>1. x = <<Scan!ShiftLine(d, d.badLine), "syntax">>
    BY <1>1, <1>2, <1>6
  <2>2. d.badLine \in 1..d.lines
    BY DEF Scan!DraftRead
  <2>3. "syntax" # "scaffold"
    OBVIOUS
  <2> QED BY <2>1, <2>2, <2>3
<1>7. CASE x \in {<<n.line, "violation">> : n \in Scan!Refused(f)}
  <2>1. PICK n \in f.nodes : x = <<n.line, "violation">>
    BY <1>7 DEF Scan!Refused
  <2>2. PICK l \in 1..d.lines : n.line = Scan!ShiftLine(d, l)
    BY <1>2, <2>1
  <2>3. "violation" # "scaffold"
    OBVIOUS
  <2> QED BY <2>1, <2>2, <2>3
<1>8. CASE x \in shape /\ Scan!Cardinality(S) > 1
  <2>1. S # {}
    BY <1>4
  <2>2. x = <<second.line, "several classes">>
    <3> HIDE DEF c, second
    <3> QED BY <1>8, <2>1
  <2>3. \E i \in S : \E j \in S : j < i
    <3>1. S # {2}
      <4> SUFFICES ASSUME S = {2} PROVE FALSE
        OBVIOUS
      <4>1. Scan!Cardinality(S) = 1
        BY <1>5
      <4>2. Scan!Cardinality(S) > 1
        BY <1>8
      <4> QED BY ONLY <4>1, <4>2
    <3>2. PICK i \in S : i # 2
      BY <1>4, <3>1
    <3>3. 2 < i
      BY <1>4, <3>2
    <3> QED BY <1>4, <3>3
  <2> DEFINE i == CHOOSE i \in S : \E j \in S : j < i
  <2>4. i \in S /\ \E j \in S : j < i
    BY <2>3
  <2>5. second = cs[i]
    OBVIOUS
  <2> HIDE DEF i, second
  <2>6. i \in 3..Len(cs)
    BY <1>2, <1>4, <2>4
  <2>7. PICK l \in 1..d.lines : cs[i].line = Scan!ShiftLine(d, l)
    BY <1>2, <2>6
  <2>8. "several classes" # "scaffold"
    OBVIOUS
  <2>9. x = <<Scan!ShiftLine(d, l), "several classes">>
    BY <2>2, <2>5, <2>7
  <2>10. \E why : x = <<Scan!ShiftLine(d, l), why>> /\ why # "scaffold"
    BY ONLY <2>8, <2>9, Zenon
  <2> QED BY ONLY <2>10, <2>7
<1>9. CASE x \in shape /\ ~(Scan!Cardinality(S) > 1)
  <2>1. S # {}
    BY <1>4
  <2>2. S = {2}
    <3> DEFINE m == Cardinality(S)
    <3>1. m \in Nat /\ m # 0 /\ ~(m > 1)
      BY <1>5, <1>9, <2>1
    <3>2. m = 1
      <4> HIDE DEF m
      <4> QED BY <3>1
    <3> QED BY <1>4, <1>5, <3>2
  <2>3. c = gen
    <3>1. (CHOOSE i \in S : \A j \in S : i <= j) = 2
      BY <2>2
    <3> QED BY <1>3, <3>1
  <2> HIDE DEF c, second
  <2>4. x \in Scan!IndicatorIssues(gen)
    BY <1>2, <1>9, <2>1, <2>3
  <2>5. PICK m \in gen.indicators :
          m[2] \notin KnownIndicators /\ x = <<m[1], "no such indicator">>
    BY <2>4 DEF Scan!IndicatorIssues
  <2>6. m \notin {<<8 + i, d.rows[i].indicator>> : i \in DOMAIN d.rows}
    <3> SUFFICES ASSUME NEW i \in DOMAIN d.rows, m = <<8 + i, d.rows[i].indicator>>
                 PROVE  FALSE
      OBVIOUS
    <3>1. d.rows[i].indicator \in KnownIndicators
      BY DEF Scan!DraftAccepted
    <3>2. m[2] = d.rows[i].indicator
      OBVIOUS
    <3> QED BY <2>5, <3>1, <3>2
  <2>7. PICK e \in d.named : m = <<Scan!ShiftLine(d, e[1]), e[2]>>
    BY <1>2, <2>5, <2>6
  <2>8. e[1] \in 1..d.lines /\ x = <<Scan!ShiftLine(d, e[1]), "no such indicator">>
    BY <2>5, <2>7 DEF Scan!DraftRead
  <2>9. "no such indicator" # "scaffold"
    OBVIOUS
  <2> DEFINE l == e[1]
  <2>10. l \in 1..d.lines /\ x = <<Scan!ShiftLine(d, l), "no such indicator">>
    BY <2>8
  <2> HIDE DEF l, shape
  <2>11. \E why : x = <<Scan!ShiftLine(d, l), why>> /\ why # "scaffold"
    BY ONLY <2>9, <2>10, Zenon
  <2> QED BY ONLY <2>10, <2>11
<1>10. f.parses => x \in {<<n.line, "violation">> : n \in Scan!Refused(f)} \/ x \in shape
  <2> HIDE DEF shape
  <2> QED BY <1>1
<1> QED BY <1>6, <1>7, <1>8, <1>9, <1>10

\* The worker finds the generated class, and nothing else.
LEMMA DraftLoads ==
  ASSUME NEW d, Scan!DraftRead(d), NEW f, f = Scan!Assemble(d), f.parses
  PROVE  Scan!Load(f).ok /\ Scan!Load(f).class = "MyStrategy"
<1> DEFINE v == Scan!Values(f)
           n == Len(f.body)
           cs == f.body
<1>1. /\ Scan!FileRead(f) /\ cs[1] = Imported /\ cs[2].bases = {Named} /\ f.raises = FALSE
      /\ cs[2].form = "class" /\ cs[2].name = "MyStrategy"
      /\ \A i \in 3..n : cs[i].form = "nested"
      /\ n = Len(d.classes) + 2 /\ Len(d.classes) \in Nat
  <2>1. cs[2] = Generated(d)
    BY DEF Generated
  <2> HIDE DEF cs, n
  <2> QED BY <2>1, AssembledView DEF cs, n
<1>2. n \in Nat /\ n >= 2 /\ DOMAIN cs = 1..n
  BY <1>1, FileView
<1>3. \A i \in 1..n : i = 1 \/ i = 2 \/ i \in 3..n
  BY <1>2
<1>4. \A i : Scan!Denotes(f, Imported.of, i, v) = [kind |-> "base", class |-> Base]
  BY DEF Scan!Denotes, Scan!Source, Imported
<1>5. v[1].kind = "base"
  <2>1. v[1] = Gives(f, 1, v)
    BY <1>1, <1>2, ValuesView
  <2>2. cs[1].form = "bind" /\ cs[1].of = Imported.of
    BY <1>1 DEF Imported
  <2> QED BY <1>4, <2>1, <2>2 DEF Gives
<1>6. Scan!Denotes(f, Named, 2, v) = v[1]
  <2> DEFINE j == Scan!Bound(f, Base, 2)
  <2>1. 1 \in 1..2 - 1 /\ cs[1].form # "nested" /\ cs[1].name = Base
    BY <1>1 DEF Imported
  <2>2. j \in 0..2 - 1 /\ 1 <= j
    <3>1. 2 \in Nat \ {0}
      OBVIOUS
    <3> HIDE DEF j
    <3> QED BY <2>1, <3>1, BoundView DEF j
  <2>3. j = 1
    <3> HIDE DEF j
    <3> QED BY <2>2
  <2> QED BY <2>3 DEF Scan!Denotes, Scan!Source, Named
<1>7. v[2].kind = "own" /\ v[2].class = "MyStrategy"
  <2>1. 2 \in 1..n /\ cs[2].form # "bind"
    BY <1>1, <1>2
  <2>2. \E b \in cs[2].bases : Scan!Denotes(f, b, 2, v).kind \in Scan!Strategic
    BY <1>1, <1>5, <1>6 DEF Scan!Strategic
  <2> QED BY <1>1, <2>1, <2>2, ClassValueView
<1>8. ~Scan!ImportFails(f)
  <2> SUFFICES ASSUME NEW i \in 1..n
               PROVE  /\ cs[i].form = "class" =>
                           \A b \in cs[i].bases :
                              Scan!Denotes(f, b, i, v).kind \notin {"other", "unbound"}
                      /\ cs[i].form = "bind" => Scan!Denotes(f, cs[i].of, i, v).kind # "unbound"
    BY <1>1, <1>2 DEF Scan!ImportFails
  <2>1. CASE i = 1
    <3>1. cs[1].form = "bind" /\ cs[1].of = Imported.of
      BY <1>1 DEF Imported
    <3> QED BY <1>4, <2>1, <3>1
  <2>2. CASE i = 2
    BY <1>1, <1>5, <1>6, <2>2
  <2>3. CASE i \in 3..n
    BY <1>1, <2>3
  <2> QED BY <1>3, <2>1, <2>2, <2>3
<1>9. Scan!Bound(f, "MyStrategy", n + 1) = 2
  <2> DEFINE m == n + 1
             j == Scan!Bound(f, "MyStrategy", m)
  <2>1. m \in Nat \ {0} /\ 2 \in 1..m - 1 /\ m - 1 = n
    BY <1>2
  <2> HIDE DEF m, n
  <2>2. j \in 0..n /\ (j > 0 => cs[j].form # "nested") /\ 2 <= j
    BY <1>1, <2>1, BoundView
  <2> HIDE DEF j
  <2>3. j \in 1..n /\ j \notin 3..n
    BY <1>1, <1>2, <2>2
  <2>4. j = 2
    BY <1>3, <2>2, <2>3
  <2> QED BY <2>4 DEF j, m
<1>10. Scan!Candidates(f) = {2}
  <2>1. 2 \in Scan!Candidates(f)
    BY <1>1, <1>2, <1>7, <1>9 DEF Scan!Candidates
  <2>2. ASSUME NEW i \in Scan!Candidates(f) PROVE i = 2
    <3>1. i \in 1..n /\ cs[i].form # "nested" /\ v[i].kind = "own"
      BY <1>2 DEF Scan!Candidates
    <3> QED BY <1>1, <1>3, <1>5, <3>1
  <2> QED BY <2>1, <2>2
<1> QED BY <1>7, <1>8, <1>10, SoleIsLoaded

LEMMA DraftsAgree ==
  ASSUME NEW d, Scan!DraftRead(d)
  PROVE  Scan!DraftAgrees(d, MaxLines)
<1> DEFINE f == Scan!Assemble(d)
           report == Scan!Check(f)
<1>0. SUFFICES ASSUME Scan!DraftAccepted(d)
               PROVE  /\ ~d.escapes /\ Scan!BodyOffset(d) + d.lines - 1 <= MaxLines =>
                            (Scan!CheckDraft(d).compatible =>
                                /\ Scan!SubmitDraft(d, MaxLines).ok
                                /\ Scan!Load(f).ok /\ Scan!Load(f).class = "MyStrategy")
                      /\ \A issue \in Scan!CheckDraft(d).issues :
                            issue[2] # "scaffold" /\ issue[1] \in 1..d.lines
  BY DEF Scan!DraftAgrees
<1>1. /\ Scan!CheckDraft(d).compatible = report.compatible
      /\ Scan!CheckDraft(d).issues = {Scan!Remap(d, i) : i \in report.issues}
  <2>1. "compatible" \in DOMAIN report /\ "issues" \in DOMAIN report /\ "warnings" \in DOMAIN report
    BY DEF Scan!Check
  <2> HIDE DEF report
  <2> QED BY <2>1 DEF Scan!CheckDraft, report
<1>2. Scan!FileRead(f)
  BY AssembledView
<1>3. ASSUME ~d.escapes, Scan!BodyOffset(d) + d.lines - 1 <= MaxLines, report.compatible
      PROVE  /\ Scan!SubmitDraft(d, MaxLines).ok
             /\ Scan!Load(f).ok /\ Scan!Load(f).class = "MyStrategy"
  <2>1. Scan!Scan(f).ok
    <3> HIDE DEF f
    <3> QED BY <1>2, <1>3, CleanIsTaken
  <2>2. Scan!SubmitDraft(d, MaxLines) = Scan!Scan(f)
    <3>1. ~(Scan!BodyOffset(d) + d.lines - 1 > MaxLines)
      <4>1. Scan!BodyOffset(d) + d.lines - 1 \in Int
        BY OffsetType DEF Scan!DraftRead
      <4> DEFINE k == Scan!BodyOffset(d) + d.lines - 1
      <4>2. k \in Int /\ MaxLines \in Int /\ k <= MaxLines
        BY <1>3, <4>1, FilesAreRead
      <4>3. ~(k > MaxLines)
        <5> HIDE DEF k
        <5> QED BY ONLY <4>2
      <4> QED BY <4>3
    <3> QED BY <1>3, <3>1 DEF Scan!SubmitDraft
  <2>3. f.parses
    <3> HIDE DEF f
    <3> QED BY <2>1 DEF Scan!Scan
  <2>4. Scan!Load(f).ok /\ Scan!Load(f).class = "MyStrategy"
    <3> HIDE DEF f
    <3> QED BY <2>3, DraftLoads DEF f
  <2> HIDE DEF f
  <2> QED BY <2>1, <2>2, <2>4
<1>4. ASSUME NEW issue \in Scan!CheckDraft(d).issues
      PROVE  issue[2] # "scaffold" /\ issue[1] \in 1..d.lines
  <2>1. PICK i \in report.issues : issue = Scan!Remap(d, i)
    <3> HIDE DEF report
    <3> QED BY <1>1, <1>4
  <2> DEFINE At(l) == \E why : i = <<Scan!ShiftLine(d, l), why>> /\ why # "scaffold"
  <2>a. \E l \in 1..d.lines : At(l)
    BY <1>0, <2>1, DraftIssues
  <2> HIDE DEF At
  <2>b. PICK l \in 1..d.lines : At(l)
    BY <2>a
  <2>2. PICK why : i = <<Scan!ShiftLine(d, l), why>> /\ why # "scaffold"
    BY <2>b DEF At
  <2>3. issue = <<l, why>>
    BY <2>1, <2>2, LinesReturn
  <2> QED BY <2>2, <2>3
<1> HIDE DEF report
<1> QED BY <1>1, <1>3, <1>4

-------------------------------------------------------------------------------
(* Fast mode: what is computed for a day reads no later close.              *)

Price == Int \union {Missing}

\* Two columns with the same first n closes.
Agree(c, q, n) ==
    /\ c \in Seq(Price) /\ q \in Seq(Price) /\ n \in Nat /\ n <= Len(c) /\ n <= Len(q)
    /\ \A j \in 1..n : c[j] = q[j]

LEMMA AgreeEarlier ==
  ASSUME NEW c, NEW q, NEW n, Agree(c, q, n), NEW i, i \in 1..n
  PROVE  /\ Agree(c, q, i) /\ c[i] = q[i] /\ i \in Nat \ {0}
         /\ \A j \in 1..i : c[j] = q[j]
  BY DEF Agree

LEMMA CardinalityIs ==
  ASSUME NEW S
  PROVE  Fast!Cardinality(S) = Cardinality(S)
  BY DEF Fast!Cardinality, Cardinality, Fast!IsFiniteSet, IsFiniteSet

LEMMA ChangesAgree ==
  ASSUME NEW c, NEW q, NEW i, Agree(c, q, i), i > 0, NEW k, k \in Nat
  PROVE  /\ Fast!Change(c, i, k) = Fast!Change(q, i, k)
         /\ Fast!Return(c, i) = Fast!Return(q, i)
<1>1. ASSUME NEW d \in Nat PROVE Fast!Change(c, i, d) = Fast!Change(q, i, d)
  <2>1. CASE i <= d
    BY <2>1 DEF Fast!Change
  <2>2. CASE ~(i <= d)
    <3>1. i \in 1..i /\ i - d \in 1..i
      BY <2>2 DEF Agree
    <3>2. c[i] = q[i] /\ c[i - d] = q[i - d]
      BY <3>1 DEF Agree
    <3> QED BY <3>2 DEF Fast!Change
  <2> QED BY <2>1, <2>2
<1> QED BY <1>1 DEF Fast!Return

\* The last w closes up to day i.
SameWindow(c, q, i, w) ==
    /\ c[i - w + 1] = q[i - w + 1]
    /\ SubSeq(c, i - w + 1, i) = SubSeq(q, i - w + 1, i)

LEMMA WindowsAgree ==
  ASSUME NEW c, NEW q, NEW i, Agree(c, q, i), NEW w, w \in Nat \ {0}, w <= i
  PROVE  SameWindow(c, q, i, w)
<1> DEFINE from == i - w + 1
<1>1. from \in Nat \ {0} /\ from \in 1..i /\ i \in Nat /\ i - from + 1 = w /\ from <= i + 1
  BY DEF Agree
<1> HIDE DEF from
<1>2. /\ SubSeq(c, from, i) \in Seq(Price) /\ Len(SubSeq(c, from, i)) = i - from + 1
      /\ \A j \in 1..i - from + 1 : SubSeq(c, from, i)[j] = c[from - 1 + j]
  BY <1>1, SubSeqView DEF Agree
<1>3. /\ SubSeq(q, from, i) \in Seq(Price) /\ Len(SubSeq(q, from, i)) = i - from + 1
      /\ \A j \in 1..i - from + 1 : SubSeq(q, from, i)[j] = q[from - 1 + j]
  BY <1>1, SubSeqView DEF Agree
<1>4. ASSUME NEW j \in 1..i - from + 1
      PROVE  SubSeq(c, from, i)[j] = SubSeq(q, from, i)[j]
  <2>1. from - 1 + j \in 1..i
    BY <1>1
  <2> QED BY <1>2, <1>3, <2>1 DEF Agree
<1> DEFINE a == SubSeq(c, from, i)
           b == SubSeq(q, from, i)
<1>5. a = b
  <2> HIDE DEF a, b
  <2>1. Len(a) = Len(b) /\ Len(a) = i - from + 1 /\ a \in Seq(Price) /\ b \in Seq(Price)
    BY <1>2, <1>3 DEF a, b
  <2>2. \A j \in 1..Len(b) : a[j] = b[j]
    BY <1>4, <2>1 DEF a, b
  <2> QED BY <2>1, <2>2, SameSequence
<1> QED BY <1>1, <1>5 DEF Agree, SameWindow, from

LEMMA MeansAgree ==
  ASSUME NEW c, NEW q, NEW i, Agree(c, q, i), NEW w, w \in Nat \ {0}
  PROVE  Fast!Mean(c, i, w) = Fast!Mean(q, i, w)
<1>1. CASE i < w
  BY <1>1 DEF Fast!Mean
<1>2. CASE ~(i < w)
  <2>1. w <= i
    BY <1>2 DEF Agree
  <2>2. SameWindow(c, q, i, w)
    BY <2>1, WindowsAgree
  <2> QED BY <2>2 DEF Fast!Mean, SameWindow
<1> QED BY <1>1, <1>2

LEMMA SpreadsAgree ==
  ASSUME NEW c, NEW q, NEW i, Agree(c, q, i), NEW w, w \in Nat \ {0}
  PROVE  Fast!Spread(c, i, w) = Fast!Spread(q, i, w)
<1>1. CASE i <= w
  BY <1>1 DEF Fast!Spread
<1>2. CASE ~(i <= w)
  <2>1. i - w \in 1..i /\ i \in Nat
    BY <1>2 DEF Agree
  <2>2. c[i - w] = q[i - w]
    BY <2>1 DEF Agree
  <2>3. ASSUME NEW j \in 1..w PROVE Fast!Change(c, i - w + j, 1) = Fast!Change(q, i - w + j, 1)
    <3> DEFINE k == i - w + j
    <3>1. k \in 1..i /\ k > 0
      BY <2>1
    <3> HIDE DEF k
    <3>2. Agree(c, q, k)
      BY <3>1, AgreeEarlier
    <3>3. Fast!Change(c, k, 1) = Fast!Change(q, k, 1)
      BY <3>1, <3>2, ChangesAgree
    <3> QED BY <3>3 DEF k
  <2> DEFINE r(s) == [j \in 1..w |-> Fast!Change(s, i - w + j, 1)]
             V(s) == w * Fast!Total([j \in 1..w |-> r(s)[j] * r(s)[j]])
                       - Fast!Total(r(s)) * Fast!Total(r(s))
  <2>4. r(c) = r(q)
    BY <2>3
  <2>5. /\ Fast!Spread(c, i, w) = IF c[i - w] = Missing THEN Missing ELSE V(c)
        /\ Fast!Spread(q, i, w) = IF q[i - w] = Missing THEN Missing ELSE V(q)
    BY <1>2 DEF Fast!Spread
  <2>6. V(c) = V(q)
    <3> HIDE DEF r
    <3> QED BY <2>4
  <2> HIDE DEF V
  <2> QED BY <2>2, <2>5, <2>6
<1> QED BY <1>1, <1>2

\* What StrengthAt makes of the n changes of a column.
StrengthOf(changes, n, period) ==
    LET ewm(s) == LET mean[j \in 1..Len(s)] == IF j = 1 THEN Fast!Frac(s[1], 1)
                                                ELSE Fast!Wilder(mean[j - 1], s[j], period)
                  IN  mean[Len(s)]
        loss == ewm([j \in DOMAIN changes |-> Fast!Positive(-changes[j])])
    IN  IF n < period \/ loss.n = 0 THEN Fast!Frac(50, 1)
        ELSE Fast!Strength(ewm([j \in DOMAIN changes |-> Fast!Positive(changes[j])]), loss)

Unpriced(c, i) == {j \in 1..i : c[j] = Missing}

LEMMA UnpricedDays ==
  ASSUME NEW i, i \in Nat, NEW c
  PROVE  Fast!Cardinality(Unpriced(c, i)) \in Nat
<1>1. IsFiniteSet(Unpriced(c, i))
  <2>1. Unpriced(c, i) \in SUBSET (1..i) /\ IsFiniteSet(1..i)
    BY FS_Interval DEF Unpriced
  <2> QED BY <2>1, FS_Subset
<1> QED BY <1>1, CardinalityIs, FS_CardinalityType

LEMMA StrengthsAgree ==
  ASSUME NEW c, NEW q, NEW i, Agree(c, q, i), NEW period, NEW k, k \in Nat
  PROVE  Fast!StrengthAt(c, i, period, k) = Fast!StrengthAt(q, i, period, k)
<1> DEFINE lead(s) == Fast!Cardinality(Unpriced(s, i)) + k
           changes(s) == [j \in 1..(i - lead(s)) |-> s[lead(s) + j] - s[lead(s) + j - k]]
<1>1. lead(c) = lead(q)
  BY DEF Agree, Unpriced
<1>2. i \in Nat
  BY DEF Agree
<1> DEFINE l == lead(q)
<1>3. \A j \in 1..(i - l) : l + j \in 1..i /\ l + j - k \in 1..i
  <2> DEFINE u == Fast!Cardinality(Unpriced(q, i))
  <2>1. u \in Nat
    BY <1>2, UnpricedDays
  <2>2. l = u + k
    OBVIOUS
  <2> HIDE DEF u, l
  <2> QED BY <1>2, <2>1, <2>2
<1>5. changes(c) = changes(q)
  <2> HIDE DEF lead
  <2>1. \A j \in 1..(i - l) : c[l + j] = q[l + j] /\ c[l + j - k] = q[l + j - k]
    BY <1>3 DEF Agree
  <2> QED BY <1>1, <2>1
<1>4. ASSUME NEW s
      PROVE  Fast!StrengthAt(s, i, period, k) = StrengthOf(changes(s), i - lead(s), period)
  BY DEF Fast!StrengthAt, StrengthOf, Unpriced
<1> HIDE DEF changes, lead
<1> QED BY <1>1, <1>4, <1>5

\* The windows of the adapters.
LEMMA WindowsArePositive ==
  /\ Win.fast \in Nat \ {0} /\ Win.slow \in Nat \ {0} /\ Win.shift \in Nat \ {0}
  /\ Win.rsi \in Nat \ {0} /\ Win.momentum \in Nat \ {0} /\ Win.vol \in Nat \ {0}
  /\ Win.jump \in Nat \ {0}
  BY LimitsArePositive

LEMMA ShiftedMeansAgree ==
  ASSUME NEW c, NEW q, NEW i, Agree(c, q, i), i > Win.shift, NEW w, w \in Nat \ {0}
  PROVE  Fast!Mean(c, i - Win.shift, w) = Fast!Mean(q, i - Win.shift, w)
<1> DEFINE k == i - Win.shift
<1>1. k \in 1..i
  BY WindowsArePositive DEF Agree
<1> HIDE DEF k
<1>2. Agree(c, q, k)
  BY <1>1, AgreeEarlier
<1>3. Fast!Mean(c, k, w) = Fast!Mean(q, k, w)
  BY <1>2, MeansAgree
<1> QED BY <1>3 DEF k

LEMMA MomentumAgrees ==
  ASSUME NEW c, NEW q, NEW i, Agree(c, q, i)
  PROVE  /\ Fast!MomentumEntry(c, i) <=> Fast!MomentumEntry(q, i)
         /\ Fast!MomentumExit(c, i) <=> Fast!MomentumExit(q, i)
<1>1. /\ Fast!Mean(c, i, Win.slow) = Fast!Mean(q, i, Win.slow)
      /\ Fast!Mean(c, i, Win.fast) = Fast!Mean(q, i, Win.fast)
  BY WindowsArePositive, MeansAgree
<1>2. i > Win.shift => Fast!Mean(c, i - Win.shift, Win.fast) = Fast!Mean(q, i - Win.shift, Win.fast)
  BY WindowsArePositive, ShiftedMeansAgree
<1>3. /\ Fast!StrengthAt(c, i, Win.rsi, 1) = Fast!StrengthAt(q, i, Win.rsi, 1)
      /\ Fast!StrengthAt(c, i, Win.rsi, Win.momentum) = Fast!StrengthAt(q, i, Win.rsi, Win.momentum)
  BY WindowsArePositive, StrengthsAgree
<1>4. Fast!Bullish(c, i) <=> Fast!Bullish(q, i)
  BY <1>1, <1>2 DEF Fast!Bullish
<1>5. Fast!Bearish(c, i) <=> Fast!Bearish(q, i)
  BY <1>1, <1>2 DEF Fast!Bearish
<1>6. Fast!MomentumEntry(c, i) <=> Fast!MomentumEntry(q, i)
  BY <1>3, <1>4 DEF Fast!MomentumEntry
<1>7. Fast!MomentumExit(c, i) <=> Fast!MomentumExit(q, i)
  BY <1>3, <1>5, <1>6 DEF Fast!MomentumExit
<1> QED BY <1>6, <1>7

LEMMA VolatilityAgrees ==
  ASSUME NEW c, NEW q, NEW i, Agree(c, q, i), i > 0
  PROVE  /\ Fast!VolEntry(c, i) <=> Fast!VolEntry(q, i)
         /\ Fast!VolExit(c, i) <=> Fast!VolExit(q, i)
<1>1. /\ Fast!Change(c, i, Win.vol) = Fast!Change(q, i, Win.vol)
      /\ Fast!Spread(c, i, Win.vol) = Fast!Spread(q, i, Win.vol)
  BY WindowsArePositive, ChangesAgree, SpreadsAgree
<1>2. Fast!BeyondThreshold(c, i) <=> Fast!BeyondThreshold(q, i)
  BY <1>1 DEF Fast!BeyondThreshold
<1> QED BY <1>1, <1>2 DEF Fast!VolEntry, Fast!VolExit

LEMMA StretchAgrees ==
  ASSUME NEW c, NEW q, NEW i, Agree(c, q, i), i > 0
  PROVE  /\ Fast!Stretched(c, i) <=> Fast!Stretched(q, i)
         /\ Fast!Below(c, i) <=> Fast!Below(q, i)
         /\ \A sign : Fast!Jump(c, i, sign) <=> Fast!Jump(q, i, sign)
<1>1. /\ Fast!Mean(c, i, Win.vol) = Fast!Mean(q, i, Win.vol)
      /\ Fast!Spread(c, i, Win.vol) = Fast!Spread(q, i, Win.vol)
      /\ Fast!Change(c, i, Win.jump) = Fast!Change(q, i, Win.jump)
  BY WindowsArePositive, ChangesAgree, SpreadsAgree, MeansAgree
<1>2. c[i] = q[i] /\ i \in Nat
  BY DEF Agree
<1>3. Fast!Stretched(c, i) <=> Fast!Stretched(q, i)
  <2>1. CASE Win.vol <= i
    <3>1. SameWindow(c, q, i, Win.vol)
      BY <2>1, WindowsArePositive, WindowsAgree
    <3> QED BY <1>1, <1>2, <3>1 DEF Fast!Stretched, SameWindow
  <2>2. CASE i < Win.vol
    <3>1. Fast!Spread(c, i, Win.vol) = Missing /\ Fast!Spread(q, i, Win.vol) = Missing
      BY <1>2, <2>2, WindowsArePositive DEF Fast!Spread
    <3> QED BY <3>1 DEF Fast!Stretched
  <2> QED BY <1>2, <2>1, <2>2, WindowsArePositive
<1>4. Fast!Below(c, i) <=> Fast!Below(q, i)
  BY <1>1, <1>2 DEF Fast!Below
<1>5. ASSUME NEW sign PROVE Fast!Jump(c, i, sign) <=> Fast!Jump(q, i, sign)
  BY <1>1 DEF Fast!Jump
<1> QED BY <1>3, <1>4, <1>5

\* Two matrices with the same first n rows.
AgreeAll(m, k, n) == DOMAIN m = DOMAIN k /\ \A t \in DOMAIN m : Agree(m[t], k[t], n)

LEMMA RegimeAgrees ==
  ASSUME NEW m, NEW k, NEW i, AgreeAll(m, k, i), i > 0, NEW t, t \in DOMAIN m
  PROVE  /\ Fast!RegimeEntry(m, t, i) <=> Fast!RegimeEntry(k, t, i)
         /\ Fast!RegimeExit(m, t, i) <=> Fast!RegimeExit(k, t, i)
<1>1. Agree(m[t], k[t], i)
  BY DEF AgreeAll
<1>2. Fast!HighVolatility(m, i) <=> Fast!HighVolatility(k, i)
  <2>1. Vix \in DOMAIN m => m[Vix][i] = k[Vix][i]
    <3>1. ASSUME Vix \in DOMAIN m PROVE m[Vix][i] = k[Vix][i]
      <4>1. Agree(m[Vix], k[Vix], i)
        BY <3>1 DEF AgreeAll
      <4> QED BY <4>1 DEF Agree
    <3> QED BY <3>1
  <2> QED BY <2>1 DEF Fast!HighVolatility, AgreeAll
<1>3. /\ Fast!Stretched(m[t], i) <=> Fast!Stretched(k[t], i)
      /\ Fast!Below(m[t], i) <=> Fast!Below(k[t], i)
      /\ Fast!Jump(m[t], i, 1) <=> Fast!Jump(k[t], i, 1)
      /\ Fast!Jump(m[t], i, -1) <=> Fast!Jump(k[t], i, -1)
  BY <1>1, StretchAgrees
<1> QED BY <1>2, <1>3 DEF Fast!RegimeEntry, Fast!RegimeExit

LEMMA RotationAgrees ==
  ASSUME NEW m, NEW k, NEW i, AgreeAll(m, k, i), NEW t, t \in DOMAIN m, NEW order
  PROVE  Fast!Rotated(m, order, t, i) <=> Fast!Rotated(k, order, t, i)
<1> DEFINE off == Fast!OffColumns(m, order)
           up(f, S) == {s \in S : Fast!TrendUp(f[s], i)}
           riskOn(f) == Fast!Cardinality(up(f, DOMAIN m \ off)) >= Fast!Cardinality(up(f, off))
<1>1. ASSUME NEW s \in DOMAIN m PROVE Fast!TrendUp(m[s], i) <=> Fast!TrendUp(k[s], i)
  <2>1. Agree(m[s], k[s], i)
    BY DEF AgreeAll
  <2>2. /\ Fast!Mean(m[s], i, Win.slow) = Fast!Mean(k[s], i, Win.slow)
        /\ Fast!Mean(m[s], i, Win.fast) = Fast!Mean(k[s], i, Win.fast)
    BY <2>1, WindowsArePositive, MeansAgree
  <2> QED BY <2>2 DEF Fast!TrendUp
<1>2. off \subseteq DOMAIN m /\ Fast!OffColumns(k, order) = off
  BY DEF AgreeAll, Fast!OffColumns
<1> HIDE DEF off
<1>3. up(m, DOMAIN m \ off) = up(k, DOMAIN m \ off)
  BY <1>1
<1>4. up(m, off) = up(k, off)
  BY <1>1, <1>2
<1> HIDE DEF up
<1>5. riskOn(m) <=> riskOn(k)
  BY <1>3, <1>4
<1>6. /\ Fast!Rotated(m, order, t, i) <=> (Fast!TrendUp(m[t], i) /\ (t \notin off <=> riskOn(m)))
      /\ Fast!Rotated(k, order, t, i) <=> (Fast!TrendUp(k[t], i) /\ (t \notin off <=> riskOn(k)))
  BY <1>2 DEF Fast!Rotated, AgreeAll, off, up
<1> HIDE DEF riskOn
<1> QED BY <1>1, <1>5, <1>6

LEMMA ActiveAgrees ==
  ASSUME NEW m, NEW k, NEW n, AgreeAll(m, k, n), NEW i, i \in 1..n,
         NEW order, NEW a, a \in Fast!Adapters
  PROVE  Fast!Active(a, m, order, i) = Fast!Active(a, k, order, i)
<1>1. ASSUME NEW j \in 1..i
      PROVE  AgreeAll(m, k, j) /\ j > 0 /\ \A t \in DOMAIN m : Agree(m[t], k[t], j)
  <2>1. ASSUME NEW t \in DOMAIN m PROVE Agree(m[t], k[t], j) /\ j > 0
    <3>1. Agree(m[t], k[t], n)
      BY DEF AgreeAll
    <3>2. j \in 1..n
      BY <3>1 DEF Agree
    <3> QED BY <3>1, <3>2, AgreeEarlier
  <2> QED BY <2>1 DEF AgreeAll
<1>2. DOMAIN m = DOMAIN k
  BY DEF AgreeAll
<1>3. ASSUME NEW t \in DOMAIN m, NEW j \in 1..i
      PROVE  /\ Fast!MomentumEntry(m[t], j) <=> Fast!MomentumEntry(k[t], j)
             /\ Fast!MomentumExit(m[t], j) <=> Fast!MomentumExit(k[t], j)
             /\ Fast!VolEntry(m[t], j) <=> Fast!VolEntry(k[t], j)
             /\ Fast!VolExit(m[t], j) <=> Fast!VolExit(k[t], j)
             /\ Fast!RegimeEntry(m, t, j) <=> Fast!RegimeEntry(k, t, j)
             /\ Fast!RegimeExit(m, t, j) <=> Fast!RegimeExit(k, t, j)
  BY <1>1, MomentumAgrees, VolatilityAgrees, RegimeAgrees
<1>4. ASSUME NEW t \in DOMAIN m
      PROVE  Fast!Rotated(m, order, t, i) <=> Fast!Rotated(k, order, t, i)
  <2>1. i \in 1..i
    BY DEF AgreeAll, Agree
  <2>2. AgreeAll(m, k, i)
    BY <1>1, <2>1
  <2> QED BY <2>2, RotationAgrees
<1>5. ASSUME NEW t \in DOMAIN m
      PROVE  /\ {j \in 1..i : Fast!MomentumEntry(m[t], j)}
                  = {j \in 1..i : Fast!MomentumEntry(k[t], j)}
             /\ {j \in 1..i : Fast!MomentumExit(m[t], j)}
                  = {j \in 1..i : Fast!MomentumExit(k[t], j)}
             /\ {j \in 1..i : Fast!VolEntry(m[t], j)} = {j \in 1..i : Fast!VolEntry(k[t], j)}
             /\ {j \in 1..i : Fast!VolExit(m[t], j)} = {j \in 1..i : Fast!VolExit(k[t], j)}
             /\ {j \in 1..i : Fast!RegimeEntry(m, t, j)} = {j \in 1..i : Fast!RegimeEntry(k, t, j)}
             /\ {j \in 1..i : Fast!RegimeExit(m, t, j)} = {j \in 1..i : Fast!RegimeExit(k, t, j)}
  BY <1>3
<1>6. CASE a = "MomentumStrategy"
  BY <1>2, <1>5, <1>6 DEF Fast!Active
<1>7. CASE a = "VolMomentum"
  BY <1>2, <1>5, <1>7 DEF Fast!Active
<1>8. CASE a = "RegimeAdaptiveStrategy"
  BY <1>2, <1>5, <1>8 DEF Fast!Active
<1>9. CASE a = "TrendRotateStrategy"
  BY <1>2, <1>4, <1>9 DEF Fast!Active
<1> QED BY <1>6, <1>7, <1>8, <1>9 DEF Fast!Adapters

\* A matrix: columns of one length.
Matrix(m, n) ==
    n \in Nat /\ DOMAIN m # {} /\ \A t \in DOMAIN m : m[t] \in Seq(Price) /\ Len(m[t]) = n

LEMMA RowsOfMatrix ==
  ASSUME NEW m, NEW n, Matrix(m, n)
  PROVE  Fast!Rows(m) = 1..n
  BY DEF Matrix, Fast!Rows

LEMMA PositionsView ==
  ASSUME NEW m, NEW n, Matrix(m, n), NEW a, a \in Fast!Adapters, NEW order
  PROVE  \A i \in 1..n : Fast!Positions(a, m, order)[i] = Fast!Active(a, m, order, i)
<1> DEFINE q == [i \in 1..n |-> Fast!Active(a, m, order, i)]
           S == {q[i] : i \in 1..n}
<1>1. q \in [1..n -> S] /\ n \in Nat
  BY DEF Matrix
<1>2. q \in Seq(S)
  <2> HIDE DEF q, S
  <2> QED BY <1>1
<1>3. <<>> \o q = q
  <2> HIDE DEF q
  <2> QED BY <1>2
<1>4. Fast!Positions(a, m, order) = q
  BY <1>3, RowsOfMatrix DEF Fast!Positions
<1> HIDE DEF q
<1>5. \A i \in 1..n : q[i] = Fast!Active(a, m, order, i)
  BY DEF q
<1> QED BY <1>4, <1>5

LEMMA GrowthIs ==
  ASSUME NEW n, n \in Nat, NEW first, first \in 1..n, NEW m, NEW k, NEW p, NEW r,
         \A i \in first..n :
            Fast!StrategyReturn(m, p, i, first) = Fast!StrategyReturn(k, r, i, first)
  PROVE  Fast!Growth(m, p, first, n) = Fast!Growth(k, r, first, n)
<1>6. ASSUME NEW j \in 1..(n - first + 1)
      PROVE  Fast!StrategyReturn(m, p, first + j - 1, first)
               = Fast!StrategyReturn(k, r, first + j - 1, first)
  <2>1. first + j - 1 \in first..n
    OBVIOUS
  <2> QED BY <2>1
<1> DEFINE u == [j \in 1..(n - first + 1) |->
                   Scale * Shares + Fast!StrategyReturn(m, p, first + j - 1, first)]
           v == [j \in 1..(n - first + 1) |->
                   Scale * Shares + Fast!StrategyReturn(k, r, first + j - 1, first)]
           product(s) == Fast!FoldFunction(LAMBDA x, y : x * y, 1, s)
<1>7. u = v
  BY <1>6
<1>8. /\ Fast!Growth(m, p, first, n) = product(u)
      /\ Fast!Growth(k, r, first, n) = product(v)
  BY DEF Fast!Growth
<1>9. product(u) = product(v)
  <2> HIDE DEF u, v
  <2> QED BY <1>7
<1> HIDE DEF product, u, v
<1> QED BY <1>8, <1>9

LEMMA GrowthAgrees ==
  ASSUME NEW m, NEW k, NEW n, AgreeAll(m, k, n), DOMAIN m # {},
         NEW p, NEW r, \A i \in 1..n : p[i] = r[i],
         NEW first, first \in 1..n
  PROVE  Fast!Growth(m, p, first, n) = Fast!Growth(k, r, first, n)
<1>1. DOMAIN m = DOMAIN k /\ n \in Nat
  BY DEF AgreeAll, Agree
<1>2. ASSUME NEW i \in 1..n
      PROVE  /\ Fast!Held(p, i) = Fast!Held(r, i)
             /\ p[i] = r[i] /\ (i # 1 => p[i - 1] = r[i - 1])
  BY <1>1 DEF Fast!Held
<1>3. ASSUME NEW i \in 1..n, NEW t \in DOMAIN m
      PROVE  Fast!Return(m[t], i) = Fast!Return(k[t], i)
  <2>1. Agree(m[t], k[t], i) /\ i > 0
    BY AgreeEarlier DEF AgreeAll
  <2> QED BY <2>1, ChangesAgree
<1>4. ASSUME NEW i \in 1..n PROVE Fast!Gross(m, p, i) = Fast!Gross(k, r, i)
  <2> DEFINE u == [t \in DOMAIN m |-> Fast!Weight(Fast!Held(p, i), t) * Fast!Return(m[t], i)]
             v == [t \in DOMAIN k |-> Fast!Weight(Fast!Held(r, i), t) * Fast!Return(k[t], i)]
  <2>1. u = v
    BY <1>1, <1>2, <1>3
  <2>2. Fast!Gross(m, p, i) = Fast!SumFunction(u) /\ Fast!Gross(k, r, i) = Fast!SumFunction(v)
    BY DEF Fast!Gross
  <2> HIDE DEF u, v
  <2> QED BY <2>1, <2>2
<1>5. ASSUME NEW i \in first..n
      PROVE  Fast!Turnover(m, p, i, first) = Fast!Turnover(k, r, i, first)
  <2>1. CASE i = first
    BY <2>1 DEF Fast!Turnover
  <2>2. CASE i # first
    <3>1. i \in 1..n /\ i # 1
      BY <1>1, <2>2
    <3> DEFINE u == [t \in DOMAIN m |-> Fast!Abs(Fast!Weight(p[i], t) - Fast!Weight(p[i - 1], t))]
               v == [t \in DOMAIN k |-> Fast!Abs(Fast!Weight(r[i], t) - Fast!Weight(r[i - 1], t))]
    <3>2. u = v
      BY <1>1, <1>2, <3>1
    <3>3. /\ Fast!Turnover(m, p, i, first) = Fast!SumFunction(u)
          /\ Fast!Turnover(k, r, i, first) = Fast!SumFunction(v)
      BY <2>2 DEF Fast!Turnover
    <3> HIDE DEF u, v
    <3> QED BY <3>2, <3>3
  <2> QED BY <2>1, <2>2
<1>6. \A i \in first..n : Fast!StrategyReturn(m, p, i, first) = Fast!StrategyReturn(k, r, i, first)
  <2>1. \A i \in first..n : i \in 1..n
    BY <1>1
  <2> QED BY <1>4, <1>5, <2>1 DEF Fast!StrategyReturn
<1> QED BY <1>1, <1>6, GrowthIs

LEMMA FastSums ==
  ASSUME NEW f
  PROVE  Fast!SumFunction(f) = SumFunction(f)
  BY DEF Fast!SumFunction, Fast!SumFunctionOnSet, Fast!FoldFunctionOnSet,
         Fast!MapThenFoldSet, SumFunction, SumFunctionOnSet, FoldFunctionOnSet, MapThenFoldSet

LEMMA LastCloseView ==
  ASSUME NEW i, i \in Nat, NEW c
  PROVE  LET known == {j \in 1..i : c[j] # Missing}
         IN  \/ known = {} /\ Fast!LastClose(c, i) = Missing
             \/ \E j \in known : (\A k \in known : k <= j) /\ Fast!LastClose(c, i) = c[j]
<1> DEFINE known == {j \in 1..i : c[j] # Missing}
           l == CHOOSE j \in known : \A k \in known : k <= j
<1>1. Fast!LastClose(c, i) = IF known = {} THEN Missing ELSE c[l]
  BY DEF Fast!LastClose
<1>2. ASSUME known # {} PROVE l \in known /\ \A k \in known : k <= l
  <2>1. known \in SUBSET (1..i)
    OBVIOUS
  <2> HIDE DEF known
  <2>2. \E j \in known : \A k \in known : k <= j
    BY <1>2, <2>1, LatestExists
  <2> QED BY <2>2
<1> HIDE DEF known, l
<1>3. \/ known = {} /\ Fast!LastClose(c, i) = Missing
      \/ \E j \in known : (\A k \in known : k <= j) /\ Fast!LastClose(c, i) = c[j]
  BY <1>1, <1>2
<1> QED BY <1>3 DEF known

LEMMA LastCloseAgrees ==
  ASSUME NEW i, i \in Nat, NEW c, NEW q, \A j \in 1..i : c[j] = q[j]
  PROVE  Fast!LastClose(c, i) = Fast!LastClose(q, i)
<1> DEFINE known == {j \in 1..i : c[j] # Missing}
<1>1. known = {j \in 1..i : q[j] # Missing}
  OBVIOUS
<1>2. \/ known = {} /\ Fast!LastClose(c, i) = Missing
      \/ \E j \in known : (\A k \in known : k <= j) /\ Fast!LastClose(c, i) = c[j]
  BY LastCloseView
<1>3. \/ known = {} /\ Fast!LastClose(q, i) = Missing
      \/ \E j \in known : (\A k \in known : k <= j) /\ Fast!LastClose(q, i) = q[j]
  BY <1>1, LastCloseView
<1>4. known \in SUBSET (1..i) /\ 1..i \in SUBSET Int
  OBVIOUS
<1> HIDE DEF known
<1>5. ASSUME NEW j \in known, \A k \in known : k <= j, Fast!LastClose(c, i) = c[j],
             NEW l \in known, \A k \in known : k <= l, Fast!LastClose(q, i) = q[l]
      PROVE  Fast!LastClose(c, i) = Fast!LastClose(q, i)
  <2>1. j \in 1..i /\ j = l
    BY <1>4, <1>5
  <2> QED BY <1>5, <2>1
<1> QED BY <1>2, <1>3, <1>5

LEMMA FilledView ==
  ASSUME NEW raw, NEW n, Matrix(raw, n)
  PROVE  /\ Matrix(Fast!Filled(raw), n) /\ DOMAIN Fast!Filled(raw) = DOMAIN raw
         /\ \A t \in DOMAIN raw : \A i \in 1..n :
               Fast!Filled(raw)[t][i] = Fast!LastClose(raw[t], i)
<1>1. ASSUME NEW t \in DOMAIN raw
      PROVE  /\ Fast!Filled(raw)[t] \in Seq(Price) /\ Len(Fast!Filled(raw)[t]) = n
             /\ \A i \in 1..n : Fast!Filled(raw)[t][i] = Fast!LastClose(raw[t], i)
  <2> DEFINE q == [i \in 1..n |-> Fast!LastClose(raw[t], i)]
  <2>1. raw[t] \in Seq(Price) /\ Len(raw[t]) = n /\ n \in Nat
    BY DEF Matrix
  <2>2. ASSUME NEW i \in 1..n PROVE Fast!LastClose(raw[t], i) \in Price
    <3> DEFINE c == raw[t]
               known == {j \in 1..i : c[j] # Missing}
    <3>1. \/ known = {} /\ Fast!LastClose(c, i) = Missing
          \/ \E j \in known : (\A k \in known : k <= j) /\ Fast!LastClose(c, i) = c[j]
      BY LastCloseView
    <3>2. \A j \in known : c[j] \in Price
      BY <2>1
    <3> HIDE DEF c, known
    <3>3. Fast!LastClose(c, i) \in Price
      BY <3>1, <3>2 DEF Price
    <3> QED BY <3>3 DEF c
  <2>3. q \in [1..n -> Price]
    BY <2>2
  <2>4. q \in Seq(Price) /\ Len(q) = n
    <3> HIDE DEF q
    <3> QED BY <2>1, <2>3
  <2>5. <<>> \o q = q
    <3> HIDE DEF q
    <3> QED BY <2>4
  <2>6. Fast!Filled(raw)[t] = q
    BY <2>1, <2>5 DEF Fast!Filled
  <2>7. \A i \in 1..n : q[i] = Fast!LastClose(raw[t], i)
    OBVIOUS
  <2> HIDE DEF q
  <2> QED BY <2>4, <2>6, <2>7
<1>2. DOMAIN Fast!Filled(raw) = DOMAIN raw
  BY DEF Fast!Filled
<1> QED BY <1>1, <1>2 DEF Matrix

LEMMA FilledCells ==
  ASSUME NEW raw, NEW n, Matrix(raw, n), NEW t \in DOMAIN raw, NEW i \in 1..n
  PROVE  Fast!Filled(raw)[t][i] = Fast!LastClose(raw[t], i)
  BY FilledView

LEMMA PrefixView ==
  ASSUME NEW raw, NEW n, Matrix(raw, n), NEW h, h \in 0..n
  PROVE  /\ Matrix(Fast!Prefix(raw, h), h) /\ DOMAIN Fast!Prefix(raw, h) = DOMAIN raw
         /\ \A t \in DOMAIN raw : \A i \in 1..h : Fast!Prefix(raw, h)[t][i] = raw[t][i]
<1>1. n \in Nat /\ h \in Nat /\ h <= n
  BY DEF Matrix
<1>2. ASSUME NEW t \in DOMAIN raw
      PROVE  /\ Fast!Prefix(raw, h)[t] \in Seq(Price) /\ Len(Fast!Prefix(raw, h)[t]) = h
             /\ \A i \in 1..h : Fast!Prefix(raw, h)[t][i] = raw[t][i]
  <2> DEFINE c == raw[t]
  <2>1. c \in Seq(Price) /\ h <= Len(c)
    BY <1>1 DEF Matrix
  <2>2. Fast!Prefix(raw, h)[t] = SubSeq(c, 1, h)
    BY DEF Fast!Prefix
  <2> HIDE DEF c
  <2>3. /\ SubSeq(c, 1, h) \in Seq(Price) /\ Len(SubSeq(c, 1, h)) = h - 1 + 1
        /\ \A j \in 1..h - 1 + 1 : SubSeq(c, 1, h)[j] = c[1 - 1 + j]
    BY <1>1, <2>1, SubSeqView
  <2>4. h - 1 + 1 = h /\ \A j \in 1..h : 1 - 1 + j = j
    BY <1>1
  <2>5. \A j \in 1..h : SubSeq(c, 1, h)[j] = c[j]
    BY <2>3, <2>4
  <2> QED BY <2>2, <2>3, <2>4, <2>5 DEF c
<1>3. DOMAIN Fast!Prefix(raw, h) = DOMAIN raw /\ DOMAIN raw # {}
  BY DEF Fast!Prefix, Matrix
<1> QED BY <1>1, <1>2, <1>3 DEF Matrix

\* A column without a close up to a day is never entered.
Empty(c, i) == i \in Nat \ {0} /\ \A j \in 1..i : c[j] = Missing

LEMMA EmptyViews ==
  ASSUME NEW c, NEW i, Empty(c, i)
  PROVE  /\ \A w \in Nat \ {0} : Fast!Mean(c, i, w) = Fast!NoValue
         /\ \A k \in Nat : Fast!Change(c, i, k) = Missing
         /\ \A w \in Nat \ {0} : Fast!Spread(c, i, w) = Missing
         /\ Fast!Return(c, i) = 0
         /\ \A period \in Nat \ {0}, k \in Nat :
               Fast!StrengthAt(c, i, period, k) = Fast!Frac(50, 1)
<1>1. i \in Nat \ {0} /\ c[i] = Missing
  BY DEF Empty
<1>2. ASSUME NEW w \in Nat \ {0} PROVE Fast!Mean(c, i, w) = Fast!NoValue
  <2>1. i < w \/ i - w + 1 \in 1..i
    BY <1>1
  <2> QED BY <2>1 DEF Fast!Mean, Empty
<1>3. \A k \in Nat : Fast!Change(c, i, k) = Missing
  BY <1>1 DEF Fast!Change
<1>4. ASSUME NEW w \in Nat \ {0} PROVE Fast!Spread(c, i, w) = Missing
  <2>1. i <= w \/ i - w \in 1..i
    BY <1>1
  <2> QED BY <2>1 DEF Fast!Spread, Empty
<1>5. Fast!Return(c, i) = 0
  BY <1>3 DEF Fast!Return
<1>6. ASSUME NEW period \in Nat \ {0}, NEW k \in Nat
      PROVE  Fast!StrengthAt(c, i, period, k) = Fast!Frac(50, 1)
  <2>1. Unpriced(c, i) = 1..i
    BY DEF Unpriced, Empty
  <2>2. Fast!Cardinality(Unpriced(c, i)) = i
    BY <1>1, <2>1, CardinalityIs, FS_Interval
  <2>3. i - (i + k) < period
    BY <1>1
  <2> DEFINE lead == Fast!Cardinality(Unpriced(c, i)) + k
             changes == [j \in 1..(i - lead) |-> c[lead + j] - c[lead + j - k]]
  <2>4. Fast!StrengthAt(c, i, period, k) = StrengthOf(changes, i - lead, period)
    BY DEF Fast!StrengthAt, StrengthOf, Unpriced
  <2>5. i - lead < period
    BY <2>2, <2>3
  <2> HIDE DEF lead, changes
  <2> QED BY <2>4, <2>5 DEF StrengthOf
<1> QED BY <1>2, <1>3, <1>4, <1>5, <1>6

LEMMA EmptyIsIdle ==
  ASSUME NEW c, NEW i, Empty(c, i)
  PROVE  /\ ~Fast!MomentumEntry(c, i) /\ ~Fast!VolEntry(c, i) /\ ~Fast!Stretched(c, i)
         /\ ~Fast!Jump(c, i, 1) /\ ~Fast!TrendUp(c, i)
<1>1. /\ Fast!Mean(c, i, Win.fast) = Fast!NoValue /\ Fast!Mean(c, i, Win.slow) = Fast!NoValue
      /\ Fast!Change(c, i, Win.jump) = Missing /\ Fast!Spread(c, i, Win.vol) = Missing
      /\ Fast!StrengthAt(c, i, Win.rsi, 1) = Fast!Frac(50, 1)
      /\ Fast!StrengthAt(c, i, Win.rsi, Win.momentum) = Fast!Frac(50, 1)
  BY EmptyViews, WindowsArePositive
<1>2. \A b : ~Fast!Greater(Fast!NoValue, b)
  BY DEF Fast!Greater, Fast!NoValue
<1>3. ~Fast!Bullish(c, i) /\ ~Fast!TrendUp(c, i)
  BY <1>1, <1>2 DEF Fast!Bullish, Fast!TrendUp
<1>4. ~Fast!Between(10, Fast!Frac(50, 1), 30)
  BY DEF Fast!Between, Fast!Greater, Fast!Frac
<1>5. ~Fast!MomentumEntry(c, i)
  BY <1>1, <1>3, <1>4 DEF Fast!MomentumEntry
<1>6. ~Fast!VolEntry(c, i) /\ ~Fast!Stretched(c, i) /\ ~Fast!Jump(c, i, 1)
  BY <1>1 DEF Fast!VolEntry, Fast!BeyondThreshold, Fast!Stretched, Fast!Jump
<1> QED BY <1>3, <1>5, <1>6

LEMMA NotLatched ==
  ASSUME NEW i, i \in Nat, NEW E, E = {}, NEW X, X \in SUBSET (1..i)
  PROVE  ~Fast!Latched(E, X)
<1> DEFINE l == CHOOSE j \in E \union X : \A k \in E \union X : k <= j
<1>1. ASSUME X # {} PROVE l \in X
  <2>1. E \union X = X /\ \E j \in X : \A k \in X : k <= j
    BY <1>1, LatestExists
  <2> QED BY <2>1
<1>2. Fast!Latched(E, X) <=> E \union X # {} /\ l \notin X
  BY DEF Fast!Latched
<1> HIDE DEF l
<1> QED BY <1>1, <1>2

\* A matrix and some of its columns, the others without a close up to day n.
Part(m, r, n) ==
    /\ DOMAIN r \in SUBSET DOMAIN m /\ n \in Nat
    /\ \A t \in DOMAIN r : r[t] = m[t]
    /\ \A t \in DOMAIN m \ DOMAIN r : \A j \in 1..n : m[t][j] = Missing

LEMMA PartRotates ==
  ASSUME NEW m, NEW r, NEW n, Part(m, r, n), NEW i, i \in 1..n, NEW order,
         Fast!OffColumns(m, order) \intersect DOMAIN r = Fast!OffColumns(r, order)
  PROVE  /\ \A t \in DOMAIN r : Fast!Rotated(m, order, t, i) <=> Fast!Rotated(r, order, t, i)
         /\ \A t \in DOMAIN m \ DOMAIN r : ~Fast!Rotated(m, order, t, i)
<1> DEFINE off(f) == Fast!OffColumns(f, order)
           up(f, S) == {s \in S : Fast!TrendUp(f[s], i)}
           riskOn(f) == Fast!Cardinality(up(f, DOMAIN f \ off(f)))
                          >= Fast!Cardinality(up(f, off(f)))
<1>1. \A t \in DOMAIN m \ DOMAIN r : ~Fast!TrendUp(m[t], i)
  <2>1. \A t \in DOMAIN m \ DOMAIN r : Empty(m[t], i)
    BY DEF Part, Empty
  <2> QED BY <2>1, EmptyIsIdle
<1>2. \A t \in DOMAIN r : t \in DOMAIN m /\ r[t] = m[t]
  BY DEF Part
<1>3. off(m) \intersect DOMAIN r = off(r) /\ off(m) \subseteq DOMAIN m
  BY DEF Fast!OffColumns
<1>4. \A f, t : Fast!Rotated(f, order, t, i)
                  <=> (Fast!TrendUp(f[t], i) /\ (t \notin off(f) <=> riskOn(f)))
  BY DEF Fast!Rotated
<1> HIDE DEF off
<1>5. up(m, off(m)) = up(r, off(r)) /\ up(m, DOMAIN m \ off(m)) = up(r, DOMAIN r \ off(r))
  BY <1>1, <1>2, <1>3
<1> HIDE DEF up
<1>6. riskOn(m) <=> riskOn(r)
  BY <1>5
<1> HIDE DEF riskOn
<1>7. \A t \in DOMAIN r : t \in off(m) <=> t \in off(r)
  BY <1>3
<1> QED BY <1>1, <1>2, <1>4, <1>6, <1>7

LEMMA PartIsActive ==
  ASSUME NEW m, NEW r, NEW n, Part(m, r, n), NEW i, i \in 1..n, NEW order,
         NEW a, a \in Fast!Adapters, Fast!SameGroups(a, m, r, order)
  PROVE  Fast!Active(a, m, order, i) = Fast!Active(a, r, order, i)
<1>1. /\ \A t \in DOMAIN r : t \in DOMAIN m /\ r[t] = m[t]
      /\ n \in Nat /\ i \in Nat
  BY DEF Part
<1>2. \A t \in DOMAIN m \ DOMAIN r : \A j \in 1..i : Empty(m[t], j)
  BY DEF Part, Empty
<1>3. \A j \in 1..i : Fast!HighVolatility(m, j) <=> Fast!HighVolatility(r, j)
  BY <1>1 DEF Fast!HighVolatility, Part
<1>4. ASSUME NEW t \in DOMAIN m \ DOMAIN r
      PROVE  /\ {j \in 1..i : Fast!MomentumEntry(m[t], j)} = {}
             /\ {j \in 1..i : Fast!VolEntry(m[t], j)} = {}
             /\ {j \in 1..i : Fast!RegimeEntry(m, t, j)} = {}
  <2>1. ASSUME NEW j \in 1..i
        PROVE  /\ ~Fast!MomentumEntry(m[t], j) /\ ~Fast!VolEntry(m[t], j)
               /\ ~Fast!RegimeEntry(m, t, j)
    <3>1. /\ ~Fast!MomentumEntry(m[t], j) /\ ~Fast!VolEntry(m[t], j)
          /\ ~Fast!Stretched(m[t], j) /\ ~Fast!Jump(m[t], j, 1)
      BY <1>2, EmptyIsIdle
    <3> QED BY <3>1 DEF Fast!RegimeEntry
  <2> QED BY <2>1
<1>5. \A S : {j \in 1..i : j \in S} \in SUBSET (1..i)
  OBVIOUS
<1>6. CASE a = "MomentumStrategy"
  <2> DEFINE on(c) == Fast!Latched({j \in 1..i : Fast!MomentumEntry(c, j)},
                                   {j \in 1..i : Fast!MomentumExit(c, j)})
  <2>1. \A t \in DOMAIN m \ DOMAIN r : ~on(m[t])
    BY <1>1, <1>4, NotLatched
  <2>2. \A f : Fast!Active(a, f, order, i) = {t \in DOMAIN f : on(f[t])}
    BY <1>6 DEF Fast!Active
  <2> HIDE DEF on
  <2> QED BY <1>1, <2>1, <2>2
<1>7. CASE a = "VolMomentum"
  <2> DEFINE on(c) == Fast!Latched({j \in 1..i : Fast!VolEntry(c, j)},
                                   {j \in 1..i : Fast!VolExit(c, j)})
  <2>1. \A t \in DOMAIN m \ DOMAIN r : ~on(m[t])
    BY <1>1, <1>4, NotLatched
  <2>2. \A f : Fast!Active(a, f, order, i) = {t \in DOMAIN f : on(f[t])}
    BY <1>7 DEF Fast!Active
  <2> HIDE DEF on
  <2> QED BY <1>1, <2>1, <2>2
<1>8. CASE a = "RegimeAdaptiveStrategy"
  <2> DEFINE in(f, t) == {j \in 1..i : Fast!RegimeEntry(f, t, j)}
             out(f, t) == {j \in 1..i : Fast!RegimeExit(f, t, j)}
  <2>1. \A t \in DOMAIN r : in(m, t) = in(r, t) /\ out(m, t) = out(r, t)
    BY <1>1, <1>3 DEF Fast!RegimeEntry, Fast!RegimeExit
  <2>2. \A t \in DOMAIN m \ DOMAIN r : in(m, t) = {} /\ out(m, t) \in SUBSET (1..i)
    BY <1>4
  <2>3. \A f : Fast!Active(a, f, order, i) = {t \in DOMAIN f : Fast!Latched(in(f, t), out(f, t))}
    BY <1>8 DEF Fast!Active
  <2> HIDE DEF in, out
  <2>4. \A t \in DOMAIN m \ DOMAIN r : ~Fast!Latched(in(m, t), out(m, t))
    BY <1>1, <2>2, NotLatched
  <2> QED BY <1>1, <2>1, <2>3, <2>4
<1>9. CASE a = "TrendRotateStrategy"
  <2>1. /\ \A t \in DOMAIN r : Fast!Rotated(m, order, t, i) <=> Fast!Rotated(r, order, t, i)
        /\ \A t \in DOMAIN m \ DOMAIN r : ~Fast!Rotated(m, order, t, i)
    BY <1>9, PartRotates DEF Fast!SameGroups
  <2>2. \A f : Fast!Active(a, f, order, i) = {t \in DOMAIN f : Fast!Rotated(f, order, t, i)}
    BY <1>9 DEF Fast!Active
  <2> QED BY <1>1, <2>1, <2>2
<1> QED BY <1>6, <1>7, <1>8, <1>9 DEF Fast!Adapters

\* What is booked on a column is an integer.
Priced(m, n) ==
    IsFiniteSet(DOMAIN m)
    /\ \A t \in DOMAIN m : \A j \in 1..n : m[t][j] \in (Nat \ {0}) \union {Missing}

LEMMA ReturnIsInt ==
  ASSUME NEW m, NEW n, n \in Nat, Priced(m, n), NEW t, t \in DOMAIN m, NEW i, i \in 1..n
  PROVE  Fast!Return(m[t], i) \in Int
<1> DEFINE c == m[t]
<1>1. c[i] \in (Nat \ {0}) \union {Missing} /\ (i > 1 => c[i - 1] \in (Nat \ {0}) \union {Missing})
  BY DEF Priced
<1>2. Scale \in Int
  BY LimitsArePositive
<1> HIDE DEF c
<1>3. Fast!Change(c, i, 1) = Missing \/ Fast!Change(c, i, 1) \in Int
  <2>1. CASE i <= 1 \/ c[i] = Missing \/ c[i - 1] = Missing
    BY <2>1 DEF Fast!Change
  <2>2. CASE ~(i <= 1 \/ c[i] = Missing \/ c[i - 1] = Missing)
    <3>1. c[i] \in Int /\ c[i - 1] \in Nat \ {0}
      BY <1>1, <2>2
    <3>2. (c[i] - c[i - 1]) * Scale \in Int
      BY <1>2, <3>1
    <3>3. ((c[i] - c[i - 1]) * Scale) \div c[i - 1] \in Int
      BY <3>1, <3>2
    <3> QED BY <2>2, <3>3 DEF Fast!Change
  <2> QED BY <2>1, <2>2
<1>4. Fast!Return(c, i) \in Int
  BY <1>3 DEF Fast!Return
<1> QED BY <1>4 DEF c

LEMMA WeightView ==
  ASSUME NEW D, IsFiniteSet(D), NEW S, S \in SUBSET D, NEW t
  PROVE  Fast!Weight(S, t) \in Int /\ (t \notin S => Fast!Weight(S, t) = 0)
<1>1. ASSUME t \in S PROVE Fast!Cardinality(S) \in Nat \ {0}
  <2>1. IsFiniteSet(S)
    BY FS_Subset
  <2> QED BY <1>1, <2>1, CardinalityIs, FS_CardinalityType, FS_EmptySet
<1>2. Shares \in Int
  BY LimitsArePositive
<1> QED BY <1>1, <1>2 DEF Fast!Weight

LEMMA PartIsBooked ==
  ASSUME NEW m, NEW r, NEW n, Part(m, r, n), Priced(m, n), NEW p,
         \A j \in 1..n : p[j] \in SUBSET DOMAIN r, NEW first, first \in 1..n
  PROVE  Fast!Growth(m, p, first, n) = Fast!Growth(r, p, first, n)
<1>1. /\ DOMAIN r \in SUBSET DOMAIN m /\ n \in Nat /\ IsFiniteSet(DOMAIN m)
      /\ \A t \in DOMAIN r : r[t] = m[t]
  BY DEF Part, Priced
<1>2. ASSUME NEW i \in 1..n PROVE Fast!Gross(m, p, i) = Fast!Gross(r, p, i)
  <2> DEFINE H == Fast!Held(p, i)
             f == [t \in DOMAIN m |-> Fast!Weight(H, t) * Fast!Return(m[t], i)]
             g == [t \in DOMAIN r |-> Fast!Weight(H, t) * Fast!Return(r[t], i)]
  <2>1. H \in SUBSET DOMAIN r
    BY <1>1 DEF Fast!Held
  <2> HIDE DEF H
  <2>2. \A t \in DOMAIN m : /\ Fast!Weight(H, t) \in Int /\ Fast!Return(m[t], i) \in Int
                            /\ t \notin DOMAIN r => Fast!Weight(H, t) = 0
    BY <1>1, <2>1, WeightView, ReturnIsInt
  <2>3. f \in [DOMAIN m -> Int] /\ \A t \in DOMAIN m \ DOMAIN r : f[t] = 0
    BY <2>2
  <2>4. g = [t \in DOMAIN r |-> f[t]]
    BY <1>1
  <2>5. Fast!Gross(m, p, i) = SumFunction(f) /\ Fast!Gross(r, p, i) = SumFunction(g)
    BY FastSums DEF Fast!Gross, H
  <2> HIDE DEF f, g
  <2>6. SumFunction(f) = SumFunction([t \in DOMAIN r |-> f[t]])
    BY ONLY <1>1, <2>3, SumWithoutZeros
  <2> QED BY <2>4, <2>5, <2>6
<1>3. ASSUME NEW i \in first..n
      PROVE  Fast!Turnover(m, p, i, first) = Fast!Turnover(r, p, i, first)
  <2>1. CASE i = first
    BY <2>1 DEF Fast!Turnover
  <2>2. CASE i # first
    <3> DEFINE f == [t \in DOMAIN m |-> Fast!Abs(Fast!Weight(p[i], t) - Fast!Weight(p[i - 1], t))]
               g == [t \in DOMAIN r |-> Fast!Abs(Fast!Weight(p[i], t) - Fast!Weight(p[i - 1], t))]
    <3>1. p[i] \in SUBSET DOMAIN r /\ p[i - 1] \in SUBSET DOMAIN r
      BY <1>1, <2>2
    <3>2. \A t \in DOMAIN m : /\ Fast!Weight(p[i], t) \in Int /\ Fast!Weight(p[i - 1], t) \in Int
                              /\ t \notin DOMAIN r => /\ Fast!Weight(p[i], t) = 0
                                                      /\ Fast!Weight(p[i - 1], t) = 0
      BY <1>1, <3>1, WeightView
    <3>3. f \in [DOMAIN m -> Int] /\ \A t \in DOMAIN m \ DOMAIN r : f[t] = 0
      BY <3>2 DEF Fast!Abs
    <3>4. g = [t \in DOMAIN r |-> f[t]]
      BY <1>1
    <3>5. /\ Fast!Turnover(m, p, i, first) = SumFunction(f)
          /\ Fast!Turnover(r, p, i, first) = SumFunction(g)
      BY <2>2, FastSums DEF Fast!Turnover
    <3> HIDE DEF f, g
    <3>6. SumFunction(f) = SumFunction([t \in DOMAIN r |-> f[t]])
      BY ONLY <1>1, <3>3, SumWithoutZeros
    <3> QED BY <3>4, <3>5, <3>6
  <2> QED BY <2>1, <2>2
<1>4. \A i \in first..n : Fast!StrategyReturn(m, p, i, first) = Fast!StrategyReturn(r, p, i, first)
  BY <1>1, <1>2, <1>3 DEF Fast!StrategyReturn
<1> QED BY <1>1, <1>4, GrowthIs

\* The columns are those with a close in the first i rows.
Opens(raw) == \E t \in DOMAIN raw : raw[t][1] # Missing

Known(k, raw, i) ==
    /\ Matrix(k, i)
    /\ DOMAIN k = {t \in DOMAIN raw : \E j \in 1..i : raw[t][j] # Missing}
    /\ \A t \in DOMAIN k : \A j \in 1..i : k[t][j] = Fast!LastClose(raw[t], j)

LEMMA ClosesView ==
  ASSUME NEW raw, NEW n, Matrix(raw, n), NEW i, i \in 1..n, Opens(raw)
  PROVE  Known(Fast!Closes(Fast!Prefix(raw, i)), raw, i)
<1> DEFINE pre == Fast!Prefix(raw, i)
           v == Fast!Pivot(pre)
<1>1. /\ Matrix(pre, i) /\ DOMAIN pre = DOMAIN raw /\ i \in Nat
      /\ \A t \in DOMAIN raw : \A j \in 1..i : pre[t][j] = raw[t][j]
  <2>1. i \in 0..n /\ i \in Nat
    BY DEF Matrix
  <2> QED BY <2>1, PrefixView
<1> HIDE DEF pre
<1>2. \A t \in DOMAIN raw : DOMAIN pre[t] = 1..i
  BY <1>1 DEF Matrix
<1>3. /\ DOMAIN v = {t \in DOMAIN raw : \E j \in 1..i : raw[t][j] # Missing}
      /\ \A t \in DOMAIN v : t \in DOMAIN raw /\ v[t] = pre[t]
  BY <1>1, <1>2 DEF Fast!Pivot
<1>4. DOMAIN v # {}
  <2>1. 1 \in 1..i
    OBVIOUS
  <2> QED BY <1>3, <2>1 DEF Opens
<1> HIDE DEF v
<1>5. Matrix(v, i)
  BY <1>1, <1>3, <1>4 DEF Matrix
<1>6. /\ Matrix(Fast!Filled(v), i) /\ DOMAIN Fast!Filled(v) = DOMAIN v
      /\ \A t \in DOMAIN v : \A j \in 1..i : Fast!Filled(v)[t][j] = Fast!LastClose(v[t], j)
  BY <1>5, FilledView
<1>7. \A t \in DOMAIN v : \A j \in 1..i : Fast!LastClose(v[t], j) = Fast!LastClose(raw[t], j)
  <2> SUFFICES ASSUME NEW t \in DOMAIN v, NEW j \in 1..i
               PROVE  Fast!LastClose(v[t], j) = Fast!LastClose(raw[t], j)
    OBVIOUS
  <2>1. j \in Nat /\ \A l \in 1..j : v[t][l] = raw[t][l]
    BY <1>1, <1>3
  <2> QED BY <2>1, LastCloseAgrees
<1>8. Fast!Closes(pre) = Fast!Filled(v)
  BY DEF Fast!Closes, v
<1> QED BY <1>3, <1>6, <1>7, <1>8 DEF Known, pre

LEMMA WholePrefix ==
  ASSUME NEW raw, NEW n, Matrix(raw, n)
  PROVE  Fast!Closes(Fast!Prefix(raw, n)) = Fast!Closes(raw)
<1>1. ASSUME NEW t \in DOMAIN raw PROVE SubSeq(raw[t], 1, n) = raw[t]
  <2> DEFINE c == raw[t]
             q == SubSeq(c, 1, n)
  <2>1. c \in Seq(Price) /\ Len(c) = n /\ n \in Nat
    BY DEF Matrix
  <2> HIDE DEF c
  <2>2. /\ q \in Seq(Price) /\ Len(q) = n - 1 + 1
        /\ \A j \in 1..n - 1 + 1 : q[j] = c[1 - 1 + j]
    BY <2>1, SubSeqView
  <2> HIDE DEF q
  <2>3. Len(q) = Len(c) /\ \A j \in 1..Len(c) : q[j] = c[j]
    BY <2>1, <2>2
  <2>4. q = c
    BY <2>1, <2>2, <2>3, SameSequence
  <2> QED BY <2>4 DEF q, c
<1>2. Fast!Prefix(raw, n) = [t \in DOMAIN raw |-> raw[t]]
  BY <1>1 DEF Fast!Prefix
<1>3. \A t \in DOMAIN raw : /\ Fast!Prefix(raw, n)[t] = raw[t]
  BY <1>2
<1>4. DOMAIN Fast!Prefix(raw, n) = DOMAIN raw
  BY <1>2
<1>5. Fast!Pivot(Fast!Prefix(raw, n)) = Fast!Pivot(raw)
  BY <1>3, <1>4 DEF Fast!Pivot
<1> QED BY <1>5 DEF Fast!Closes

\* What is known on day i: the first rows of the matrix, without the empty columns.
LEMMA KnownView ==
  ASSUME NEW raw, NEW n, Matrix(raw, n), NEW i, i \in 1..n, Opens(raw),
         NEW m, m = Fast!Closes(raw), NEW k, k = Fast!Closes(Fast!Prefix(raw, i)),
         NEW r, r = [t \in DOMAIN k |-> m[t]]
  PROVE  Matrix(m, n) /\ Matrix(k, i) /\ Part(m, r, i) /\ AgreeAll(r, k, i)
<1>1. i \in Nat /\ n \in Nat /\ n \in 1..n /\ \A j \in 1..i : j \in 1..n /\ j \in Nat
  BY DEF Matrix
<1>2. Known(k, raw, i)
  BY ClosesView
<1>3. Known(m, raw, n)
  BY <1>1, ClosesView, WholePrefix
<1>4. DOMAIN k \in SUBSET DOMAIN m
  BY <1>1, <1>2, <1>3 DEF Known
<1>5. ASSUME NEW t \in DOMAIN m \ DOMAIN r, NEW j \in 1..i PROVE m[t][j] = Missing
  <2>1. t \in DOMAIN raw /\ \A l \in 1..j : raw[t][l] = Missing
    BY <1>1, <1>2, <1>3 DEF Known
  <2>2. Fast!LastClose(raw[t], j) = Missing
    BY <2>1 DEF Fast!LastClose
  <2> QED BY <1>1, <1>3, <2>2 DEF Known
<1>6. Part(m, r, i)
  BY <1>1, <1>4, <1>5 DEF Part
<1>7. ASSUME NEW t \in DOMAIN r PROVE Agree(r[t], k[t], i)
  <2>1. t \in DOMAIN k /\ t \in DOMAIN m /\ r[t] = m[t]
    BY <1>4
  <2>2. m[t] \in Seq(Price) /\ Len(m[t]) = n /\ k[t] \in Seq(Price) /\ Len(k[t]) = i
    BY <1>2, <1>3, <2>1 DEF Matrix, Known
  <2>3. \A j \in 1..i : m[t][j] = k[t][j]
    BY <1>1, <1>2, <1>3, <2>1 DEF Known
  <2> QED BY <1>1, <2>1, <2>2, <2>3 DEF Agree
<1> QED BY <1>2, <1>3, <1>6, <1>7 DEF AgreeAll, Known

\* The positions of the first days are those that were known, where trend_rotate's
\* groups were.
LEMMA KnownPositions ==
  ASSUME NEW m, NEW n, Matrix(m, n), NEW k, NEW i, i \in 1..n, Matrix(k, i),
         NEW r, Part(m, r, i), AgreeAll(r, k, i), NEW order, NEW a, a \in Fast!Adapters,
         Fast!SameGroups(a, m, k, order)
  PROVE  \A j \in 1..i : /\ Fast!Positions(a, m, order)[j] = Fast!Positions(a, k, order)[j]
                         /\ Fast!Positions(a, m, order)[j] \in SUBSET DOMAIN r
<1> SUFFICES ASSUME NEW j \in 1..i
             PROVE  /\ Fast!Positions(a, m, order)[j] = Fast!Positions(a, k, order)[j]
                    /\ Fast!Positions(a, m, order)[j] \in SUBSET DOMAIN r
  OBVIOUS
<1>1. j \in 1..n
  BY DEF Matrix
<1>2. DOMAIN r = DOMAIN k
  BY DEF AgreeAll
<1>3. Fast!OffColumns(r, order) = Fast!OffColumns(k, order)
  BY <1>2 DEF Fast!OffColumns
<1>4. Fast!SameGroups(a, m, r, order)
  BY <1>2, <1>3 DEF Fast!SameGroups
<1>5. Fast!Positions(a, m, order)[j] = Fast!Active(a, m, order, j)
  BY <1>1, PositionsView
<1>6. Fast!Positions(a, k, order)[j] = Fast!Active(a, k, order, j)
  BY PositionsView
<1>7. Fast!Active(a, m, order, j) = Fast!Active(a, r, order, j)
  BY <1>4, PartIsActive
<1>8. Fast!Active(a, r, order, j) = Fast!Active(a, k, order, j)
  BY ActiveAgrees
<1>9. Fast!Active(a, r, order, j) \in SUBSET DOMAIN r
  BY DEF Fast!Active
<1> QED BY <1>5, <1>6, <1>7, <1>8, <1>9

LEMMA FastIsCausal ==
  ASSUME NEW raw, NEW order, Fast!MatrixRead(raw, order)
  PROVE  Fast!Causal(raw, order)
<1> DEFINE n == Len(raw[order[1]])
           m == Fast!Closes(raw)
           k(i) == Fast!Closes(Fast!Prefix(raw, i))
           r(i) == [t \in DOMAIN k(i) |-> m[t]]
<1>1. order \in [1..Len(order) -> DOMAIN raw] /\ Len(order) \in Nat /\ 1 \in 1..Len(order)
  BY DEF Fast!MatrixRead
<1>2. order[1] \in DOMAIN raw
  BY <1>1
<1>3. \A t \in DOMAIN raw : raw[t] \in Seq((Nat \ {0}) \union {Missing}) /\ Len(raw[t]) = n
  BY DEF Fast!MatrixRead
<1>4. n \in Nat /\ 1 \in 1..n /\ DOMAIN raw[order[1]] = 1..n
  <2>1. raw[order[1]] \in Seq((Nat \ {0}) \union {Missing}) /\ raw[order[1]] # <<>>
    BY <1>2, <1>3 DEF Fast!MatrixRead
  <2> QED BY <2>1
<1>5. Opens(raw)
  <2>1. \A i \in DOMAIN raw[order[1]] : \E t \in DOMAIN raw : raw[t][i] # Missing
    BY DEF Fast!MatrixRead
  <2> QED BY <1>4, <2>1 DEF Opens
<1> HIDE DEF n
<1>6. \A t \in DOMAIN raw : /\ raw[t] \in Seq(Price)
                            /\ \A j \in 1..n : raw[t][j] \in (Nat \ {0}) \union {Missing}
  <2> SUFFICES ASSUME NEW t \in DOMAIN raw
               PROVE  /\ raw[t] \in Seq(Price)
                      /\ \A j \in 1..n : raw[t][j] \in (Nat \ {0}) \union {Missing}
    OBVIOUS
  <2> DEFINE c == raw[t]
  <2>1. c \in Seq((Nat \ {0}) \union {Missing}) /\ Len(c) = n
    BY <1>3
  <2> HIDE DEF c
  <2>2. \A j \in 1..n : c[j] \in (Nat \ {0}) \union {Missing}
    BY <2>1, SeqView
  <2>3. c \in Seq(Price)
    BY <2>1 DEF Price
  <2> QED BY <2>2, <2>3 DEF c
<1>7. Matrix(raw, n)
  BY <1>2, <1>3, <1>4, <1>6 DEF Matrix
<1>8. IsFiniteSet(DOMAIN raw)
  <2>1. order \in Surjection(1..Len(order), DOMAIN raw)
    BY <1>1 DEF Surjection, Fast!MatrixRead
  <2> QED BY <1>1, <2>1, FS_Interval, FS_Surjection
<1>9. \A i \in 1..n : Matrix(m, n) /\ Matrix(k(i), i) /\ Part(m, r(i), i) /\ AgreeAll(r(i), k(i), i)
  BY <1>5, <1>7, KnownView
<1>10. Matrix(m, n) /\ Fast!Rows(m) = 1..n
  <2> HIDE DEF m
  <2> QED BY <1>4, <1>9, RowsOfMatrix
<1>11. Priced(m, n)
  <2>1. Known(m, raw, n)
    BY <1>4, <1>5, <1>7, ClosesView, WholePrefix
  <2>2. ASSUME NEW t \in DOMAIN m, NEW j \in 1..n
        PROVE  Fast!LastClose(raw[t], j) \in (Nat \ {0}) \union {Missing}
    <3> HIDE DEF m
    <3>1. t \in DOMAIN raw /\ j \in Nat /\ \A l \in 1..j : l \in 1..n
      BY <1>4, <2>1 DEF Known
    <3>2. \/ Fast!LastClose(raw[t], j) = Missing
          \/ \E l \in 1..j : Fast!LastClose(raw[t], j) = raw[t][l]
      BY <3>1, LastCloseView
    <3> QED BY <1>6, <3>1, <3>2
  <2>3. IsFiniteSet(DOMAIN m)
    BY <1>8, <2>1, FS_Subset DEF Known
  <2> HIDE DEF m
  <2> QED BY <2>1, <2>2, <2>3 DEF Priced, Known
<1> DEFINE known == [i \in 1..n |-> k(i)]
           P(a) == Fast!Positions(a, m, order)
           then(a) == [i \in 1..n |-> Fast!Positions(a, known[i], order)]
<1> HIDE DEF m
<1>12. ASSUME NEW a \in Fast!Adapters, NEW i \in 1..n, Fast!SameGroups(a, m, k(i), order)
       PROVE  \A j \in 1..i : P(a)[j] = then(a)[i][j] /\ P(a)[j] \in SUBSET DOMAIN r(i)
  <2> DEFINE q == k(i)
             s == r(i)
  <2>1. Matrix(q, i) /\ Part(m, s, i) /\ AgreeAll(s, q, i) /\ Fast!SameGroups(a, m, q, order)
    BY <1>9, <1>12
  <2>2. then(a)[i] = Fast!Positions(a, q, order)
    OBVIOUS
  <2> HIDE DEF k, r, q, s, then
  <2>3. \A j \in 1..i : /\ Fast!Positions(a, m, order)[j] = Fast!Positions(a, q, order)[j]
                        /\ Fast!Positions(a, m, order)[j] \in SUBSET DOMAIN s
    BY <1>10, <2>1, KnownPositions
  <2> QED BY <2>2, <2>3 DEF s
<1>13. ASSUME NEW a \in Fast!Adapters, NEW i \in 1..n, i > 1,
              Fast!SameGroups(a, m, known[i - 1], order)
       PROVE  Fast!Held(P(a), i) = then(a)[i - 1][i - 1]
  <2>1. i - 1 \in 1..n /\ i - 1 \in 1..i - 1 /\ i # 1
    BY <1>4, <1>13
  <2>2. known[i - 1] = k(i - 1)
    BY <2>1
  <2> HIDE DEF k, r, then, P, known
  <2>3. P(a)[i - 1] = then(a)[i - 1][i - 1]
    BY <1>12, <1>13, <2>1, <2>2
  <2> QED BY <2>1, <2>3 DEF Fast!Held
<1>14. ASSUME NEW a \in Fast!Adapters, NEW i \in 1..n, NEW first \in 1..i,
              Fast!SameGroups(a, m, known[i], order)
       PROVE  Fast!Growth(m, P(a), first, i) = Fast!Growth(known[i], then(a)[i], first, i)
  <2> DEFINE q == k(i)
             s == r(i)
             p == P(a)
             h == then(a)[i]
  <2>1. Part(m, s, i) /\ AgreeAll(s, q, i) /\ known[i] = q
    BY <1>9
  <2>2. \A j \in 1..i : p[j] = h[j] /\ p[j] \in SUBSET DOMAIN s
    <3>1. Fast!SameGroups(a, m, k(i), order)
      BY <1>14
    <3> HIDE DEF k, r, P, then, m
    <3> QED BY <1>12, <3>1
  <2>3. i \in Nat /\ Priced(m, i)
    BY <1>4, <1>11 DEF Priced
  <2>4. DOMAIN s # {}
    <3>1. DOMAIN q # {} /\ DOMAIN s = DOMAIN q
      <4>1. Matrix(q, i)
        BY <1>9
      <4> QED BY <4>1 DEF Matrix
    <3> QED BY <3>1
  <2> HIDE DEF k, r, q, s, p, h, P, then, known
  <2>5. Fast!Growth(m, p, first, i) = Fast!Growth(s, p, first, i)
    BY <2>1, <2>2, <2>3, PartIsBooked
  <2>6. Fast!Growth(s, p, first, i) = Fast!Growth(q, h, first, i)
    BY <2>1, <2>2, <2>4, GrowthAgrees
  <2> QED BY <2>1, <2>5, <2>6 DEF p, h
<1> HIDE DEF P, then, known
<1>15. \A a \in Fast!Adapters : \A i \in 1..n :
         /\ i > 1 /\ Fast!SameGroups(a, m, known[i - 1], order) =>
              Fast!Held(P(a), i) = then(a)[i - 1][i - 1]
         /\ Fast!SameGroups(a, m, known[i], order) =>
              \A first \in 1..i :
                Fast!Growth(m, P(a), first, i) = Fast!Growth(known[i], then(a)[i], first, i)
  BY <1>13, <1>14
<1> QED BY <1>10, <1>15 DEF Fast!Causal, m, P, then, known

-------------------------------------------------------------------------------
(* Intraday bars: every day is served.                                      *)

LEMMA ChunksAreAnswered ==
  ASSUME NEW m, m \in Intra!Sizes
  PROVE  /\ Intra!ChunkDays(m) \in {3, 7, 21, 30, 60}
         /\ Intra!AnswerDays(m) \in Int /\ Intra!ChunkDays(m) <= Intra!AnswerDays(m)
<1>1. CASE m = 1
  BY <1>1 DEF Intra!ChunkDays, Intra!AnswerDays
<1>2. CASE m = 5
  BY <1>2 DEF Intra!ChunkDays, Intra!AnswerDays
<1>3. CASE m = 15
  BY <1>3 DEF Intra!ChunkDays, Intra!AnswerDays
<1>4. CASE m = 30
  BY <1>4 DEF Intra!ChunkDays, Intra!AnswerDays
<1>5. CASE m = 60
  BY <1>5 DEF Intra!ChunkDays, Intra!AnswerDays
<1> QED BY <1>1, <1>2, <1>3, <1>4, <1>5 DEF Intra!Sizes

\* The windows of a download, as pairs.
WindowSet(first, last, span) ==
    {Intra!Windows(first, last, span)[k] : k \in DOMAIN Intra!Windows(first, last, span)}

\* Windows W of at most span days, inside first..last, that cover it.
CoveredBy(W, first, last, span) ==
    /\ \A w \in W : /\ w[1] \in Int /\ w[2] \in Int /\ first <= w[1] /\ w[2] <= last
                    /\ w[2] < w[1] + span
    /\ \A d \in first..last : \E w \in W : w[1] <= d /\ d <= w[2]

LEMMA WindowsCover ==
  ASSUME NEW first, first \in Int, NEW last, last \in Int,
         NEW span, span \in {3, 7, 21, 30, 60}
  PROVE  CoveredBy(WindowSet(first, last, span), first, last, span)
<1> DEFINE n == IF last < first THEN 0 ELSE (last - first) \div span + 1
           lo(k) == first + (k - 1) * span
           hi(k) == IF first + k * span - 1 < last THEN first + k * span - 1 ELSE last
<1>1. DOMAIN Intra!Windows(first, last, span) = 1..n
  BY DEF Intra!Windows
<1>2. \A k \in 1..n : Intra!Windows(first, last, span)[k] = <<lo(k), hi(k)>>
  BY DEF Intra!Windows
<1>3. n \in Nat /\ span \in Nat \ {0}
  <2>1. CASE last < first
    BY <2>1
  <2>2. CASE ~(last < first)
    <3>1. last - first \in Nat
      BY <2>2
    <3>2. (last - first) \div span \in Nat
      BY <3>1, DivisionBySpan
    <3> QED BY <2>2, <3>2
  <2> QED BY <2>1, <2>2
<1> HIDE DEF n
<1>4. ASSUME NEW k \in 1..n
      PROVE  /\ lo(k) \in Int /\ hi(k) \in Int /\ first <= lo(k) /\ hi(k) <= last
             /\ hi(k) < lo(k) + span
  <2> DEFINE a == (k - 1) * span
             b == k * span
  <2>1. k - 1 \in Nat /\ k \in Nat /\ span \in Nat
    BY <1>3
  <2>2. a \in Nat /\ b = a + span /\ b \in Nat
    BY <2>1
  <2> HIDE DEF a, b
  <2>3. /\ first + a \in Int /\ first <= first + a
        /\ (IF first + b - 1 < last THEN first + b - 1 ELSE last) \in Int
        /\ (IF first + b - 1 < last THEN first + b - 1 ELSE last) <= last
        /\ (IF first + b - 1 < last THEN first + b - 1 ELSE last) < first + a + span
    BY <2>1, <2>2
  <2> QED BY <2>3 DEF a, b
<1>5. ASSUME NEW d \in first..last
      PROVE  \E k \in 1..n : lo(k) <= d /\ d <= hi(k)
  <2> DEFINE q == (d - first) \div span
             e == q * span
  <2>1. d - first \in Nat /\ last - first \in Nat /\ d - first <= last - first
    BY <1>5
  <2>2. /\ q \in Nat /\ e <= d - first
        /\ d - first < e + span /\ q <= (last - first) \div span
    BY <2>1, DivisionBySpan
  <2>3. n = (last - first) \div span + 1
    BY <2>1 DEF n
  <2>4. (last - first) \div span \in Nat
    BY <2>1, DivisionBySpan
  <2>5. e \in Nat /\ (q + 1) * span = e + span /\ (q + 1) - 1 = q
    BY <1>3, <2>2
  <2> HIDE DEF q, e
  <2>6. q + 1 \in 1..n
    BY <2>2, <2>3, <2>4
  <2>7. /\ first + e <= d
        /\ d <= IF first + (e + span) - 1 < last THEN first + (e + span) - 1 ELSE last
    BY <1>3, <1>5, <2>2, <2>5
  <2>8. lo(q + 1) = first + e
    <3>1. ((q + 1) - 1) * span = q * span
      BY <2>5
    <3> DEFINE u == ((q + 1) - 1) * span
               v == q * span
    <3>2. u = v
      BY <3>1
    <3> HIDE DEF u, v
    <3>3. first + u = first + v
      BY <3>2
    <3> QED BY <3>3 DEF u, v, e
  <2>9. hi(q + 1) = IF first + (e + span) - 1 < last THEN first + (e + span) - 1 ELSE last
    BY <2>5
  <2> HIDE DEF lo, hi
  <2> QED BY <2>6, <2>7, <2>8, <2>9
<1> DEFINE W == Intra!Windows(first, last, span)
<1>6. \A w \in WindowSet(first, last, span) :
         /\ w[1] \in Int /\ w[2] \in Int /\ first <= w[1] /\ w[2] <= last
         /\ w[2] < w[1] + span
  <2> SUFFICES ASSUME NEW w \in WindowSet(first, last, span)
               PROVE  /\ w[1] \in Int /\ w[2] \in Int /\ first <= w[1] /\ w[2] <= last
                      /\ w[2] < w[1] + span
    OBVIOUS
  <2>1. PICK k \in DOMAIN W : w = W[k]
    BY DEF WindowSet
  <2>2. k \in 1..n /\ w = <<lo(k), hi(k)>>
    BY <1>1, <1>2, <2>1
  <2> HIDE DEF lo, hi, W
  <2>3. w[1] = lo(k) /\ w[2] = hi(k)
    BY <2>2
  <2> QED BY <1>4, <2>2, <2>3
<1>7. ASSUME NEW d \in first..last
      PROVE  \E w \in WindowSet(first, last, span) : w[1] <= d /\ d <= w[2]
  <2> HIDE DEF lo, hi
  <2>1. PICK k \in 1..n : lo(k) <= d /\ d <= hi(k)
    BY <1>5
  <2> DEFINE w == <<lo(k), hi(k)>>
  <2>2. w \in WindowSet(first, last, span)
    BY <1>1, <1>2 DEF WindowSet
  <2>3. w[1] <= d /\ d <= w[2]
    BY <2>1
  <2> HIDE DEF w
  <2> QED BY <2>2, <2>3
<1> QED BY <1>6, <1>7 DEF CoveredBy

\* The days a provider has between two days, both included.
Between(days, first, last) == {d \in days : first <= d /\ d <= last}

LEMMA DownloadIsWhole ==
  ASSUME NEW days, days \subseteq Int, NEW first, first \in Int, NEW last, last \in Int,
         NEW m, m \in Intra!Sizes
  PROVE  Intra!Download(days, first, last, m) = Between(days, first, last)
<1> DEFINE span == Intra!ChunkDays(m)
           W == WindowSet(first, last, span)
           a == Intra!AnswerDays(m)
<1>1. span \in {3, 7, 21, 30, 60} /\ a \in Int /\ span <= a /\ span \in Int
  <2>1. span \in {3, 7, 21, 30, 60} /\ a \in Int /\ span <= a
    BY ChunksAreAnswered
  <2> QED BY <2>1
<1>2. Intra!Download(days, first, last, m)
        = {d \in UNION {Intra!Answer(days, w, m) : w \in W} : first <= d /\ d <= last}
  BY DEF Intra!Download, WindowSet
<1>3. \A w, d : d \in Intra!Answer(days, w, m)
                   <=> d \in days /\ w[1] <= d /\ d <= w[2] /\ d > w[2] - a
  BY DEF Intra!Answer
<1>4. /\ \A w \in W : /\ w[1] \in Int /\ w[2] \in Int /\ first <= w[1] /\ w[2] <= last
                      /\ w[2] < w[1] + span
      /\ \A d \in first..last : \E w \in W : w[1] <= d /\ d <= w[2]
  <2> HIDE DEF span
  <2>1. span \in {3, 7, 21, 30, 60} /\ first \in Int /\ last \in Int
    BY <1>1
  <2>2. CoveredBy(W, first, last, span)
    BY ONLY <2>1, WindowsCover
  <2> HIDE DEF W
  <2> QED BY <2>2 DEF CoveredBy
<1> HIDE DEF span, W, a
<1>5. ASSUME NEW d \in days, first <= d, d <= last
      PROVE  d \in UNION {Intra!Answer(days, w, m) : w \in W}
  <2>1. d \in first..last
    BY <1>5
  <2>2. PICK w \in W : w[1] <= d /\ d <= w[2]
    BY <1>4, <2>1
  <2>3. d > w[2] - a
    <3> DEFINE u == w[1]
               v == w[2]
    <3>1. u \in Int /\ v \in Int /\ d \in Int /\ v < u + span /\ u <= d
      BY <1>4, <2>2
    <3> HIDE DEF u, v
    <3>2. d > v - a
      BY <1>1, <3>1
    <3> QED BY <3>2 DEF v
  <2> QED BY <1>3, <2>2, <2>3
<1>6. ASSUME NEW w \in W, NEW d \in Intra!Answer(days, w, m), first <= d, d <= last
      PROVE  d \in days /\ first <= d /\ d <= last
  BY <1>3, <1>6
<1> QED BY <1>2, <1>5, <1>6 DEF Between

LEMMA SelectionIsWhole ==
  ASSUME NEW days, days \subseteq Int, NEW first, first \in Int, NEW last, last \in Int
  PROVE  Intra!Selected(days, first, last) = Between(days, first, last)
<1> DEFINE W == WindowSet(first, last, 30)
<1>1. Intra!Selected(days, first, last)
        = UNION {{d \in days : w[1] <= d /\ d < w[2] + 1} : w \in W}
  BY DEF Intra!Selected, Intra!SlabDays, WindowSet
<1>2. /\ \A w \in W : w[1] \in Int /\ w[2] \in Int /\ first <= w[1] /\ w[2] <= last
      /\ \A d \in first..last : \E w \in W : w[1] <= d /\ d <= w[2]
  <2>1. CoveredBy(W, first, last, 30)
    BY WindowsCover
  <2> HIDE DEF W
  <2> QED BY <2>1 DEF CoveredBy
<1> HIDE DEF W
<1>3. ASSUME NEW d \in days, first <= d, d <= last
      PROVE  \E w \in W : w[1] <= d /\ d < w[2] + 1
  <2>1. d \in first..last /\ d \in Int
    BY <1>3
  <2>2. PICK w \in W : w[1] <= d /\ d <= w[2]
    BY <1>2, <2>1
  <2>3. d < w[2] + 1
    BY <1>2, <2>1, <2>2
  <2> QED BY <2>2, <2>3
<1>4. ASSUME NEW w \in W, NEW d \in days, w[1] <= d, d < w[2] + 1
      PROVE  first <= d /\ d <= last
  <2> DEFINE u == w[1]
             v == w[2]
  <2>1. u \in Int /\ v \in Int /\ d \in Int /\ first <= u /\ v <= last /\ u <= d /\ d < v + 1
    BY <1>2, <1>4
  <2> HIDE DEF u, v
  <2> QED BY <2>1
<1> QED BY <1>1, <1>3, <1>4 DEF Between

\* What a run remembers of a ticker: every day of the window it names.
MemoOK(memo, days) ==
    /\ memo \in [first : Int, last : Int, days : SUBSET Int]
    /\ memo.days = Between(days, memo.first, memo.last)

LEMMA RememberKeeps ==
  ASSUME NEW days, days \subseteq Int, NEW m, m \in Intra!Sizes, NEW memo, MemoOK(memo, days),
         NEW r, r \in Int \X Int, NEW next, next = Intra!Remember(days, memo, r, m)
  PROVE  /\ MemoOK(next, days)
         /\ Intra!Served(days, memo, r, m) = Between(days, r[1], r[2])
<1> DEFINE empty == memo = Intra!NoMemo
           first == IF empty \/ r[1] < memo.first THEN r[1] ELSE memo.first
           last == IF empty \/ r[2] > memo.last THEN r[2] ELSE memo.last
           wider == [first |-> first, last |-> last,
                     days |-> Intra!Download(days, first, last, m)]
           known == ~empty /\ r[1] >= memo.first /\ r[2] <= memo.last
<1>1. next = IF known THEN memo ELSE wider
  BY DEF Intra!Remember
<1>2. r[1] \in Int /\ r[2] \in Int /\ memo.first \in Int /\ memo.last \in Int
  BY DEF MemoOK
<1>3. first \in Int /\ last \in Int /\ first <= r[1] /\ r[2] <= last
  <2> HIDE DEF empty
  <2> QED BY <1>2
<1> HIDE DEF first, last
<1>4. MemoOK(wider, days) /\ wider.first <= r[1] /\ r[2] <= wider.last
  <2>1. wider.days = Between(days, first, last)
    BY <1>3, DownloadIsWhole
  <2>2. Between(days, first, last) \in SUBSET Int
    BY DEF Between
  <2> DEFINE got == Intra!Download(days, first, last, m)
  <2> HIDE DEF got
  <2>3. /\ wider.first = first /\ wider.last = last /\ wider.days = Between(days, first, last)
        /\ wider = [first |-> first, last |-> last, days |-> got]
    BY <2>1 DEF got
  <2>4. wider \in [first : Int, last : Int, days : SUBSET Int]
    BY <1>3, <2>2, <2>3
  <2> HIDE DEF wider
  <2> QED BY <1>3, <2>3, <2>4 DEF MemoOK
<1> HIDE DEF wider, empty
<1>5. MemoOK(next, days) /\ next.first <= r[1] /\ r[2] <= next.last
  <2>1. CASE known
    BY <1>1, <1>2, <2>1
  <2>2. CASE ~known
    <3>1. next = wider
      BY <1>1, <2>2
    <3> QED BY <1>4, <3>1
  <2> QED BY <2>1, <2>2
<1>6. Intra!Served(days, memo, r, m) = next.days \intersect (r[1]..r[2])
  BY DEF Intra!Served
<1>7. next.days \intersect (r[1]..r[2]) = Between(days, r[1], r[2])
  <2> DEFINE a == next.first
             b == next.last
             u == r[1]
             v == r[2]
  <2>1. /\ next.days = {d \in days : a <= d /\ d <= b} /\ a \in Int /\ b \in Int
        /\ u \in Int /\ v \in Int /\ a <= u /\ v <= b
    BY <1>2, <1>5 DEF MemoOK, Between
  <2> HIDE DEF a, b, u, v
  <2>2. {d \in days : a <= d /\ d <= b} \intersect (u..v) = {d \in days : u <= d /\ d <= v}
    <3>1. \A d \in days : d \in Int /\ (d \in u..v <=> u <= d /\ d <= v)
      BY <2>1
    <3>2. \A d \in days : d \in u..v => a <= d /\ d <= b
      BY <2>1
    <3> QED BY <3>1, <3>2
  <2> QED BY <2>1, <2>2 DEF u, v, Between
<1> QED BY <1>5, <1>6, <1>7

\* The requests of a run keep what one request keeps.
LEMMA MemoIsKept ==
  ASSUME NEW days, days \subseteq Int, NEW m, m \in Intra!Sizes,
         NEW q, q \in Seq(Int \X Int)
  PROVE  MemoOK(Intra!MemoAfter(days, q, m), days)
<1> DEFINE n == Len(q)
           V == {v \in [first : Int, last : Int, days : SUBSET Int] : MemoOK(v, days)}
           F == [i \in 1..n |-> [v \in V |-> Intra!Remember(days, v, q[i], m)]]
           It(f) == f = [k \in 0..n |-> IF k = 0 THEN Intra!NoMemo
                                        ELSE Intra!Remember(days, f[k - 1], q[k], m)]
           memo == CHOOSE f : It(f)
<1>1. n \in Nat /\ \A i \in 1..n : q[i] \in Int \X Int
  OBVIOUS
<1>2. Intra!MemoAfter(days, q, m) = memo[n]
  BY DEF Intra!MemoAfter
<1>3. Intra!NoMemo \in V
  <2>1. Intra!NoMemo \in [first : Int, last : Int, days : SUBSET Int]
    BY DEF Intra!NoMemo
  <2>2. Intra!NoMemo.days = Between(days, Intra!NoMemo.first, Intra!NoMemo.last)
    <3>1. \A d \in days : ~(0 <= d /\ d <= -1)
      OBVIOUS
    <3> QED BY <3>1 DEF Intra!NoMemo, Between
  <2> QED BY <2>1, <2>2 DEF MemoOK
<1>4. ASSUME NEW i \in 1..n, NEW v \in V
      PROVE  Intra!Remember(days, v, q[i], m) \in V
  <2>1. MemoOK(v, days) /\ q[i] \in Int \X Int
    BY <1>1
  <2>2. MemoOK(Intra!Remember(days, v, q[i], m), days)
    BY ONLY <2>1, days \subseteq Int, m \in Intra!Sizes, RememberKeeps
  <2> QED BY <2>2 DEF MemoOK
<1>5. /\ F \in [1..n -> [V -> V]]
      /\ \A i \in 1..n, v \in V : F[i][v] = Intra!Remember(days, v, q[i], m)
  <2> HIDE DEF V, n
  <2> QED BY <1>4
<1>6. PICK t : Traces(t, n, V, Intra!NoMemo, F)
  <2> HIDE DEF V, F, n
  <2> QED BY <1>1, <1>3, <1>5, TraceExists
<1>7. /\ t \in [0..n -> V] /\ t[0] = Intra!NoMemo
      /\ \A i \in 1..n : t[i - 1] \in V /\ t[i] = F[i][t[i - 1]]
  BY <1>6 DEF Traces
<1>8. It(t)
  <2>1. \A i \in 1..n : t[i] = Intra!Remember(days, t[i - 1], q[i], m)
    <3> HIDE DEF V, F, n
    <3> QED BY <1>5, <1>7
  <2>2. \A i \in 0..n : i # 0 => i \in 1..n
    BY <1>1
  <2> HIDE DEF V, F, n
  <2> QED BY <1>7, <2>1, <2>2
<1>9. It(memo)
  <2> HIDE DEF It
  <2> QED BY <1>8
<1>10. \A i \in 0..n : memo[i] = IF i = 0 THEN Intra!NoMemo
                                ELSE Intra!Remember(days, memo[i - 1], q[i], m)
  <2> HIDE DEF n, memo
  <2> QED BY <1>9
<1>11. \A i \in 0..n : memo[i] \in V
  <2> DEFINE G == {i \in 0..n : memo[i] \in V}
  <2>1. 0 \in G
    <3>1. 0 \in 0..n
      BY <1>1
    <3> HIDE DEF V, n, memo
    <3> QED BY <1>3, <1>10, <3>1
  <2>2. ASSUME NEW i \in 1..n, i - 1 \in G PROVE i \in G
    <3>1. i \in 0..n /\ i # 0 /\ memo[i - 1] \in V
      BY <1>1, <2>2
    <3> HIDE DEF V, n, memo
    <3> QED BY <1>4, <1>10, <3>1
  <2> HIDE DEF V, n, memo, G
  <2>3. 0..n \subseteq G
    BY ONLY <1>1, <2>1, <2>2, PlaceInduction
  <2> QED BY <2>3 DEF G
<1>12. n \in 0..n
  BY <1>1
<1> HIDE DEF n, memo
<1> QED BY <1>2, <1>11, <1>12

LEMMA EveryDayIsServed ==
  ASSUME NEW days, days \subseteq Int, NEW m, m \in Intra!Sizes,
         NEW q, q \in Seq(Int \X Int)
  PROVE  Intra!ServedInFull(days, q, m)
<1>1. ASSUME NEW k \in DOMAIN q
      PROVE  LET r == q[k]
                 in == {d \in days : r[1] <= d /\ d <= r[2]}
             IN  /\ Intra!Served(days, Intra!MemoAfter(days, SubSeq(q, 1, k - 1), m), r, m) = in
                 /\ Intra!Selected(days, r[1], r[2]) = in
  <2> DEFINE r == q[k]
             p == SubSeq(q, 1, k - 1)
             memo == Intra!MemoAfter(days, p, m)
             after == Intra!Remember(days, memo, r, m)
             a == r[1]
             b == r[2]
  <2>1. r \in Int \X Int /\ a \in Int /\ b \in Int
    OBVIOUS
  <2>2. p \in Seq(Int \X Int)
    <3>1. k \in 1..Len(q) /\ Len(q) \in Nat
      OBVIOUS
    <3>2. 1 \in Nat \ {0} /\ k - 1 \in Nat /\ 1 <= k - 1 + 1 /\ k - 1 <= Len(q)
      BY <3>1
    <3> DEFINE l == k - 1
    <3> HIDE DEF l
    <3>3. SubSeq(q, 1, l) \in Seq(Int \X Int)
      BY <3>2, SubSeqView DEF l
    <3> QED BY <3>3 DEF l
  <2>3. MemoOK(memo, days)
    <3> HIDE DEF p
    <3> QED BY <2>2, MemoIsKept
  <2> HIDE DEF r, memo
  <2>4. Intra!Served(days, memo, r, m) = Between(days, r[1], r[2])
    BY ONLY <2>1, <2>3, days \subseteq Int, m \in Intra!Sizes, RememberKeeps
  <2>5. Intra!Selected(days, a, b) = Between(days, a, b)
    <3> HIDE DEF a, b
    <3> QED BY ONLY <2>1, days \subseteq Int, SelectionIsWhole
  <2> QED BY <2>4, <2>5 DEF r, memo, Between
<1> QED BY <1>1 DEF Intra!ServedInFull

LEMMA BarsOfSizes ==
  ASSUME NEW m, m \in Intra!Sizes
  PROVE  /\ m \in Nat \ {0} /\ Intra!BarsPerSession(m) \in {390, 78, 26, 13, 7}
         /\ Intra!BarsPerSession(m) \in Nat /\ Intra!BarsPerSession(m) > 1
<1>1. CASE m = 1
  BY <1>1 DEF Intra!BarsPerSession, Intra!SessionMinutes
<1>2. CASE m = 5
  BY <1>2 DEF Intra!BarsPerSession, Intra!SessionMinutes
<1>3. CASE m = 15
  BY <1>3 DEF Intra!BarsPerSession, Intra!SessionMinutes
<1>4. CASE m = 30
  BY <1>4 DEF Intra!BarsPerSession, Intra!SessionMinutes
<1>5. CASE m = 60
  BY <1>5 DEF Intra!BarsPerSession, Intra!SessionMinutes
<1> QED BY <1>1, <1>2, <1>3, <1>4, <1>5 DEF Intra!Sizes

\* The end of a row that begins on a multiple of s is not after the end of its bar.
LEMMA RowInBar ==
  ASSUME NEW s, s \in Intra!Sizes, NEW m, m \in Intra!Sizes, m % s = 0, NEW k, k \in Nat
  PROVE  k * s + s <= ((k * s) \div m) * m + m
<1>1. CASE m = 1
  BY <1>1 DEF Intra!Sizes
<1>2. CASE m = 5
  <2>1. s = 1 \/ s = 5
    BY <1>2 DEF Intra!Sizes
  <2> QED BY <1>2, <2>1
<1>3. CASE m = 15
  <2>1. s = 1 \/ s = 5 \/ s = 15
    BY <1>3 DEF Intra!Sizes
  <2> QED BY <1>3, <2>1
<1>4. CASE m = 30
  <2>1. s = 1 \/ s = 5 \/ s = 15 \/ s = 30
    BY <1>4 DEF Intra!Sizes
  <2> QED BY <1>4, <2>1
<1>5. CASE m = 60
  BY <1>5 DEF Intra!Sizes
<1> QED BY <1>1, <1>2, <1>3, <1>4, <1>5 DEF Intra!Sizes

\* A row is over when the bar it goes into is labelled.
RowsFit(s, m) ==
    \A r \in Intra!Rows(s) : Intra!Label(r, s) <= Intra!Label(Intra!BucketStart(r, m), m)

LEMMA RowsOfDivisorsFit ==
  ASSUME NEW s, s \in Intra!Sizes, NEW m, m \in Intra!Sizes, m % s = 0
  PROVE  RowsFit(s, m)
<1>1. ASSUME NEW r \in Intra!Rows(s)
      PROVE  Intra!Label(r, s) <= Intra!Label(Intra!BucketStart(r, m), m)
  <2>1. PICK k \in 0..(390 \div s) : r = k * s
    BY DEF Intra!Rows, Intra!SessionMinutes
  <2>2. k \in Nat /\ s \in Nat \ {0} /\ m \in Nat \ {0}
    BY BarsOfSizes
  <2> DEFINE b == (r \div m) * m
  <2>3. r \in Nat
    BY <2>1, <2>2
  <2>4. b \in Int
    <3>1. r \div m \in Int
      BY <2>2, <2>3
    <3> QED BY <2>2, <3>1
  <2>5. r + s <= b + m
    BY ONLY <2>1, <2>2, s \in Intra!Sizes, m \in Intra!Sizes, m % s = 0, RowInBar
  <2> HIDE DEF b
  <2>6. Intra!Label(r, s) <= Intra!Label(b, m)
    BY <2>2, <2>3, <2>4, <2>5 DEF Intra!Label, Intra!SessionMinutes
  <2> QED BY <2>6 DEF b, Intra!BucketStart
<1> QED BY <1>1 DEF RowsFit

LEMMA LabelsIncrease ==
  ASSUME NEW m, m \in Intra!Sizes
  PROVE  \A r \in Intra!Rows(m) :
           Intra!InSession(r + m) => Intra!Label(r, m) < Intra!Label(r + m, m)
<1>1. m \in Nat \ {0}
  BY BarsOfSizes
<1>2. ASSUME NEW r \in Intra!Rows(m), Intra!InSession(r + m)
      PROVE  Intra!Label(r, m) < Intra!Label(r + m, m)
  <2>1. r \in Int
    <3>1. PICK k \in 0..(390 \div m) : r = k * m
      BY DEF Intra!Rows, Intra!SessionMinutes
    <3>2. k \in Nat
      OBVIOUS
    <3> QED BY <1>1, <3>1, <3>2
  <2> QED BY <1>1, <1>2, <2>1 DEF Intra!InSession, Intra!Label, Intra!SessionMinutes
<1> QED BY <1>2

\* The probe of a window whose days have one spacing finds it.
LEMMA OneSpacingIsFound ==
  ASSUME NEW spacing, NEW w, w[1] \in Int, w[2] \in Int, w[1] <= w[2],
         NEW s, s \in Intra!Sizes, \A d \in w[1]..w[2] : spacing[d] = s
  PROVE  s \in Intra!Gap(spacing, w)
<1> DEFINE a == w[1]
           b == w[2]
           gaps == {spacing[d] : d \in {e \in a..b : Intra!BarsPerSession(spacing[e]) > 1}}
           count(g) == Intra!Cardinality({d \in a..b : spacing[d] = g})
                         * (Intra!BarsPerSession(g) - 1)
<1>1. Intra!Gap(spacing, w)
        = {g \in gaps : \A h \in gaps : count(h) < count(g) \/ (count(h) = count(g) /\ g <= h)}
  BY DEF Intra!Gap
<1>2. \A h \in gaps : h = s
  OBVIOUS
<1>3. s \in gaps
  <2>1. a \in a..b
    OBVIOUS
  <2>2. Intra!BarsPerSession(s) > 1
    BY BarsOfSizes
  <2> HIDE DEF a, b
  <2>3. spacing[a] = s
    BY <2>1 DEF a, b
  <2> QED BY <2>1, <2>2, <2>3
<1>4. s <= s
  BY BarsOfSizes
<1> HIDE DEF gaps, count, a, b
<1> QED BY <1>1, <1>2, <1>3, <1>4

\* Two windows of the probe: one at the first day, one at the last.
LEMMA ProbeEnds ==
  ASSUME NEW first, first \in Int, NEW last, last \in Int, first <= last
  PROVE  /\ \E b \in first..last : <<first, b>> \in Intra!ProbeWindows(first, last)
         /\ \E a \in first..last : <<a, last>> \in Intra!ProbeWindows(first, last)
<1> DEFINE q == (last - first) \div 60
           cursors == {first + k * 60 : k \in 0..q}
           lowest == IF last - 5 + 1 > first THEN last - 5 + 1 ELSE first
           end(c) == IF c + 5 - 1 < last THEN c + 5 - 1 ELSE last
           final == first + q * 60
<1>1. Intra!ProbeWindows(first, last)
        = IF lowest <= end(final)
          THEN {<<c, end(c)>> : c \in cursors \ {final}} \union {<<final, last>>}
          ELSE {<<c, end(c)>> : c \in cursors} \union {<<lowest, last>>}
  BY DEF Intra!ProbeWindows, Intra!SampleDays, Intra!SampleEvery
<1>2. last - first \in Nat
  OBVIOUS
<1>3. q \in Nat /\ q * 60 <= last - first
  <2>1. 0 \in Nat /\ 60 \in {3, 7, 21, 30, 60} /\ last - first <= last - first
    BY <1>2
  <2> QED BY <1>2, <2>1, DivisionBySpan
<1>4. first \in cursors /\ final \in first..last
  <2>1. 0 \in 0..q /\ first = first + 0 * 60
    BY <1>3
  <2>2. first \in cursors
    BY <2>1
  <2> HIDE DEF q, cursors
  <2> QED BY <1>3, <2>2
<1>5. lowest \in first..last /\ end(first) \in first..last
  OBVIOUS
<1> HIDE DEF cursors, lowest, end, final
<1>6. CASE lowest <= end(final)
  <2>1. <<final, last>> \in Intra!ProbeWindows(first, last)
    BY <1>1, <1>6
  <2>2. CASE first = final
    <3>1. last \in first..last
      OBVIOUS
    <3> QED BY <1>4, <2>1, <2>2, <3>1
  <2>3. CASE first # final
    <3>1. <<first, end(first)>> \in Intra!ProbeWindows(first, last)
      BY <1>1, <1>4, <1>6, <2>3
    <3> QED BY <1>4, <1>5, <2>1, <3>1
  <2> QED BY <2>2, <2>3
<1>7. CASE ~(lowest <= end(final))
  <2>1. <<first, end(first)>> \in Intra!ProbeWindows(first, last)
    BY <1>1, <1>4, <1>7
  <2>2. <<lowest, last>> \in Intra!ProbeWindows(first, last)
    BY <1>1, <1>7
  <2> QED BY <1>5, <2>1, <2>2
<1> QED BY <1>6, <1>7

LEMMA StoresDoNotLookAhead ==
  ASSUME NEW coarse, coarse \in Intra!Sizes, NEW fine, fine \in Intra!Sizes,
         NEW from, from \in Int, NEW first, first \in Int, NEW last, last \in Int,
         first <= last, NEW m, m \in Intra!Sizes
  PROVE  Intra!NothingFromTheFuture(coarse, fine, from, first, last, m)
<1> DEFINE spacing == [d \in first..last |-> IF d < from THEN coarse ELSE fine]
           unseen == \E w \in Intra!ProbeWindows(first, last) : w[1] < from /\ from <= w[2]
<1>1. ASSUME NEW a, a \in first..last, NEW b, b \in a..last,
             <<a, b>> \in Intra!ProbeWindows(first, last), ~unseen,
             Intra!ResolutionAccepted(spacing, first, last, m)
      PROVE  spacing[a] = spacing[b] /\ RowsFit(spacing[a], m)
  <2> DEFINE s == spacing[a]
  <2>1. s \in Intra!Sizes
    BY <1>1
  <2>2. ~(a < from /\ from <= b)
    <3>1. <<a, b>>[1] = a /\ <<a, b>>[2] = b
      OBVIOUS
    <3> DEFINE w == <<a, b>>
    <3>2. w \in Intra!ProbeWindows(first, last) /\ w[1] = a /\ w[2] = b
      BY <1>1, <3>1
    <3> HIDE DEF w
    <3> QED BY <1>1, <3>2
  <2>3. /\ a \in Int /\ b \in Int /\ a <= b
        /\ \A d \in a..b : d \in first..last /\ (d < from <=> a < from)
    BY <1>1, <2>2
  <2>4. \A d \in a..b : spacing[d] = s
    BY <1>1, <2>3
  <2> HIDE DEF spacing, s
  <2>5. s \in Intra!Gap(spacing, <<a, b>>)
    <3>1. <<a, b>>[1] = a /\ <<a, b>>[2] = b
      OBVIOUS
    <3> DEFINE w == <<a, b>>
    <3> HIDE DEF w
    <3>2. w[1] = a /\ w[2] = b
      BY <3>1 DEF w
    <3>3. s \in Intra!Gap(spacing, w)
      BY ONLY <2>1, <2>3, <2>4, <3>2, OneSpacingIsFound
    <3> QED BY <3>3 DEF w
  <2>6. m % s = 0
    BY <1>1, <2>5 DEF Intra!ResolutionAccepted
  <2>7. RowsFit(s, m)
    BY ONLY <2>1, <2>6, m \in Intra!Sizes, RowsOfDivisorsFit
  <2>8. b \in a..b
    BY <2>3
  <2> QED BY <2>4, <2>7, <2>8 DEF s
<1>2. PICK b \in first..last : <<first, b>> \in Intra!ProbeWindows(first, last)
  BY ProbeEnds
<1>3. PICK a \in first..last : <<a, last>> \in Intra!ProbeWindows(first, last)
  BY ProbeEnds
<1>4. /\ first \in first..last /\ b \in first..last
      /\ a \in first..last /\ last \in a..last
  OBVIOUS
<1> HIDE DEF spacing, unseen
<1>5. ~unseen /\ Intra!ResolutionAccepted(spacing, first, last, m)
        => RowsFit(spacing[first], m) /\ RowsFit(spacing[last], m)
  <2> SUFFICES ASSUME ~unseen, Intra!ResolutionAccepted(spacing, first, last, m)
               PROVE  RowsFit(spacing[first], m) /\ RowsFit(spacing[last], m)
    OBVIOUS
  <2>1. RowsFit(spacing[first], m)
    BY <1>1, <1>2, <1>4
  <2>2. spacing[a] = spacing[last] /\ RowsFit(spacing[a], m)
    BY <1>1, <1>3, <1>4
  <2> QED BY <2>1, <2>2
<1>6. \A s \in {spacing[first], spacing[last]} : s = spacing[first] \/ s = spacing[last]
  OBVIOUS
<1> QED BY <1>5, <1>6, LabelsIncrease DEF Intra!NothingFromTheFuture, RowsFit, spacing, unseen

LEMMA WeekdayIs ==
  ASSUME NEW d
  PROVE  Intra!Weekday(d) <=> IsWeekday(d)
  BY DEF Intra!Weekday, IsWeekday

LEMMA IntraCardinality ==
  ASSUME NEW S
  PROVE  Intra!Cardinality(S) = Cardinality(S)
  BY DEF Intra!Cardinality, Cardinality, Intra!IsFiniteSet, IsFiniteSet

\* An estimate counts the weekdays of its window.
LEMMA EstimateIsExact ==
  ASSUME NEW a, a \in Int, NEW n, n \in Nat, NEW m, m \in Intra!Sizes
  PROVE  Intra!EstimateBars(1, a, (a + n) - 1, m) = Weekdays(a, n) * Intra!BarsPerSession(m)
<1> DEFINE last == (a + n) - 1
           r == n % 7
           q == n \div 7
<1>1. (IF last < a THEN 0 ELSE last - a + 1) = n
  OBVIOUS
<1>2. r \in 0..6 /\ r \in Nat /\ q \in Nat /\ 7 * q + r = n
  OBVIOUS
<1>3. Intra!Cardinality({o \in 0..(r - 1) : Intra!Weekday(a + o)}) = Weekdays(a, r)
  <2>1. {o \in 0..(r - 1) : Intra!Weekday(a + o)} = {o \in 0..(r - 1) : IsWeekday(a + o)}
    <3> HIDE DEF r
    <3>1. \A o \in 0..(r - 1) : Intra!Weekday(a + o) <=> IsWeekday(a + o)
      BY WeekdayIs
    <3> QED BY <3>1
  <2> HIDE DEF r
  <2> QED BY <2>1, IntraCardinality DEF Weekdays
<1>4. Intra!WeekdaysBetween(a, last)
        = q * 5 + Intra!Cardinality({o \in 0..(r - 1) : Intra!Weekday(a + o)})
  <2> HIDE DEF last
  <2> QED BY <1>1 DEF Intra!WeekdaysBetween
<1> HIDE DEF last, r, q
<1>5. Weekdays(a, n) = 5 * q + Weekdays(a, r) /\ Weekdays(a, r) \in Nat
  BY <1>2, WeeksMore, WeekdaysType
<1>6. Intra!WeekdaysBetween(a, last) = Weekdays(a, n)
  BY <1>2, <1>3, <1>4, <1>5
<1>7. Weekdays(a, n) \in Int /\ Intra!BarsPerSession(m) \in Int
  BY <1>2, <1>5, BarsOfSizes
<1> DEFINE W == Weekdays(a, n)
<1> HIDE DEF W
<1>8. W \in Int => 1 * W = W
  OBVIOUS
<1> QED BY <1>6, <1>7, <1>8 DEF W, Intra!EstimateBars, last

\* The calendar days of a warm-up hold its sessions, and one to spare.
LEMMA WarmupIsLong ==
  ASSUME NEW period, period \in Nat \ {0}, NEW m, m \in Intra!Sizes, NEW C, C \in Nat,
         7 * C + 10 >= 5 * Intra!WarmupCalendarDays(period, m)
  PROVE  (C - 1) * Intra!BarsPerSession(m) >= period
<1> DEFINE B == Intra!BarsPerSession(m)
           x == (IF period > 1 THEN period ELSE 1) + B - 1
           S == x \div B
           w == (S * 42 + 24) \div 25 + 4
<1>1. B \in {390, 78, 26, 13, 7} /\ B \in Nat \ {0}
  BY BarsOfSizes
<1>2. Intra!WarmupCalendarDays(period, m) = w
  BY DEF Intra!WarmupCalendarDays
<1> HIDE DEF B
<1>3. x = period + B - 1 /\ x \in Nat
  BY <1>1
<1> HIDE DEF x
<1>4. S \in Nat /\ S * B >= period
  <2>1. CASE B = 390
    BY <1>3, <2>1
  <2>2. CASE B = 78
    BY <1>3, <2>2
  <2>3. CASE B = 26
    BY <1>3, <2>3
  <2>4. CASE B = 13
    BY <1>3, <2>4
  <2>5. CASE B = 7
    BY <1>3, <2>5
  <2> QED BY <1>1, <2>1, <2>2, <2>3, <2>4, <2>5
<1> HIDE DEF S
<1>5. 25 * w >= S * 42 + 100
  BY <1>4
<1>6. w \in Nat
  BY <1>4
<1> HIDE DEF w
<1>7. C - 1 >= S
  BY <1>2, <1>4, <1>5, <1>6
<1>8. (C - 1) * B >= S * B
  <2>1. CASE B = 390
    BY <1>4, <1>7, <2>1
  <2>2. CASE B = 78
    BY <1>4, <1>7, <2>2
  <2>3. CASE B = 26
    BY <1>4, <1>7, <2>3
  <2>4. CASE B = 13
    BY <1>4, <1>7, <2>4
  <2>5. CASE B = 7
    BY <1>4, <1>7, <2>5
  <2> QED BY <1>1, <2>1, <2>2, <2>3, <2>4, <2>5
<1>9. (C - 1) * B \in Int /\ S * B \in Int
  BY <1>1, <1>4
<1> DEFINE u == (C - 1) * B
           v == S * B
<1> HIDE DEF u, v
<1>10. u \in Int /\ v \in Int /\ u >= v /\ v >= period
  BY <1>4, <1>8, <1>9 DEF u, v
<1>11. u >= period
  BY <1>10
<1> QED BY <1>11 DEF u, B

LEMMA LatenessIsRight ==
  ASSUME NEW start, start \in Int
  PROVE  /\ \A holiday \in start..(start + 7) :
               ~Intra!StartsLate({d \in start..(start + 14) : Intra!Weekday(d)} \ {holiday}, start)
         /\ Intra!StartsLate({d \in (start - 7)..(start + 14) : d \notin start..(start + 6)}, start)
<1>1. ASSUME NEW holiday \in start..(start + 7)
      PROVE  ~Intra!StartsLate({d \in start..(start + 14) : Intra!Weekday(d)} \ {holiday}, start)
  <2>1. PICK u \in start..start + 4, v \in start..start + 4 :
               u # v /\ IsWeekday(u) /\ IsWeekday(v)
    BY TwoWeekdaysSoon
  <2>2. PICK d \in {u, v} : d # holiday
    BY <2>1
  <2>3. /\ d \in start..(start + 14) /\ d >= start /\ ~(d > start + 4) /\ Intra!Weekday(d)
    BY <2>1, <2>2, WeekdayIs
  <2> QED BY <2>2, <2>3 DEF Intra!StartsLate, Intra!LateTolerance
<1>2. ASSUME NEW d \in (start - 7)..(start + 14), d \notin start..(start + 6), d >= start
      PROVE  d > start + 4
  BY <1>2
<1>3. Intra!StartsLate({d \in (start - 7)..(start + 14) : d \notin start..(start + 6)}, start)
  BY <1>2 DEF Intra!StartsLate, Intra!LateTolerance
<1> QED BY <1>1, <1>3

LEMMA WarmupsCover ==
  ASSUME NEW period, period \in Nat \ {0}, NEW m, m \in Intra!Sizes, NEW start, start \in Int
  PROVE  Intra!WarmupCovers(period, m, start)
<1> DEFINE w == Intra!WarmupCalendarDays(period, m)
           a == start - w
           C == Weekdays(a, w)
           sessions == Intra!Cardinality({d \in (start - w)..(start - 1) : Intra!Weekday(d)})
<1>1. w \in Nat
  <2> DEFINE B == Intra!BarsPerSession(m)
             x == (IF period > 1 THEN period ELSE 1) + B - 1
             S == x \div B
  <2>1. B \in Nat \ {0}
    BY BarsOfSizes
  <2> HIDE DEF B
  <2>2. x \in Nat
    BY <2>1
  <2> HIDE DEF x
  <2>3. S \in Nat
    BY <2>1, <2>2
  <2> HIDE DEF S
  <2>4. (S * 42 + 24) \div 25 + 4 \in Nat
    BY <2>3
  <2> QED BY <2>4 DEF Intra!WarmupCalendarDays, S, x, B
<1> HIDE DEF w
<1>2. a \in Int /\ (a + w) - 1 = start - 1
  BY <1>1
<1>3. sessions = C
  <2>1. {d \in (start - w)..(start - 1) : Intra!Weekday(d)} = {d \in a..(a + w) - 1 : IsWeekday(d)}
    <3>1. \A d : Intra!Weekday(d) <=> IsWeekday(d)
      BY WeekdayIs
    <3> QED BY <1>2, <3>1
  <2>2. Cardinality({d \in a..(a + w) - 1 : IsWeekday(d)}) = Weekdays(a, w)
    <3> HIDE DEF a
    <3> QED BY <1>1, <1>2, DaysInWindow
  <2> HIDE DEF a
  <2> QED BY <2>1, <2>2, IntraCardinality
<1>4. Intra!EstimateBars(1, a, start - 1, m) = sessions * Intra!BarsPerSession(m)
  <2>1. Intra!EstimateBars(1, a, (a + w) - 1, m) = C * Intra!BarsPerSession(m)
    <3> HIDE DEF a
    <3> QED BY <1>1, <1>2, EstimateIsExact
  <2> HIDE DEF a, C, sessions
  <2> QED BY <1>2, <1>3, <2>1
<1>5. (sessions - 1) * Intra!BarsPerSession(m) >= period
  <2>1. C \in Nat /\ 7 * C + 10 >= 5 * w
    <3> HIDE DEF a
    <3> QED BY <1>1, <1>2, ManyWeekdays
  <2> HIDE DEF C, sessions
  <2>2. (C - 1) * Intra!BarsPerSession(m) >= period
    BY <2>1, WarmupIsLong DEF w
  <2> QED BY <1>3, <2>2
<1> HIDE DEF sessions
<1> QED BY <1>4, <1>5, LatenessIsRight DEF Intra!WarmupCovers, w, sessions

-------------------------------------------------------------------------------
(* The feed of the indicators.                                              *)

LEMMA FeedCardinality ==
  ASSUME NEW S
  PROVE  Feed!Cardinality(S) = Cardinality(S)
  BY DEF Feed!Cardinality, Cardinality, Feed!IsFiniteSet, IsFiniteSet

Earlier == {e \in Int \X Int : e[1] < e[2]}

LEMMA AscendingLists ==
  ASSUME NEW S, S \subseteq Int, IsFiniteSet(S)
  PROVE  Listing(Feed!Ascending(S), S)
<1>1. \A x, y \in S : <<x, y>> \in Earlier <=> x < y
  BY DEF Earlier
<1>2. IsOrder(Earlier, S)
  <2>1. \A x, y, z \in S : x < y /\ y < z => x < z
    OBVIOUS
  <2>2. \A x, y \in S : x = y \/ x < y \/ y < x
    OBVIOUS
  <2>3. \A x \in S : ~(x < x)
    OBVIOUS
  <2> QED BY <1>1, <2>1, <2>2, <2>3 DEF IsOrder
<1>3. ASSUME NEW x \in S
      PROVE  Feed!Cardinality({y \in S : y <= x}) = PlaceOf(Earlier, S, x)
  <2>1. {y \in S : y <= x} = ThoseUpTo(Earlier, S, x)
    <3>1. \A y \in S : y <= x <=> (y = x \/ <<y, x>> \in Earlier)
      BY <1>1
    <3> QED BY <3>1 DEF ThoseUpTo
  <2> QED BY <2>1, FeedCardinality DEF PlaceOf
<1> DEFINE s == [j \in 1..Cardinality(S) |-> CHOOSE x \in S : PlaceOf(Earlier, S, x) = j]
<1>4. Feed!Ascending(S) = s
  <2>1. Feed!Ascending(S)
          = [j \in 1..Cardinality(S) |->
               CHOOSE x \in S : Feed!Cardinality({y \in S : y <= x}) = j]
    BY FeedCardinality DEF Feed!Ascending
  <2>2. ASSUME NEW j
        PROVE  (CHOOSE x \in S : Feed!Cardinality({y \in S : y <= x}) = j)
                 = CHOOSE x \in S : PlaceOf(Earlier, S, x) = j
    BY <1>3
  <2> QED BY <2>1, <2>2
<1>5. ListsAll(s, Earlier, S)
  <2> HIDE DEF s
  <2>1. s = [j \in 1..Cardinality(S) |-> CHOOSE x \in S : PlaceOf(Earlier, S, x) = j]
    BY DEF s
  <2> QED BY ONLY IsFiniteSet(S), <1>2, <2>1, ListOfPlaces
<1> HIDE DEF s
<1>6. \A i, j \in 1..Len(s) : i < j => s[i] < s[j]
  <2>1. \A i \in 1..Len(s) : s[i] \in S
    BY <1>5 DEF ListsAll
  <2> QED BY <1>1, <1>5, <2>1 DEF ListsAll
<1> QED BY <1>4, <1>5, <1>6 DEF ListsAll, Listing

LEMMA FeedFinite ==
  ASSUME NEW S
  PROVE  Feed!IsFiniteSet(S) <=> IsFiniteSet(S)
  BY DEF Feed!IsFiniteSet, IsFiniteSet

Reach(d) == d.lookback * DayTicks

LEMMA ReachIsNatural ==
  ASSUME DayTicks \in Nat \ {0}, NEW d, Feed!FeedRead(d)
  PROVE  Reach(d) \in Nat /\ d.start \in Int /\ d.poll \in Nat
<1>1. d.lookback \in Nat /\ d.start \in Int /\ d.poll \in Nat
  BY DEF Feed!FeedRead
<1> QED BY <1>1 DEF Reach

\* The bars that are loaded, and the times of the loop.
LEMMA LoopIsListed ==
  ASSUME DayTicks \in Nat \ {0}, NEW d, Feed!FeedRead(d)
  PROVE  /\ Feed!LoopTimes(d) \in Seq(Int)
         /\ \A i, j \in 1..Len(Feed!LoopTimes(d)) :
               i < j => Feed!LoopTimes(d)[i] < Feed!LoopTimes(d)[j]
         /\ \A i \in 1..Len(Feed!LoopTimes(d)) : d.start <= Feed!LoopTimes(d)[i]
         /\ \A t \in DOMAIN d.bars : \A b \in d.bars[t] :
               d.start <= b => \E j \in 1..Len(Feed!LoopTimes(d)) : Feed!LoopTimes(d)[j] = b
<1> DEFINE all == {Feed!Loaded(d, t) : t \in DOMAIN d.bars}
           U == UNION all
           S == {b \in U : b >= d.start}
           s == Feed!LoopTimes(d)
<1>1. \A t \in DOMAIN d.bars : IsFiniteSet(d.bars[t]) /\ d.bars[t] \subseteq Int
  BY FeedFinite DEF Feed!FeedRead
<1>2. \A t \in DOMAIN d.bars :
        Feed!Loaded(d, t) = {b \in d.bars[t] : b >= d.start - Reach(d)}
  BY DEF Feed!Loaded, Reach
<1>3. \A t \in DOMAIN d.bars : IsFiniteSet(Feed!Loaded(d, t)) /\ Feed!Loaded(d, t) \subseteq Int
  <2> SUFFICES ASSUME NEW t \in DOMAIN d.bars
               PROVE  IsFiniteSet(Feed!Loaded(d, t)) /\ Feed!Loaded(d, t) \subseteq Int
    OBVIOUS
  <2>1. Feed!Loaded(d, t) \subseteq d.bars[t]
    BY <1>2
  <2> QED BY <1>1, <2>1, FS_Subset
<1>4. IsFiniteSet(U)
  <2>1. IsFiniteSet(DOMAIN d.bars)
    BY FeedFinite DEF Feed!FeedRead
  <2>2. IsFiniteSet(all)
    <3> DEFINE f == [t \in DOMAIN d.bars |-> Feed!Loaded(d, t)]
    <3>1. f \in Surjection(DOMAIN d.bars, all)
      BY DEF Surjection
    <3> HIDE DEF f, all
    <3> QED BY <2>1, <3>1, FS_Surjection
  <2>3. \A x \in all : IsFiniteSet(x)
    BY <1>3
  <2> HIDE DEF all
  <2> QED BY <2>2, <2>3, FS_UNION
<1>5. S \subseteq Int /\ IsFiniteSet(S)
  <2>1. U \subseteq Int
    BY <1>3
  <2>2. S \subseteq U
    OBVIOUS
  <2> HIDE DEF U
  <2> QED BY <1>4, <2>1, <2>2, FS_Subset
<1>6. Listing(s, S)
  <2>1. s = Feed!Ascending(S)
    BY DEF Feed!LoopTimes
  <2> HIDE DEF s, S
  <2> QED BY <1>5, <2>1, AscendingLists
<1>7. ASSUME NEW t \in DOMAIN d.bars, NEW b \in d.bars[t], d.start <= b
      PROVE  b \in S
  <2>1. b \in Int /\ Reach(d) \in Nat /\ d.start \in Int
    BY <1>1, ReachIsNatural
  <2>2. b >= d.start - Reach(d) /\ b >= d.start
    BY <1>7, <2>1
  <2> QED BY <1>2, <2>2
<1>8. \A b \in S : d.start <= b
  BY <1>5, ReachIsNatural
<1> HIDE DEF S
<1>9. s \in Seq(Int) /\ \A i \in 1..Len(s) : s[i] \in S
  <2> HIDE DEF s
  <2>1. s \in Seq(S)
    BY <1>6 DEF Listing
  <2>2. S \subseteq Int
    BY <1>5
  <2> QED BY ONLY <2>1, <2>2, WiderSeq
<1>10. \A i \in 1..Len(s) : d.start <= s[i]
  BY <1>8, <1>9
<1>11. \A i, j \in 1..Len(s) : i < j => s[i] < s[j]
  BY <1>6 DEF Listing
<1>12. \A t \in DOMAIN d.bars : \A b \in d.bars[t] :
          d.start <= b => \E j \in 1..Len(s) : s[j] = b
  BY <1>6, <1>7 DEF Listing
<1> QED BY <1>9, <1>10, <1>11, <1>12

\* The polls are times of the loop, in order, from the first one on.
Polled(p, d) ==
    /\ p \in Seq(Int)
    /\ \A i, j \in 1..Len(p) : i < j => p[i] < p[j]
    /\ \A i \in 1..Len(p) : d.start <= p[i]
    /\ \A t \in DOMAIN d.bars : \A b \in d.bars[t] :
          d.start <= b => Len(p) > 0 /\ p[1] <= b

LEMMA PollsOfTimes ==
  ASSUME NEW d, d.poll \in Nat, NEW times, times = Feed!LoopTimes(d), times \in Seq(Int),
         \A i, j \in 1..Len(times) : i < j => times[i] < times[j]
  PROVE  Admitted(Feed!Polls(d), times, Len(times))
<1> DEFINE n == Len(times)
           V == Seq(Int)
           F == [k \in 1..n |-> [v \in V |-> Admits(v, times[k], d.poll)]]
           It(f) == f = [k \in 0..n |->
                           IF k = 0 THEN <<>>
                           ELSE LET before == f[k - 1]
                                IN  IF before # <<>> /\ times[k] - before[Len(before)] < d.poll
                                    THEN before ELSE Append(before, times[k])]
           polls == CHOOSE f : It(f)
<1>1. n \in Nat /\ \A i \in 1..n : times[i] \in Int
  OBVIOUS
<1>2. Feed!Polls(d) = polls[n]
  BY DEF Feed!Polls
<1>3. <<>> \in V
  OBVIOUS
<1>4. ASSUME NEW k \in 1..n, NEW v \in V
      PROVE  Admits(v, times[k], d.poll) \in V
  BY <1>1 DEF Admits
<1>5. F \in [1..n -> [V -> V]] /\ \A i \in 1..n, v \in V : F[i][v] = Admits(v, times[i], d.poll)
  <2> HIDE DEF V, n
  <2> QED BY <1>4
<1>6. PICK t : Traces(t, n, V, <<>>, F)
  <2> HIDE DEF V, F, n
  <2> QED BY <1>1, <1>3, <1>5, TraceExists
<1>7. /\ t \in [0..n -> V] /\ t[0] = <<>>
      /\ \A i \in 1..n : t[i - 1] \in V /\ t[i] = F[i][t[i - 1]]
  BY <1>6 DEF Traces
<1>8. It(t)
  <2>1. \A i \in 1..n : t[i] = Admits(t[i - 1], times[i], d.poll)
    <3> HIDE DEF V, F, n
    <3> QED BY <1>5, <1>7
  <2>2. \A i \in 0..n : i # 0 => i \in 1..n
    BY <1>1
  <2> HIDE DEF V, F, n
  <2> QED BY <1>7, <2>1, <2>2 DEF Admits
<1>9. It(polls)
  <2> HIDE DEF It
  <2> QED BY <1>8
<1>10. \A k \in 0..n : polls[k] = IF k = 0 THEN <<>> ELSE Admits(polls[k - 1], times[k], d.poll)
  <2> HIDE DEF n, polls
  <2> QED BY <1>9 DEF Admits
<1>11. \A k \in 0..n : Admitted(polls[k], times, k)
  <2> DEFINE G == {k \in 0..n : Admitted(polls[k], times, k)}
  <2>1. 0 \in G
    <3>1. 0 \in 0..n
      BY <1>1
    <3>2. polls[0] = <<>>
      <4> HIDE DEF n, polls
      <4> QED BY <1>10, <3>1
    <3>3. Admitted(<<>>, times, 0)
      BY DEF Admitted
    <3> HIDE DEF n, polls
    <3> QED BY <3>1, <3>2, <3>3
  <2>2. ASSUME NEW k \in 1..n, k - 1 \in G PROVE k \in G
    <3>1. k \in 0..n /\ k # 0 /\ Admitted(polls[k - 1], times, k - 1)
      BY <1>1, <2>2
    <3>2. k \in 1..Len(times)
      OBVIOUS
    <3> HIDE DEF n, polls
    <3>3. polls[k] = Admits(polls[k - 1], times[k], d.poll)
      BY <1>10, <3>1
    <3>4. Admitted(Admits(polls[k - 1], times[k], d.poll), times, k)
      BY <3>1, <3>2, GateKeeps
    <3> QED BY <3>1, <3>3, <3>4
  <2> HIDE DEF n, polls, G
  <2>3. 0..n \subseteq G
    BY ONLY <1>1, <2>1, <2>2, PlaceInduction
  <2> QED BY <2>3 DEF G
<1>12. n \in 0..n
  BY <1>1
<1> HIDE DEF n, polls
<1>13. Admitted(polls[n], times, n)
  BY <1>11, <1>12
<1> QED BY <1>2, <1>13 DEF n

LEMMA PollsAreOrdered ==
  ASSUME DayTicks \in Nat \ {0}, NEW d, Feed!FeedRead(d)
  PROVE  Polled(Feed!Polls(d), d)
<1> DEFINE times == Feed!LoopTimes(d)
           p == Feed!Polls(d)
<1>1. /\ times \in Seq(Int)
      /\ \A i, j \in 1..Len(times) : i < j => times[i] < times[j]
      /\ \A i \in 1..Len(times) : d.start <= times[i]
      /\ \A t \in DOMAIN d.bars : \A b \in d.bars[t] :
            d.start <= b => \E j \in 1..Len(times) : times[j] = b
  BY LoopIsListed
<1>2. Admitted(p, times, Len(times))
  BY <1>1, PollsOfTimes, ReachIsNatural
<1> HIDE DEF times, p
<1>3. \A i \in 1..Len(p) : d.start <= p[i]
  BY <1>1, <1>2 DEF Admitted
<1>4. ASSUME NEW t \in DOMAIN d.bars, NEW b \in d.bars[t], d.start <= b
      PROVE  Len(p) > 0 /\ p[1] <= b
  <2>1. PICK j \in 1..Len(times) : times[j] = b
    BY <1>1, <1>4
  <2>2. Len(times) > 0 /\ 1 \in 1..Len(times)
    BY <1>1
  <2>3. Len(p) > 0 /\ p[1] = times[1]
    BY <1>2, <2>2 DEF Admitted
  <2>4. times[1] <= times[j]
    <3>1. times[1] \in Int /\ (1 < j => times[1] < times[j])
      BY <1>1, <2>2
    <3> QED BY <1>1, <2>2, <3>1
  <2> QED BY <2>1, <2>3, <2>4
<1>5. Polled(p, d)
  BY <1>2, <1>3, <1>4 DEF Admitted, Polled
<1> QED BY <1>5 DEF p

\* What one poll hands on.
Window(d, t, now) == {b \in d.bars[t] : now - Reach(d) <= b /\ b <= now}

LEMMA LatestIs ==
  ASSUME NEW S, S \subseteq Int, IsFiniteSet(S), S # {}
  PROVE  Feed!Latest(S) \in S /\ \A y \in S : y <= Feed!Latest(S)
<1>1. Max(S) \in S /\ \A y \in S : y <= Max(S)
  BY MaxOfFinite
<1>2. \E x \in S : \A y \in S : y <= x
  BY <1>1
<1> QED BY <1>2 DEF Feed!Latest

LEMMA SliceIsWindow ==
  ASSUME DayTicks \in Nat \ {0}, NEW d, Feed!FeedRead(d), NEW t, t \in DOMAIN d.bars,
         NEW now, now \in Int, d.start <= now
  PROVE  /\ Feed!Slice(d, t, now) = Window(d, t, now)
         /\ IsFiniteSet(Window(d, t, now)) /\ Window(d, t, now) \subseteq Int
<1>1. d.bars[t] \subseteq Int /\ IsFiniteSet(d.bars[t])
  BY FeedFinite DEF Feed!FeedRead
<1>2. Feed!Slice(d, t, now)
        = {b \in {c \in d.bars[t] : c >= d.start - Reach(d)} : now - Reach(d) <= b /\ b <= now}
  BY DEF Feed!Slice, Feed!Loaded, Reach
<1>3. Reach(d) \in Nat /\ d.start \in Int
  BY ReachIsNatural
<1>4. \A b \in d.bars[t] : now - Reach(d) <= b => b >= d.start - Reach(d)
  BY <1>1, <1>3
<1>5. Window(d, t, now) \subseteq d.bars[t]
  BY DEF Window
<1>6. IsFiniteSet(Window(d, t, now)) /\ Window(d, t, now) \subseteq Int
  BY <1>1, <1>5, FS_Subset
<1> QED BY <1>2, <1>4, <1>6 DEF Window

Newest(new, w, p, i) ==
    /\ i = 1 => new = IF w = {} THEN {} ELSE {Feed!Latest(w)}
    /\ i # 1 => new = {b \in w : b > p[i - 1]}
    /\ new \subseteq w

LEMMA NewBarsView ==
  ASSUME DayTicks \in Nat \ {0}, NEW d, Feed!FeedRead(d), NEW t, t \in DOMAIN d.bars,
         NEW p, p = Feed!Polls(d), NEW i, i \in 1..Len(p)
  PROVE  /\ Feed!Slice(d, t, p[i]) = Window(d, t, p[i])
         /\ IsFiniteSet(Window(d, t, p[i])) /\ Window(d, t, p[i]) \subseteq Int
         /\ Newest(Feed!NewBars(d, t, i), Window(d, t, p[i]), p, i)
<1>1. Polled(p, d)
  BY PollsAreOrdered
<1>2. p[i] \in Int /\ d.start <= p[i]
  BY <1>1 DEF Polled
<1>3. /\ Feed!Slice(d, t, p[i]) = Window(d, t, p[i])
      /\ IsFiniteSet(Window(d, t, p[i])) /\ Window(d, t, p[i]) \subseteq Int
  BY <1>2, SliceIsWindow
<1> DEFINE w == Window(d, t, p[i])
<1>4. i = 1 => Feed!NewBars(d, t, i) = IF w = {} THEN {} ELSE {Feed!Latest(w)}
  <2> HIDE DEF w
  <2>1. Feed!Slice(d, t, p[i]) = w
    BY <1>3 DEF w
  <2> QED BY <2>1 DEF Feed!NewBars
<1>5. i # 1 => Feed!NewBars(d, t, i) = {b \in w : b > p[i - 1]}
  <2> HIDE DEF w
  <2>1. Feed!Slice(d, t, p[i]) = w
    BY <1>3 DEF w
  <2> QED BY <2>1 DEF Feed!NewBars
<1>6. Feed!NewBars(d, t, i) \subseteq w
  <2>1. w # {} => Feed!Latest(w) \in w
    BY <1>3, LatestIs
  <2> HIDE DEF w
  <2> QED BY <1>4, <1>5, <2>1
<1> QED BY <1>3, <1>4, <1>5, <1>6 DEF Newest

\* The first poll looks no further back than the warm-up already did.
LEMMA FirstBarIsLater ==
  ASSUME DayTicks \in Nat \ {0}, NEW d, Feed!FeedRead(d), NEW t, t \in DOMAIN d.bars,
         NEW p, p = Feed!Polls(d), Len(p) > 0,
         NEW x, x \in Feed!Warmup(d, t), NEW y, y \in Feed!NewBars(d, t, 1)
  PROVE  x <= y
<1> DEFINE w == Window(d, t, p[1])
<1>1. Polled(p, d)
  BY PollsAreOrdered
<1>2. 1 \in 1..Len(p) /\ p[1] \in Int /\ d.start <= p[1]
  BY <1>1 DEF Polled
<1>3. d.bars[t] \subseteq Int /\ x \in d.bars[t] /\ x < d.start /\ x \in Int
  BY DEF Feed!FeedRead, Feed!Warmup
<1>4. Reach(d) \in Nat /\ d.start \in Int
  BY ReachIsNatural
<1>5. /\ IsFiniteSet(w) /\ w \subseteq Int
      /\ Feed!NewBars(d, t, 1) = IF w = {} THEN {} ELSE {Feed!Latest(w)}
  BY <1>2, NewBarsView DEF Newest
<1>6. w # {} /\ y = Feed!Latest(w)
  <2> HIDE DEF w
  <2> QED BY <1>5
<1>7. y \in w /\ \A b \in w : b <= y
  BY <1>5, <1>6, LatestIs
<1>8. y \in Int /\ p[1] - Reach(d) <= y
  BY <1>5, <1>7 DEF Window
<1>9. CASE x \in w
  BY <1>7, <1>9
<1>10. CASE x \notin w
  <2>1. ~(p[1] - Reach(d) <= x) \/ ~(x <= p[1])
    BY <1>3, <1>10 DEF Window
  <2> HIDE DEF w
  <2> QED BY <1>2, <1>3, <1>4, <1>8, <2>1
<1> QED BY <1>9, <1>10

\* What an indicator of t has consumed after the j-th poll.
Consumed(f, j, d, t, p) ==
    /\ f \in Seq(Int) /\ Rising(f)
    /\ \A x \in Int : Has(f, x) <=> x \in Feed!Warmup(d, t)
                                     \/ \E k \in 1..j : x \in Feed!NewBars(d, t, k)
    /\ \A x \in Int : Twice(f, x) => x \in Feed!NewBars(d, t, 1) /\ x \in Feed!Warmup(d, t)
    /\ \A x \in Int : j > 0 /\ Has(f, x) => x <= p[j]
    /\ j > 0 /\ Window(d, t, p[j]) # {}
         => Len(f) > 0 /\ f[Len(f)] = Feed!Latest(Window(d, t, p[j]))

LEMMA WarmupIsRead ==
  ASSUME NEW d, Feed!FeedRead(d), NEW t, t \in DOMAIN d.bars
  PROVE  /\ Feed!Warmup(d, t) \subseteq Int /\ IsFiniteSet(Feed!Warmup(d, t))
         /\ Feed!Warmup(d, t) \subseteq d.bars[t]
         /\ \A x \in Feed!Warmup(d, t) : x < d.start
<1>1. d.bars[t] \subseteq Int /\ IsFiniteSet(d.bars[t])
  BY FeedFinite DEF Feed!FeedRead
<1>2. Feed!Warmup(d, t) \subseteq d.bars[t] /\ \A x \in Feed!Warmup(d, t) : x < d.start
  BY DEF Feed!Warmup
<1> QED BY <1>1, <1>2, FS_Subset

LEMMA WarmupIsConsumed ==
  ASSUME NEW d, Feed!FeedRead(d), NEW t, t \in DOMAIN d.bars, NEW p
  PROVE  Consumed(Feed!Ascending(Feed!Warmup(d, t)), 0, d, t, p)
<1> DEFINE W == Feed!Warmup(d, t)
           a == Feed!Ascending(W)
           e == <<>> \o a
<1>1. W \subseteq Int /\ IsFiniteSet(W)
  BY WarmupIsRead
<1>2. Listing(a, W)
  <2> HIDE DEF W
  <2> QED BY <1>1, AscendingLists
<1>3. a \in Seq(Int)
  <2>1. a \in Seq(W)
    BY <1>2 DEF Listing
  <2> HIDE DEF a, W
  <2> QED BY <1>1, <2>1, WiderSeq
<1> HIDE DEF a, W
<1>4. <<>> \in Seq(Int) /\ Rising(<<>>) /\ \A x \in Int : ~Has(<<>>, x) /\ ~Twice(<<>>, x)
  BY DEF Rising, Has, Twice
<1>5. /\ Rising(e) /\ \A x \in Int : Has(e, x) <=> Has(<<>>, x) \/ x \in W
      /\ \A x \in Int : Twice(e, x) => Twice(<<>>, x) \/ (Has(<<>>, x) /\ x \in W)
  <2>1. \A x \in Int, y \in W : Has(<<>>, x) => x <= y
    BY <1>4
  <2> HIDE DEF e
  <2> QED BY <1>1, <1>2, <1>4, <2>1, ListGoesOn DEF e
<1>6. e = a
  BY <1>3
<1>7. \A x \in Int : (Has(a, x) <=> x \in W) /\ ~Twice(a, x)
  BY <1>4, <1>5, <1>6
<1>8. Consumed(a, 0, d, t, p)
  <2>1. \A k \in 1..0 : FALSE
    OBVIOUS
  <2>2. \A x \in Int : Has(a, x) <=> x \in Feed!Warmup(d, t)
                                     \/ \E k \in 1..0 : x \in Feed!NewBars(d, t, k)
    BY <1>7, <2>1 DEF W
  <2>3. ~(0 > 0)
    OBVIOUS
  <2> QED BY ONLY <1>3, <1>5, <1>6, <1>7, <2>2, <2>3 DEF Consumed
<1> QED BY <1>8 DEF a, W

\* A poll goes on from the poll before.
LEMMA PollIsConsumed ==
  ASSUME DayTicks \in Nat \ {0}, NEW d, Feed!FeedRead(d), NEW t, t \in DOMAIN d.bars,
         NEW p, p = Feed!Polls(d), NEW j, j \in 1..Len(p),
         NEW f, Consumed(f, j - 1, d, t, p)
  PROVE  Consumed(f \o Feed!Ascending(Feed!NewBars(d, t, j)), j, d, t, p)
<1> DEFINE N(k) == Feed!NewBars(d, t, k)
           W == Feed!Warmup(d, t)
           w(k) == Window(d, t, p[k])
           a == Feed!Ascending(N(j))
           g == f \o a
           now == p[j]
           prev == p[j - 1]
<1>1. Polled(p, d)
  BY PollsAreOrdered
<1>2. /\ now \in Int /\ d.start <= now /\ j \in Int /\ j > 0 /\ d.start \in Int
      /\ Reach(d) \in Nat
  BY <1>1, ReachIsNatural DEF Polled
<1>3. j # 1 => j - 1 \in 1..Len(p) /\ prev \in Int /\ prev < now /\ d.start <= prev
  <2> SUFFICES ASSUME j # 1
               PROVE  j - 1 \in 1..Len(p) /\ prev \in Int /\ prev < now /\ d.start <= prev
    OBVIOUS
  <2>1. Len(p) \in Nat
    BY <1>1 DEF Polled
  <2>2. j - 1 \in 1..Len(p) /\ j - 1 < j
    BY <2>1
  <2> QED BY <1>1, <2>2 DEF Polled
<1>19. /\ IsFiniteSet(w(j)) /\ w(j) \subseteq Int
       /\ Newest(N(j), w(j), p, j)
  BY NewBarsView
<1>4. /\ IsFiniteSet(w(j)) /\ w(j) \subseteq Int
      /\ j = 1 => N(j) = IF w(j) = {} THEN {} ELSE {Feed!Latest(w(j))}
      /\ j # 1 => N(j) = {b \in w(j) : b > prev}
      /\ N(j) \subseteq w(j)
  BY <1>19 DEF Newest
<1>5. j # 1 => IsFiniteSet(w(j - 1)) /\ w(j - 1) \subseteq Int
  BY <1>3, NewBarsView
<1>6. W \subseteq Int /\ \A x \in W : x < d.start
  BY WarmupIsRead
<1>7. j = 1 => \A x \in W, y \in N(1) : x <= y
  BY <1>2, FirstBarIsLater
<1>8. \A b \in w(j) : b \in Int /\ now - Reach(d) <= b /\ b <= now
  BY <1>4 DEF Window
<1>9. /\ f \in Seq(Int) /\ Rising(f)
      /\ \A x \in Int : Has(f, x) <=> x \in W \/ \E k \in 1..j - 1 : x \in N(k)
      /\ \A x \in Int : Twice(f, x) => x \in N(1) /\ x \in W
      /\ \A x \in Int : j - 1 > 0 /\ Has(f, x) => x <= prev
      /\ j - 1 > 0 /\ w(j - 1) # {} => Len(f) > 0 /\ f[Len(f)] = Feed!Latest(w(j - 1))
  BY DEF Consumed
<1>10. N(j) \subseteq Int /\ IsFiniteSet(N(j))
  BY <1>4, FS_Subset
<1> HIDE DEF N, W, w, now, prev
<1>11. Listing(a, N(j))
  BY <1>10, AscendingLists
<1>12. ASSUME NEW x \in Int, Has(f, x), NEW y \in N(j) PROVE x <= y
  <2>1. y \in Int
    BY <1>10
  <2>2. CASE j = 1
    <3>1. \A k \in 1..j - 1 : FALSE
      BY <2>2
    <3>2. x \in W
      BY <1>9, <1>12, <3>1
    <3> QED BY <1>7, <2>2, <3>2
  <2>3. CASE j # 1
    <3>1. x <= prev /\ y > prev /\ prev \in Int
      BY <1>2, <1>3, <1>4, <1>9, <1>12, <2>3
    <3> QED BY <2>1, <3>1
  <2> QED BY <2>2, <2>3
<1> HIDE DEF a, g
<1>13. /\ g \in Seq(Int) /\ Rising(g)
       /\ \A x \in Int : Has(g, x) <=> Has(f, x) \/ x \in N(j)
       /\ \A x \in Int : Twice(g, x) => Twice(f, x) \/ (Has(f, x) /\ x \in N(j))
       /\ N(j) # {} => /\ Len(g) > 0 /\ g[Len(g)] \in N(j)
                       /\ \A y \in N(j) : y <= g[Len(g)]
       /\ N(j) = {} => g = f
  <2>1. \A x \in Int, y \in N(j) : Has(f, x) => x <= y
    BY <1>12
  <2>2. f \in Seq(Int) /\ Rising(f)
    BY <1>9
  <2> QED BY ONLY <1>10, <1>11, <2>1, <2>2, ListGoesOn DEF g
<1>14. \A x \in Int : Has(g, x) <=> x \in W \/ \E k \in 1..j : x \in N(k)
  <2>1. 1..j = (1..j - 1) \union {j}
    BY <1>2
  <2> QED BY <1>9, <1>13, <2>1
<1>15. \A x \in Int : Twice(g, x) => x \in N(1) /\ x \in W
  <2> SUFFICES ASSUME NEW x \in Int, Has(f, x), x \in N(j) PROVE x \in N(1) /\ x \in W
    BY <1>9, <1>13
  <2>1. CASE j = 1
    <3>1. \A k \in 1..j - 1 : FALSE
      BY <2>1
    <3> QED BY <1>9, <2>1, <3>1
  <2>2. CASE j # 1
    <3>1. x <= prev /\ x > prev /\ prev \in Int
      BY <1>2, <1>3, <1>4, <1>9, <2>2
    <3> QED BY <3>1
  <2> QED BY <2>1, <2>2
<1>16. \A x \in Int : Has(g, x) => x <= now
  <2> SUFFICES ASSUME NEW x \in Int, Has(g, x) PROVE x <= now
    OBVIOUS
  <2>1. CASE x \in N(j)
    BY <1>4, <1>8, <2>1
  <2>2. CASE Has(f, x) /\ j = 1
    <3>1. \A k \in 1..j - 1 : FALSE
      BY <2>2
    <3>2. x < d.start
      BY <1>6, <1>9, <2>2, <3>1
    <3> QED BY <1>2, <3>2
  <2>3. CASE Has(f, x) /\ j # 1
    BY <1>2, <1>3, <1>9, <2>3
  <2> QED BY <1>13, <2>1, <2>2, <2>3
<1>17. ASSUME w(j) # {} PROVE Len(g) > 0 /\ g[Len(g)] = Feed!Latest(w(j))
  <2> DEFINE l == Feed!Latest(w(j))
             o == g[Len(g)]
  <2>1. l \in w(j) /\ \A b \in w(j) : b <= l
    BY <1>4, <1>17, LatestIs
  <2> HIDE DEF l
  <2>2. CASE N(j) # {}
    <3>1. Len(g) > 0 /\ o \in N(j) /\ \A y \in N(j) : y <= o
      BY <1>13, <2>2
    <3> HIDE DEF o
    <3>2. o \in w(j) /\ o <= l /\ o \in Int /\ l \in Int
      BY <1>4, <1>8, <2>1, <3>1
    <3>3. l \in N(j)
      <4>1. CASE j = 1
        BY <1>4, <1>17, <4>1 DEF l
      <4>2. CASE j # 1
        <5>1. o > prev /\ prev \in Int
          BY <1>3, <1>4, <3>1, <4>2
        <5> QED BY <1>4, <2>1, <3>2, <4>2, <5>1
      <4> QED BY <4>1, <4>2
    <3>4. o = l
      BY <3>1, <3>2, <3>3
    <3> QED BY <3>1, <3>4 DEF o, l
  <2>3. CASE N(j) = {}
    <3>1. j # 1
      BY <1>4, <1>17, <2>3
    <3>2. prev \in Int /\ prev < now /\ l \in Int /\ now - Reach(d) <= l
      BY <1>3, <1>8, <2>1, <3>1
    <3>3. l <= prev
      BY <1>4, <2>1, <2>3, <3>1, <3>2
    <3>4. \A b : b \in w(j - 1) <=> b \in d.bars[t] /\ prev - Reach(d) <= b /\ b <= prev
      BY DEF w, prev, Window
    <3>5. \A b : b \in w(j) <=> b \in d.bars[t] /\ now - Reach(d) <= b /\ b <= now
      BY DEF w, now, Window
    <3>6. l \in w(j - 1)
      BY <1>2, <2>1, <3>2, <3>3, <3>4, <3>5
    <3> DEFINE m == Feed!Latest(w(j - 1))
    <3>7. m \in w(j - 1) /\ \A b \in w(j - 1) : b <= m
      BY <1>5, <3>1, <3>6, LatestIs
    <3> HIDE DEF m
    <3>8. m \in Int /\ l <= m /\ m <= prev
      BY <1>5, <3>1, <3>4, <3>6, <3>7
    <3>9. m \in w(j)
      BY <1>2, <3>2, <3>4, <3>5, <3>7, <3>8
    <3>10. m = l
      BY <2>1, <3>2, <3>8, <3>9
    <3>11. j - 1 > 0
      BY <1>2, <3>1
    <3>12. Len(f) > 0 /\ f[Len(f)] = m
      BY <1>9, <3>6, <3>11 DEF m
    <3>13. g = f
      BY <1>13, <2>3
    <3> QED BY <3>10, <3>12, <3>13 DEF l
  <2> QED BY <2>2, <2>3
<1>18. Consumed(g, j, d, t, p)
  BY ONLY <1>13, <1>14, <1>15, <1>16, <1>17 DEF Consumed, N, W, w, now
<1> QED BY <1>18 DEF g, a, N

LEMMA NewBarsAreInts ==
  ASSUME DayTicks \in Nat \ {0}, NEW d, Feed!FeedRead(d), NEW t, t \in DOMAIN d.bars,
         NEW j, j \in 1..Len(Feed!Polls(d))
  PROVE  /\ Feed!NewBars(d, t, j) \subseteq Int /\ IsFiniteSet(Feed!NewBars(d, t, j))
         /\ Feed!Ascending(Feed!NewBars(d, t, j)) \in Seq(Int)
<1> DEFINE w == Window(d, t, Feed!Polls(d)[j])
           N == Feed!NewBars(d, t, j)
<1>1. IsFiniteSet(w) /\ w \subseteq Int /\ Newest(N, w, Feed!Polls(d), j)
  BY NewBarsView
<1>2. N \subseteq w
  BY <1>1 DEF Newest
<1> HIDE DEF N, w
<1>3. N \subseteq Int /\ IsFiniteSet(N)
  BY <1>1, <1>2, FS_Subset
<1>4. Feed!Ascending(N) \in Seq(N)
  BY <1>3, AscendingLists DEF Listing
<1>5. Feed!Ascending(N) \in Seq(Int)
  BY <1>3, <1>4, WiderSeq
<1> QED BY <1>3, <1>5 DEF N

LEMMA FedIsConsumed ==
  ASSUME DayTicks \in Nat \ {0}, NEW d, Feed!FeedRead(d), NEW t, t \in DOMAIN d.bars,
         NEW p, p = Feed!Polls(d), NEW n, n \in 1..Len(p)
  PROVE  Consumed(Feed!Fed(d, t, n), n, d, t, p)
<1> DEFINE V == Seq(Int)
           A(j) == Feed!Ascending(Feed!NewBars(d, t, j))
           first == Feed!Ascending(Feed!Warmup(d, t))
           F == [j \in 1..n |-> [v \in V |-> v \o A(j)]]
           It(f) == f = [j \in 0..n |-> IF j = 0 THEN first ELSE f[j - 1] \o A(j)]
           fed == CHOOSE f : It(f)
<1>1. n \in Nat /\ Len(p) \in Nat /\ \A j \in 1..n : j \in 1..Len(p)
  <2>1. p \in Seq(Int)
    BY PollsAreOrdered DEF Polled
  <2> QED BY <2>1
<1>2. Feed!Fed(d, t, n) = fed[n]
  BY DEF Feed!Fed
<1>3. first \in V /\ Consumed(first, 0, d, t, p)
  <2>1. Consumed(first, 0, d, t, p)
    BY WarmupIsConsumed
  <2> QED BY <2>1 DEF Consumed
<1>4. ASSUME NEW j \in 1..n, NEW v \in V
      PROVE  v \o A(j) \in V
  <2>1. A(j) \in V
    BY <1>1, NewBarsAreInts
  <2> HIDE DEF A
  <2> QED BY <2>1
<1>5. F \in [1..n -> [V -> V]] /\ \A i \in 1..n, v \in V : F[i][v] = v \o A(i)
  <2> HIDE DEF V, A
  <2> QED BY <1>4
<1>6. PICK s : Traces(s, n, V, first, F)
  <2> HIDE DEF V, F, first
  <2> QED BY <1>1, <1>3, <1>5, TraceExists
<1>7. /\ s \in [0..n -> V] /\ s[0] = first
      /\ \A i \in 1..n : s[i - 1] \in V /\ s[i] = F[i][s[i - 1]]
  BY <1>6 DEF Traces
<1> HIDE DEF A, first
<1>8. It(s)
  <2>1. \A i \in 1..n : s[i] = s[i - 1] \o A(i)
    <3> HIDE DEF V, F
    <3> QED BY <1>5, <1>7
  <2>2. \A i \in 0..n : i # 0 => i \in 1..n
    BY <1>1
  <2> HIDE DEF V, F
  <2> QED BY <1>7, <2>1, <2>2
<1>9. It(fed)
  <2> HIDE DEF It
  <2> QED BY <1>8
<1>10. \A k \in 0..n : fed[k] = IF k = 0 THEN first ELSE fed[k - 1] \o A(k)
  <2> HIDE DEF fed
  <2> QED BY <1>9
<1> HIDE DEF fed
<1>11. \A k \in 0..n : Consumed(fed[k], k, d, t, p)
  <2> DEFINE G == {k \in 0..n : Consumed(fed[k], k, d, t, p)}
  <2>1. 0 \in G
    BY <1>1, <1>3, <1>10
  <2>2. ASSUME NEW k \in 1..n, k - 1 \in G PROVE k \in G
    <3>1. k \in 0..n /\ k # 0 /\ Consumed(fed[k - 1], k - 1, d, t, p) /\ k \in 1..Len(p)
      BY <1>1, <2>2
    <3>2. Consumed(fed[k - 1] \o A(k), k, d, t, p)
      BY <3>1, PollIsConsumed DEF A
    <3> QED BY <1>10, <3>1, <3>2
  <2> HIDE DEF G
  <2>3. 0..n \subseteq G
    BY ONLY <1>1, <2>1, <2>2, PlaceInduction
  <2> QED BY <2>3 DEF G
<1>12. n \in 0..n
  BY <1>1
<1> QED BY <1>2, <1>11, <1>12

LEMMA BarIsFed ==
  ASSUME DayTicks \in Nat \ {0}, NEW d, Feed!FeedRead(d), NEW t, t \in DOMAIN d.bars,
         NEW p, p = Feed!Polls(d), NEW i, i \in 1..Len(p), NEW f, Consumed(f, i, d, t, p),
         NEW b, b \in d.bars[t], d.start <= b,
         NEW j, j \in 1..i, b <= p[j], \A k \in 1..(j - 1) : p[k] < b
  PROVE  Has(f, b) <=> b >= p[j] - Reach(d)
<1> DEFINE N(k) == Feed!NewBars(d, t, k)
           w(k) == Window(d, t, p[k])
<1>1. Polled(p, d)
  BY PollsAreOrdered
<1>2. /\ b \in Int /\ p[j] \in Int /\ j \in 1..Len(p) /\ i \in Int /\ j \in Int
      /\ Reach(d) \in Nat /\ d.start \in Int /\ d.start <= p[j]
  <2>1. d.bars[t] \subseteq Int
    BY DEF Feed!FeedRead
  <2>2. p \in Seq(Int) /\ j \in 1..Len(p)
    BY <1>1 DEF Polled
  <2> QED BY <1>1, <2>1, <2>2, ReachIsNatural DEF Polled
<1>3. b \notin Feed!Warmup(d, t)
  BY <1>2, WarmupIsRead
<1>4. ASSUME NEW k \in 1..i
      PROVE  /\ IsFiniteSet(w(k)) /\ w(k) \subseteq Int
             /\ Newest(N(k), w(k), p, k)
             /\ k \in 1..Len(p)
  <2>1. k \in 1..Len(p)
    BY <1>1 DEF Polled
  <2> QED BY <2>1, NewBarsView
<1>5. \A k \in 1..i : \A x : x \in w(k) <=> x \in d.bars[t] /\ p[k] - Reach(d) <= x /\ x <= p[k]
  BY DEF Window
<1> HIDE DEF N, w
<1>6. ASSUME NEW k \in 1..i, k # j PROVE b \notin N(k)
  <2> SUFFICES ASSUME b \in N(k) PROVE FALSE
    OBVIOUS
  <2>1. b \in w(k) /\ b <= p[k]
    BY <1>4, <1>5 DEF Newest
  <2>2. p[k] \in Int /\ k \in Int
    BY <1>1, <1>4 DEF Polled
  <2>3. k > j
    <3> SUFFICES ASSUME k < j PROVE FALSE
      BY <1>2, <1>6, <2>2
    <3>1. k \in 1..j - 1
      BY <1>2
    <3>2. p[k] < b
      BY <3>1
    <3> QED BY <1>2, <2>1, <2>2, <3>2
  <2>4. k # 1 /\ k - 1 \in 1..i
    BY <1>2, <2>2, <2>3
  <2>5. b > p[k - 1] /\ p[k - 1] \in Int
    BY <1>1, <1>4, <2>4 DEF Newest, Polled
  <2>6. p[j] <= p[k - 1]
    <3>1. k - 1 \in 1..Len(p)
      BY <1>4, <2>4
    <3>2. j < k - 1 => p[j] < p[k - 1]
      BY <1>1, <1>2, <3>1 DEF Polled
    <3>3. j = k - 1 \/ j < k - 1
      BY <1>2, <2>2, <2>3
    <3> QED BY <1>2, <2>5, <3>2, <3>3
  <2> QED BY <1>2, <2>5, <2>6
<1>7. Has(f, b) <=> b \in N(j)
  <2>1. Has(f, b) <=> b \in Feed!Warmup(d, t) \/ \E k \in 1..i : b \in N(k)
    BY <1>2 DEF Consumed, N
  <2> QED BY <1>3, <1>6, <2>1
<1>8. b \in w(j) <=> b >= p[j] - Reach(d)
  BY <1>2, <1>5
<1>9. CASE j # 1
  <2>1. j - 1 \in 1..(j - 1)
    BY <1>2, <1>9
  <2>2. p[j - 1] < b
    BY <2>1
  <2>3. j - 1 \in 1..Len(p)
    BY <1>2, <1>9
  <2>4. p[j - 1] \in Int
    BY <1>1, <2>3 DEF Polled
  <2>5. b \in N(j) <=> b \in w(j)
    BY <1>2, <1>4, <1>9, <2>2, <2>4 DEF Newest
  <2> QED BY <1>7, <1>8, <2>5
<1>10. CASE j = 1
  <2>1. p[1] <= b
    BY <1>1 DEF Polled
  <2>2. b = p[j] /\ b \in w(j)
    BY <1>2, <1>8, <1>10, <2>1
  <2>3. Feed!Latest(w(j)) \in w(j) /\ \A y \in w(j) : y <= Feed!Latest(w(j))
    BY <1>4, <2>2, LatestIs
  <2>4. Feed!Latest(w(j)) = b
    <3> DEFINE l == Feed!Latest(w(j))
    <3>1. l \in Int /\ l <= p[j] /\ b <= l
      BY <1>4, <1>5, <2>2, <2>3
    <3> HIDE DEF l
    <3>2. l = b
      BY <1>2, <2>2, <3>1
    <3> QED BY <3>2 DEF l
  <2>5. b \in N(j)
    BY <1>4, <1>10, <2>2, <2>4 DEF Newest
  <2> QED BY <1>7, <1>8, <2>2, <2>5
<1> QED BY <1>9, <1>10

\* The four promises of one indicator at one poll.
InTimeOrder(f) == \A j, k \in DOMAIN f : j < k => f[j] <= f[k]

OnlyRepeats(f, S) == \A j, k \in DOMAIN f : j < k /\ f[j] = f[k] => f[j] \in S

LEMMA FeedOfOnePoll ==
  ASSUME DayTicks \in Nat \ {0}, NEW d, Feed!FeedRead(d), NEW t, t \in DOMAIN d.bars,
         NEW p, p = Feed!Polls(d), NEW i, i \in 1..Len(p), NEW f, f = Feed!Fed(d, t, i)
  PROVE  /\ f \in Seq(Int) /\ InTimeOrder(f) /\ OnlyRepeats(f, Feed!Repeated(d, t))
         /\ Feed!Exists(d, t, i) => f # <<>> /\ f[Len(f)] = Feed!LatestRow(d, t, i)
<1>1. Consumed(f, i, d, t, p)
  BY FedIsConsumed
<1>2. f \in Seq(Int) /\ DOMAIN f = 1..Len(f) /\ \A j \in 1..Len(f) : f[j] \in Int
  BY <1>1 DEF Consumed
<1>3. InTimeOrder(f)
  BY <1>1, <1>2 DEF Consumed, Rising, InTimeOrder
<1>4. OnlyRepeats(f, Feed!Repeated(d, t))
  <2>1. ASSUME NEW j \in DOMAIN f, NEW k \in DOMAIN f, j < k, f[j] = f[k]
        PROVE  f[j] \in Feed!Repeated(d, t)
    <3>1. Twice(f, f[j]) /\ f[j] \in Int
      BY <1>2, <2>1 DEF Twice
    <3>2. f[j] \in Feed!NewBars(d, t, 1) /\ f[j] \in Feed!Warmup(d, t)
      BY <1>1, <3>1 DEF Consumed
    <3> QED BY <3>2 DEF Feed!Repeated
  <2> QED BY <2>1 DEF OnlyRepeats
<1>5. ASSUME Feed!Exists(d, t, i) PROVE f # <<>> /\ f[Len(f)] = Feed!LatestRow(d, t, i)
  <2>1. Feed!Slice(d, t, p[i]) = Window(d, t, p[i])
    BY NewBarsView
  <2>2. Window(d, t, p[i]) # {}
    BY <1>5, <2>1 DEF Feed!Exists
  <2>3. Feed!LatestRow(d, t, i) = Feed!Latest(Window(d, t, p[i]))
    BY <2>1 DEF Feed!LatestRow
  <2>4. i > 0
    OBVIOUS
  <2>5. Len(f) > 0 /\ f[Len(f)] = Feed!Latest(Window(d, t, p[i]))
    BY <1>1, <2>2, <2>4 DEF Consumed
  <2> QED BY <1>2, <2>3, <2>5
<1> QED BY <1>2, <1>3, <1>4, <1>5

LEMMA BarsOfOnePoll ==
  ASSUME DayTicks \in Nat \ {0}, NEW d, Feed!FeedRead(d), NEW t, t \in DOMAIN d.bars,
         NEW p, p = Feed!Polls(d), NEW i, i \in 1..Len(p), NEW f, f = Feed!Fed(d, t, i),
         NEW b, b \in d.bars[t], d.start <= b, b <= p[i],
         NEW j, j = CHOOSE l \in DOMAIN p : b <= p[l] /\ \A k \in 1..(l - 1) : p[k] < b
  PROVE  (\E k \in DOMAIN f : f[k] = b) <=> b >= p[j] - d.lookback * DayTicks
<1>1. p \in Seq(Int) /\ \A k, l \in 1..Len(p) : k < l => p[k] < p[l]
  BY PollsAreOrdered DEF Polled
<1>2. b \in Int
  BY DEF Feed!FeedRead
<1> DEFINE Right(l) == b <= p[l] /\ \A k \in 1..(l - 1) : p[k] < b
<1>3. PICK m \in 1..i : Right(m)
  BY <1>1, <1>2, PollOfBar
<1>4. m \in DOMAIN p
  BY <1>1
<1>5. j \in DOMAIN p /\ Right(j)
  <2>1. j = CHOOSE l \in DOMAIN p : Right(l)
    OBVIOUS
  <2> HIDE DEF Right
  <2> QED BY <1>3, <1>4, <2>1
<1>6. j \in 1..i
  <2> SUFFICES ASSUME i < j PROVE FALSE
    BY <1>1, <1>5
  <2>1. i \in 1..(j - 1)
    BY <1>1, <1>5
  <2>2. \A k \in 1..(j - 1) : p[k] < b
    BY <1>5
  <2>3. p[i] \in Int
    BY <1>1
  <2>4. p[i] < b
    BY ONLY <2>1, <2>2
  <2> QED BY ONLY <1>2, <2>3, <2>4, b <= p[i]
<1>7. Consumed(f, i, d, t, p)
  BY FedIsConsumed
<1>8. Has(f, b) <=> b >= p[j] - Reach(d)
  <2>1. b <= p[j]
    BY <1>5
  <2>2. \A k \in 1..(j - 1) : p[k] < b
    BY <1>5
  <2> HIDE DEF Right
  <2> QED BY <1>6, <1>7, <2>1, <2>2, BarIsFed
<1>9. DOMAIN f = 1..Len(f)
  BY <1>7 DEF Consumed
<1> QED BY <1>8, <1>9 DEF Has, Reach

LEMMA FeedIsKept ==
  ASSUME DayTicks \in Nat \ {0}, NEW d, Feed!FeedRead(d)
  PROVE  Feed!FeedIsFaithful(d)
<1> DEFINE p == Feed!Polls(d)
           next(b) == CHOOSE j \in DOMAIN p : b <= p[j] /\ \A k \in 1..(j - 1) : p[k] < b
<1>1. DOMAIN p = 1..Len(p)
  BY PollsAreOrdered DEF Polled
<1>2. ASSUME NEW t \in DOMAIN d.bars, NEW i \in DOMAIN p
      PROVE  LET f == Feed!Fed(d, t, i)
                 times == {f[j] : j \in DOMAIN f}
             IN  /\ InTimeOrder(f)
                 /\ OnlyRepeats(f, Feed!Repeated(d, t))
                 /\ \A b \in d.bars[t] :
                       d.start <= b /\ b <= p[i]
                          => (b \in times <=> b >= p[next(b)] - d.lookback * DayTicks)
                 /\ Feed!Exists(d, t, i) => f # <<>> /\ f[Len(f)] = Feed!LatestRow(d, t, i)
  <2> DEFINE f == Feed!Fed(d, t, i)
             times == {f[j] : j \in DOMAIN f}
  <2>1. i \in 1..Len(p)
    BY <1>1
  <2>2. /\ InTimeOrder(f) /\ OnlyRepeats(f, Feed!Repeated(d, t))
        /\ Feed!Exists(d, t, i) => f # <<>> /\ f[Len(f)] = Feed!LatestRow(d, t, i)
    BY <2>1, FeedOfOnePoll
  <2>3. ASSUME NEW b \in d.bars[t], d.start <= b /\ b <= p[i]
        PROVE  b \in times <=> b >= p[next(b)] - d.lookback * DayTicks
    <3> DEFINE j == next(b)
    <3>1. j = CHOOSE l \in DOMAIN p : b <= p[l] /\ \A k \in 1..(l - 1) : p[k] < b
      OBVIOUS
    <3>2. b \in times <=> \E k \in DOMAIN f : f[k] = b
      <4> HIDE DEF f
      <4> QED OBVIOUS
    <3> HIDE DEF p, f, j
    <3>3. (\E k \in DOMAIN f : f[k] = b) <=> b >= p[j] - d.lookback * DayTicks
      BY <2>1, <2>3, <3>1, BarsOfOnePoll DEF p, f
    <3> QED BY <3>2, <3>3 DEF j
  <2> QED BY <2>2, <2>3
<1> QED BY <1>2 DEF Feed!FeedIsFaithful, InTimeOrder, OnlyRepeats

-------------------------------------------------------------------------------
(* What a report says.                                                      *)

\* The least and the greatest of a finite set.
LEMMA GreatestIs ==
  ASSUME NEW S, S \subseteq Int, IsFiniteSet(S), S # {}
  PROVE  Report!Greatest(S) \in S /\ \A y \in S : y <= Report!Greatest(S)
<1>1. Max(S) \in S /\ \A y \in S : y <= Max(S)
  BY MaxOfFinite
<1>2. \E x \in S : \A y \in S : y <= x
  BY <1>1
<1> QED BY <1>2 DEF Report!Greatest

LEMMA GreatestIsOne ==
  ASSUME NEW S, S \subseteq Int, IsFiniteSet(S), NEW x, x \in S, \A y \in S : y <= x
  PROVE  Report!Greatest(S) = x
<1> DEFINE g == Report!Greatest(S)
<1>1. g \in S /\ \A y \in S : y <= g
  BY GreatestIs
<1>2. g <= x /\ x <= g /\ g \in Int /\ x \in Int
  BY <1>1
<1> HIDE DEF g
<1>3. g = x
  BY <1>2
<1> QED BY <1>3 DEF g

LEMMA LeastIs ==
  ASSUME NEW S, S \subseteq Int, IsFiniteSet(S), S # {}
  PROVE  Report!Least(S) \in S /\ \A y \in S : Report!Least(S) <= y
<1>1. \E x \in S : \A y \in S : x <= y
  BY LeastOfFinite
<1> QED BY <1>1 DEF Report!Least

\* Rows with a time: the first and the last of them.
Timed(S) == IsFiniteSet(S) /\ \A o \in S : o.time \in Int

OneEach(S) == \A o, p \in S : o.time = p.time => o = p

LEMMA TimesOf ==
  ASSUME NEW S, Timed(S)
  PROVE  /\ {o.time : o \in S} \subseteq Int /\ IsFiniteSet({o.time : o \in S})
         /\ S # {} => {o.time : o \in S} # {}
<1> DEFINE f == [o \in S |-> o.time]
           T == {o.time : o \in S}
<1>1. f \in Surjection(S, T)
  BY DEF Surjection
<1>2. T \subseteq Int /\ (S # {} => T # {})
  BY DEF Timed
<1> HIDE DEF f, T
<1>3. IsFiniteSet(T)
  BY <1>1, FS_Surjection DEF Timed
<1> QED BY <1>2, <1>3 DEF T

LEMMA LastRowIs ==
  ASSUME NEW S, Timed(S), S # {}
  PROVE  /\ Report!Latest(S) \in S
         /\ \A o \in S : o.time <= Report!Latest(S).time
<1> DEFINE T == {o.time : o \in S}
           g == Report!Greatest(T)
<1>1. T \subseteq Int /\ IsFiniteSet(T) /\ T # {}
  BY TimesOf
<1>2. g \in T /\ \A y \in T : y <= g
  <2> HIDE DEF T
  <2> QED BY <1>1, GreatestIs
<1>3. Report!Latest(S) = CHOOSE o \in S : o.time = g
  BY DEF Report!Latest
<1> HIDE DEF g
<1>4. \E o \in S : o.time = g
  BY <1>2
<1>5. Report!Latest(S) \in S /\ Report!Latest(S).time = g
  BY <1>3, <1>4
<1> QED BY <1>2, <1>5

LEMMA LastRowIsOne ==
  ASSUME NEW S, Timed(S), OneEach(S), NEW l, l \in S, \A o \in S : o.time <= l.time
  PROVE  Report!Latest(S) = l
<1> DEFINE m == Report!Latest(S)
<1>1. m \in S /\ \A o \in S : o.time <= m.time
  BY LastRowIs
<1> HIDE DEF m
<1>2. m.time = l.time
  BY <1>1 DEF Timed
<1>3. m = l
  BY <1>1, <1>2 DEF OneEach
<1> QED BY <1>3 DEF m

LEMMA FirstRowIs ==
  ASSUME NEW obs, NEW t, Timed(Report!Quotes(obs, t)), Report!Quotes(obs, t) # {}
  PROVE  /\ Report!Entry(obs, t) \in Report!Quotes(obs, t)
         /\ \A o \in Report!Quotes(obs, t) : Report!Entry(obs, t).time <= o.time
<1> DEFINE S == Report!Quotes(obs, t)
           T == {o.time : o \in S}
           g == Report!Least(T)
           e == Report!Entry(obs, t)
<1> HIDE DEF S
<1>1. T \subseteq Int /\ IsFiniteSet(T) /\ T # {}
  BY TimesOf DEF S
<1>2. g \in T /\ \A y \in T : g <= y
  <2> HIDE DEF T
  <2> QED BY <1>1, LeastIs
<1>3. e = CHOOSE o \in S : o.time = g
  BY DEF Report!Entry, S
<1> HIDE DEF g, e
<1>4. \E o \in S : o.time = g
  BY <1>2
<1>5. e \in S /\ e.time = g
  BY <1>3, <1>4
<1>6. e \in S /\ \A o \in S : e.time <= o.time
  BY <1>2, <1>5
<1> QED BY <1>6 DEF e, S

\* The account that the fills leave.
LEMMA ReportSums ==
  ASSUME NEW f
  PROVE  Report!SumFunction(f) = SumFunction(f)
  BY DEF Report!SumFunction, Report!SumFunctionOnSet, Report!FoldFunctionOnSet,
         Report!MapThenFoldSet, SumFunction, SumFunctionOnSet, FoldFunctionOnSet, MapThenFoldSet

LEMMA FilledRows ==
  ASSUME NEW fills, NEW rows, NEW capital, NEW grid,
         Report!LedgerRead(fills, rows, capital, grid)
  PROVE  /\ capital \in Int /\ grid \subseteq Int /\ IsFiniteSet(grid)
         /\ IsFiniteSet(DOMAIN rows) /\ IsFiniteSet(DOMAIN fills)
         /\ \A i \in DOMAIN rows :
               rows[i].time \in Int /\ rows[i].price \in Int \union {Missing}
         /\ \A i \in DOMAIN fills :
               /\ fills[i].time \in grid /\ fills[i].ticker \in {rows[j].ticker : j \in DOMAIN rows}
               /\ fills[i].shares \in Int /\ fills[i].price \in Int /\ fills[i].fees \in Int
<1> DEFINE T == {rows[i].ticker : i \in DOMAIN rows}
<1>1. /\ capital \in Int /\ grid \subseteq Int
      /\ rows \in Seq([time : Int, ticker : T, price : Int \union {Missing}])
      /\ fills \in Seq([time : grid, ticker : T, shares : Int, price : Int, fees : Int])
  BY DEF Report!LedgerRead
<1>2. IsFiniteSet(grid)
  BY DEF Report!LedgerRead, Report!IsFiniteSet, IsFiniteSet
<1> HIDE DEF T
<1>3. DOMAIN rows = 1..Len(rows) /\ DOMAIN fills = 1..Len(fills)
      /\ Len(rows) \in Nat /\ Len(fills) \in Nat
  BY <1>1
<1>4. IsFiniteSet(DOMAIN rows) /\ IsFiniteSet(DOMAIN fills)
  BY <1>3, FS_Interval
<1>5. \A i \in DOMAIN rows : rows[i] \in [time : Int, ticker : T, price : Int \union {Missing}]
  BY <1>1, ElementsOf
<1>6. \A i \in DOMAIN fills :
        fills[i] \in [time : grid, ticker : T, shares : Int, price : Int, fees : Int]
  BY <1>1, ElementsOf
<1>7. \A i \in DOMAIN rows : rows[i].time \in Int /\ rows[i].price \in Int \union {Missing}
  BY <1>5
<1>8. \A i \in DOMAIN fills :
        /\ fills[i].time \in grid /\ fills[i].ticker \in T
        /\ fills[i].shares \in Int /\ fills[i].price \in Int /\ fills[i].fees \in Int
  BY <1>6
<1> QED BY <1>1, <1>2, <1>4, <1>7, <1>8 DEF T

LEMMA PositionIs ==
  ASSUME NEW fills, IsFiniteSet(DOMAIN fills), \A i \in DOMAIN fills : fills[i].shares \in Int,
         NEW t, NEW m
  PROVE  /\ Report!PositionAfter(fills, t, m) \in Int
         /\ Report!PositionAfter(fills, t, m) # 0
              => \E i \in Report!Done(fills, m) : fills[i].ticker = t
<1> DEFINE D == {j \in Report!Done(fills, m) : fills[j].ticker = t}
           f == [i \in D |-> fills[i].shares]
<1>1. D \subseteq DOMAIN fills
  BY DEF Report!Done
<1>2. IsFiniteSet(D)
  BY <1>1, FS_Subset
<1>3. f \in [D -> Int]
  BY <1>1
<1>4. Report!PositionAfter(fills, t, m) = SumFunction(f)
  BY ReportSums DEF Report!PositionAfter
<1>5. SumFunction(f) \in Int
  <2> HIDE DEF f, D
  <2> QED BY <1>2, <1>3, SumIsInt
<1>6. SumFunction(f) # 0 => D # {}
  <2> SUFFICES ASSUME D = {} PROVE SumFunction(f) = 0
    OBVIOUS
  <2>1. f \in [{} -> Int]
    <3> HIDE DEF f, D
    <3> QED BY <1>3
  <2> HIDE DEF f, D
  <2> QED BY <2>1, SumOfNothing
<1> QED BY <1>4, <1>5, <1>6

\* The last price of a ticker up to a minute, and what the grid makes of it.
TickersOf(rows) == {rows[i].ticker : i \in DOMAIN rows}

PricedRows(rows, t, m) ==
    {rows[i] : i \in {j \in DOMAIN rows :
        rows[j].ticker = t /\ rows[j].time <= m /\ rows[j].price # Missing}}

LastPrice(rows, t, m) == Report!Latest(PricedRows(rows, t, m)).price

LEMMA InForceIs ==
  ASSUME NEW rows, \A i \in DOMAIN rows : rows[i].price \in Int \union {Missing},
         NEW t, NEW m
  PROVE  Report!InForce(rows, t, m) \in Int \union {Missing}
BY DEF Report!InForce

LEMMA InForceIsLast ==
  ASSUME NEW rows, IsFiniteSet(DOMAIN rows), Report!Pivots(rows),
         \A i \in DOMAIN rows : rows[i].time \in Int /\ rows[i].price \in Int \union {Missing},
         NEW t, NEW m, m \in Int, Report!InForce(rows, t, m) # Missing
  PROVE  Report!InForce(rows, t, m) = LastPrice(rows, t, m)
<1> DEFINE past == {j \in DOMAIN rows : rows[j].time <= m}
           times == {rows[i].time : i \in past}
           g == Report!Greatest(times)
           cell == {i \in DOMAIN rows : rows[i].ticker = t /\ rows[i].time = g}
           c == CHOOSE i \in cell : TRUE
           J == {j \in past : rows[j].ticker = t /\ rows[j].price # Missing}
           known == PricedRows(rows, t, m)
           last == Report!Latest(known)
<1>1. Report!InForce(rows, t, m)
        = IF times = {} \/ cell = {} THEN Missing ELSE rows[c].price
  BY DEF Report!InForce
<1>2. times # {} /\ cell # {} /\ Report!InForce(rows, t, m) = rows[c].price
  <2> HIDE DEF times, cell, c
  <2> QED BY <1>1
<1>3. c \in DOMAIN rows /\ rows[c].ticker = t /\ rows[c].time = g /\ rows[c].price # Missing
  <2>1. c \in cell
    <3> HIDE DEF cell
    <3> QED BY <1>2
  <2> HIDE DEF c, g
  <2> QED BY <1>2, <2>1
<1>4. times \subseteq Int /\ IsFiniteSet(times)
  <2>1. IsFiniteSet(past)
    BY FS_Subset
  <2>2. [i \in past |-> rows[i].time] \in Surjection(past, times)
    BY DEF Surjection
  <2>3. times \subseteq Int
    OBVIOUS
  <2> HIDE DEF past, times
  <2> QED BY <2>1, <2>2, <2>3, FS_Surjection
<1>5. g \in times /\ \A y \in times : y <= g
  <2> HIDE DEF times
  <2> QED BY <1>2, <1>4, GreatestIs
<1>6. g \in Int /\ g <= m
  <2> HIDE DEF g
  <2> QED BY <1>5
<1> HIDE DEF c, g
<1>7. known = {rows[i] : i \in J}
  BY DEF PricedRows
<1>8. rows[c] \in known
  BY <1>3, <1>6, <1>7
<1>9. Timed(known)
  <2>1. IsFiniteSet(J)
    BY FS_Subset
  <2>2. [i \in J |-> rows[i]] \in Surjection(J, known)
    BY <1>7 DEF Surjection
  <2>3. IsFiniteSet(known)
    <3> HIDE DEF J, known
    <3> QED BY <2>1, <2>2, FS_Surjection
  <2>4. \A o \in known : o.time \in Int
    BY <1>7
  <2> HIDE DEF known
  <2> QED BY <2>3, <2>4 DEF Timed
<1>10. last \in known /\ rows[c].time <= last.time
  <2> HIDE DEF known
  <2> QED BY <1>8, <1>9, LastRowIs
<1> HIDE DEF last
<1>11. PICK j \in J : last = rows[j]
  BY <1>7, <1>10
<1>12. /\ j \in DOMAIN rows /\ rows[j].ticker = t /\ rows[j].time \in Int
       /\ rows[j].time \in times
  BY <1>11
<1> HIDE DEF times, J, known, past
<1>13. rows[j].time = rows[c].time
  BY <1>3, <1>5, <1>6, <1>10, <1>11, <1>12
<1>14. j = c
  BY <1>3, <1>12, <1>13 DEF Report!Pivots
<1> QED BY <1>2, <1>11, <1>14 DEF LastPrice, last, known

LEMMA GridPriceIs ==
  ASSUME NEW rows, \A i \in DOMAIN rows : rows[i].price \in Int \union {Missing},
         NEW grid, grid \subseteq Int, IsFiniteSet(grid), NEW t, NEW m, m \in grid
  PROVE  /\ Report!GridPrice(rows, grid, t, m) \in Int
         /\ Report!InForce(rows, t, m) # Missing
              => Report!GridPrice(rows, grid, t, m) = Report!InForce(rows, t, m)
<1> DEFINE priced == {g \in grid : m <= g /\ Report!InForce(rows, t, g) # Missing}
           l == Report!Least(priced)
<1>1. \A g : Report!InForce(rows, t, g) \in Int \union {Missing}
  BY InForceIs
<1>2. Report!GridPrice(rows, grid, t, m)
        = IF priced = {} THEN 0 ELSE Report!InForce(rows, t, l)
  BY DEF Report!GridPrice
<1>3. priced \subseteq Int /\ IsFiniteSet(priced)
  BY FS_Subset
<1>4. priced # {} => l \in priced /\ \A y \in priced : l <= y
  <2> HIDE DEF priced
  <2> QED BY <1>3, LeastIs
<1> HIDE DEF l
<1>5. priced # {} => Report!GridPrice(rows, grid, t, m) \in Int
  BY <1>1, <1>2, <1>4
<1>6. ASSUME Report!InForce(rows, t, m) # Missing
      PROVE  Report!GridPrice(rows, grid, t, m) = Report!InForce(rows, t, m)
  <2>1. m \in priced
    BY <1>6
  <2>2. l \in Int /\ m <= l /\ l <= m
    BY <1>4, <2>1
  <2>3. l = m
    BY <2>2
  <2> HIDE DEF priced
  <2> QED BY <1>2, <2>1, <2>3
<1> HIDE DEF priced
<1>7. Report!GridPrice(rows, grid, t, m) \in Int
  BY <1>2, <1>5
<1> QED BY <1>6, <1>7

LEMMA SameAccount ==
  ASSUME NEW fills, NEW m, NEW g, Report!Done(fills, g) = Report!Done(fills, m), NEW capital
  PROVE  /\ Report!CashAfter(fills, capital, g) = Report!CashAfter(fills, capital, m)
         /\ \A t : Report!PositionAfter(fills, t, g) = Report!PositionAfter(fills, t, m)
BY DEF Report!CashAfter, Report!PositionAfter

\* The minute table at one minute is the account the fills left by then.
TradedBy(fills, rows, m) == {t \in TickersOf(rows) : Report!PositionAfter(fills, t, m) # 0}

Worth(fills, rows, m) ==
    SumFunction([t \in TradedBy(fills, rows, m) |->
                   Report!PositionAfter(fills, t, m) * LastPrice(rows, t, m)])

LEMMA MinuteIsTheAccount ==
  ASSUME NEW fills, NEW rows, NEW capital, NEW grid,
         Report!LedgerRead(fills, rows, capital, grid), NEW m, m \in grid,
         Report!Pivots(rows), \A t \in TradedBy(fills, rows, m) : Report!InForce(rows, t, m) # Missing
  PROVE  Report!MinuteValue(fills, rows, capital, grid, m)
           = Report!CashAfter(fills, capital, m) + Worth(fills, rows, m)
<1> DEFINE held == TickersOf(rows)
           now == TradedBy(fills, rows, m)
           price(t) == LastPrice(rows, t, m)
           times == {fills[i].time : i \in DOMAIN fills} \intersect {g \in grid : g <= m}
           P(t) == Report!PositionAfter(fills, t, m)
           G(t) == Report!GridPrice(rows, grid, t, m)
           cash == Report!CashAfter(fills, capital, m)
<1>1. /\ capital \in Int /\ grid \subseteq Int /\ m \in Int /\ IsFiniteSet(grid)
      /\ IsFiniteSet(DOMAIN rows) /\ IsFiniteSet(DOMAIN fills)
      /\ \A i \in DOMAIN rows : rows[i].time \in Int /\ rows[i].price \in Int \union {Missing}
      /\ \A i \in DOMAIN fills :
            /\ fills[i].time \in grid /\ fills[i].ticker \in held
            /\ fills[i].shares \in Int /\ fills[i].price \in Int /\ fills[i].fees \in Int
  BY FilledRows DEF TickersOf
<1>2. \A i \in Report!Done(fills, m) : i \in DOMAIN fills /\ fills[i].time <= m
  BY DEF Report!Done
<1>3. IsFiniteSet(held)
  <2> DEFINE f == [i \in DOMAIN rows |-> rows[i].ticker]
  <2>1. f \in Surjection(DOMAIN rows, held)
    BY DEF Surjection, TickersOf
  <2> HIDE DEF f
  <2> QED BY <1>1, <2>1, FS_Surjection
<1>4. \A t : P(t) \in Int /\ (P(t) # 0 => \E i \in Report!Done(fills, m) : fills[i].ticker = t)
  BY <1>1, PositionIs
<1>5. \A t \in held : G(t) \in Int
  BY <1>1, GridPriceIs
<1>6. ASSUME NEW t \in now PROVE G(t) = price(t)
  <2>1. Report!InForce(rows, t, m) # Missing
    OBVIOUS
  <2>2. Report!InForce(rows, t, m) = LastPrice(rows, t, m)
    BY <1>1, <2>1, InForceIsLast
  <2>3. Report!GridPrice(rows, grid, t, m) = Report!InForce(rows, t, m)
    BY <1>1, <2>1, GridPriceIs
  <2> QED BY <2>2, <2>3
<1> DEFINE f == [t \in held |-> P(t) * G(t)]
           h == [t \in now |-> P(t) * price(t)]
<1>7. SumFunction(f) = SumFunction(h)
  <2> HIDE DEF P, G
  <2>1. f \in [held -> Int]
    BY <1>4, <1>5
  <2>2. now \in SUBSET held /\ \A t \in held \ now : P(t) = 0
    BY DEF P, TradedBy
  <2>3. \A t \in held \ now : f[t] = 0
    BY <1>5, <2>2
  <2>4. h = [t \in now |-> f[t]]
    BY <1>6, <2>2
  <2> HIDE DEF f, h
  <2> QED BY <1>3, <2>1, <2>2, <2>3, <2>4, SumWithoutZeros
<1>8. times \subseteq Int /\ IsFiniteSet(times)
  <2> DEFINE all == {fills[i].time : i \in DOMAIN fills}
             c == [i \in DOMAIN fills |-> fills[i].time]
  <2>1. c \in Surjection(DOMAIN fills, all)
    BY DEF Surjection
  <2> HIDE DEF c, all
  <2>2. IsFiniteSet(all)
    BY <1>1, <2>1, FS_Surjection
  <2>3. times \subseteq all /\ times \subseteq grid
    BY DEF all
  <2> HIDE DEF times
  <2> QED BY <1>1, <2>2, <2>3, FS_Subset
<1>9. \A i \in Report!Done(fills, m) : fills[i].time \in times
  BY <1>1, <1>2
<1>10. Report!MinuteValue(fills, rows, capital, grid, m)
         = IF times = {} THEN capital
           ELSE Report!CashAfter(fills, capital, Report!Greatest(times))
                  + SumFunction([t \in held |->
                      Report!PositionAfter(fills, t, Report!Greatest(times)) * G(t)])
  BY ReportSums DEF Report!MinuteValue, TickersOf
<1>11. CASE times = {}
  <2>1. Report!Done(fills, m) = {}
    BY <1>9, <1>11
  <2>2. now = {}
    BY <1>4, <2>1 DEF TradedBy
  <2>3. SumFunction(h) = 0
    <3>1. h \in [{} -> Int]
      BY <2>2
    <3> HIDE DEF h
    <3> QED BY <3>1, SumOfNothing
  <2>4. cash = capital
    <3> DEFINE e == [i \in Report!Done(fills, m) |->
                       fills[i].shares * fills[i].price + fills[i].fees]
    <3>1. cash = capital - SumFunction(e)
      BY ReportSums DEF Report!CashAfter
    <3>2. e \in [{} -> Int]
      BY <2>1
    <3> HIDE DEF e, cash
    <3>3. SumFunction(e) = 0
      BY <3>2, SumOfNothing
    <3> QED BY <1>1, <3>1, <3>3
  <2> HIDE DEF times, h, cash
  <2>5. Report!MinuteValue(fills, rows, capital, grid, m) = cash + SumFunction(h)
    BY <1>1, <1>10, <1>11, <2>3, <2>4
  <2> QED BY <2>5 DEF h, cash, Worth
<1>12. CASE times # {}
  <2> DEFINE g == Report!Greatest(times)
  <2>1. g \in times /\ \A y \in times : y <= g
    <3> HIDE DEF times
    <3> QED BY <1>8, <1>12, GreatestIs
  <2>2. g \in Int /\ g <= m
    BY <1>8, <2>1
  <2> HIDE DEF g
  <2>3. Report!Done(fills, g) = Report!Done(fills, m)
    <3>1. ASSUME NEW i \in DOMAIN fills PROVE fills[i].time <= g <=> fills[i].time <= m
      <4>1. fills[i].time \in Int
        BY <1>1
      <4>2. fills[i].time <= m => fills[i].time \in times
        BY <1>1
      <4> HIDE DEF times
      <4> QED BY <1>1, <2>1, <2>2, <4>1, <4>2
    <3> QED BY <3>1 DEF Report!Done
  <2>4. /\ Report!CashAfter(fills, capital, g) = cash
        /\ \A t : Report!PositionAfter(fills, t, g) = P(t)
    BY <2>3, SameAccount
  <2>5. [t \in held |-> Report!PositionAfter(fills, t, g) * G(t)] = f
    BY <2>4
  <2>6. Report!MinuteValue(fills, rows, capital, grid, m)
          = Report!CashAfter(fills, capital, g)
              + SumFunction([t \in held |-> Report!PositionAfter(fills, t, g) * G(t)])
    BY <1>10, <1>12 DEF g
  <2> QED BY <1>7, <2>4, <2>5, <2>6 DEF Worth
<1> QED BY <1>11, <1>12

LEMMA ReplaysAgree ==
  ASSUME NEW fills, NEW rows, NEW capital, NEW grid,
         Report!LedgerRead(fills, rows, capital, grid)
  PROVE  Report!ReplayIsTheAccount(fills, rows, capital, grid)
<1>1. ASSUME NEW m \in grid, Report!Pivots(rows),
             \A t \in TradedBy(fills, rows, m) : Report!InForce(rows, t, m) # Missing
      PROVE  Report!MinuteValue(fills, rows, capital, grid, m)
               = Report!CashAfter(fills, capital, m) + Worth(fills, rows, m)
  BY <1>1, MinuteIsTheAccount
<1> QED BY <1>1, ReportSums
        DEF Report!ReplayIsTheAccount, Worth, TradedBy, TickersOf, LastPrice, PricedRows

\* The closes of the benchmark: one for a ticker and a time, each of whole shares.
Marked(obs, weights, capital) ==
    /\ IsFiniteSet(obs) /\ IsFiniteSet(DOMAIN weights)
    /\ capital \in Int /\ \A t \in DOMAIN weights : weights[t] \in Int
    /\ \A o \in obs : /\ o.time \in Int /\ o.price \in Nat \ {0} /\ o.ticker \in DOMAIN weights
                      /\ (capital * weights[o.ticker]) % (Share * o.price) = 0
    /\ \A o, p \in obs : o.ticker = p.ticker /\ o.time = p.time => o = p

LEMMA KeptRows ==
  ASSUME NEW rows, NEW weights, NEW capital, NEW from, NEW to,
         Report!FrameRead(rows, weights, capital, from, to)
  PROVE  /\ capital \in Int /\ from \in Int /\ to \in Int
         /\ IsFiniteSet(DOMAIN weights) /\ \A t \in DOMAIN weights : weights[t] \in Int
         /\ IsFiniteSet(DOMAIN rows) /\ DOMAIN rows \subseteq Int
         /\ \A i \in DOMAIN rows : rows[i].time \in Int
         /\ \A i \in Report!Kept(rows, weights, from, to) :
               /\ i \in DOMAIN rows /\ rows[i].price \in Nat \ {0}
               /\ rows[i].ticker \in DOMAIN weights /\ from <= rows[i].time /\ rows[i].time <= to
               /\ (capital * weights[rows[i].ticker]) % (Share * rows[i].price) = 0
<1> DEFINE T == {rows[i].ticker : i \in DOMAIN rows}
<1>1. /\ capital \in Int /\ from \in Int /\ to \in Int
      /\ rows \in Seq([time : Int, ticker : T, price : Int \union {Missing}])
      /\ \A i \in DOMAIN rows : rows[i].ticker \in DOMAIN weights /\ rows[i].price \in Nat \ {0} =>
            (capital * weights[rows[i].ticker]) % (Share * rows[i].price) = 0
  BY DEF Report!FrameRead
<1>2. IsFiniteSet(DOMAIN weights)
  BY DEF Report!FrameRead, Report!IsFiniteSet, IsFiniteSet
<1>3. weights \in [DOMAIN weights -> Int]
  BY DEF Report!FrameRead
<1>4. \A t \in DOMAIN weights : weights[t] \in Int
  BY <1>3
<1> HIDE DEF T
<1>5. DOMAIN rows = 1..Len(rows) /\ Len(rows) \in Nat
  BY <1>1
<1>6. IsFiniteSet(DOMAIN rows) /\ DOMAIN rows \subseteq Int
  BY <1>5, FS_Interval
<1>7. \A i \in DOMAIN rows : rows[i] \in [time : Int, ticker : T, price : Int \union {Missing}]
  BY <1>1, ElementsOf
<1>8. \A i \in DOMAIN rows : rows[i].time \in Int /\ rows[i].price \in Int \union {Missing}
  BY <1>7
<1>9. ASSUME NEW i \in Report!Kept(rows, weights, from, to)
      PROVE  /\ i \in DOMAIN rows /\ rows[i].price \in Nat \ {0}
             /\ rows[i].ticker \in DOMAIN weights /\ from <= rows[i].time /\ rows[i].time <= to
             /\ (capital * weights[rows[i].ticker]) % (Share * rows[i].price) = 0
  <2>1. /\ i \in DOMAIN rows /\ rows[i].ticker \in DOMAIN weights
        /\ rows[i].price # Missing /\ rows[i].price > 0
        /\ from <= rows[i].time /\ rows[i].time <= to
    BY DEF Report!Kept
  <2>2. rows[i].price \in Nat \ {0}
    BY <1>8, <2>1
  <2> QED BY <1>1, <2>1, <2>2
<1> QED BY <1>1, <1>2, <1>4, <1>6, <1>8, <1>9

LEMMA ObservedAreMarked ==
  ASSUME NEW rows, NEW weights, NEW capital, NEW from, NEW to,
         Report!FrameRead(rows, weights, capital, from, to)
  PROVE  /\ Marked(Report!Observed(rows, weights, from, to), weights, capital)
         /\ \A o \in Report!Observed(rows, weights, from, to) : o.time <= to
<1> DEFINE kept == Report!Kept(rows, weights, from, to)
           K == {j \in kept : \A k \in kept :
                   rows[k].time = rows[j].time /\ rows[k].ticker = rows[j].ticker => k <= j}
           obs == Report!Observed(rows, weights, from, to)
<1>1. /\ capital \in Int /\ IsFiniteSet(DOMAIN weights)
      /\ \A t \in DOMAIN weights : weights[t] \in Int
      /\ IsFiniteSet(DOMAIN rows) /\ DOMAIN rows \subseteq Int
      /\ \A i \in DOMAIN rows : rows[i].time \in Int
      /\ \A i \in kept :
               /\ i \in DOMAIN rows /\ rows[i].price \in Nat \ {0}
               /\ rows[i].ticker \in DOMAIN weights /\ rows[i].time <= to
               /\ (capital * weights[rows[i].ticker]) % (Share * rows[i].price) = 0
  BY KeptRows
<1>2. obs = {rows[i] : i \in K}
  BY DEF Report!Observed
<1> HIDE DEF kept, obs
<1>3. IsFiniteSet(obs)
  <2>1. K \subseteq DOMAIN rows
    BY <1>1
  <2>2. [i \in K |-> rows[i]] \in Surjection(K, obs)
    BY <1>2 DEF Surjection
  <2> HIDE DEF K
  <2>3. IsFiniteSet(K)
    BY <1>1, <2>1, FS_Subset
  <2> QED BY <2>2, <2>3, FS_Surjection
<1>4. \A o \in obs : /\ o.time \in Int /\ o.price \in Nat \ {0} /\ o.ticker \in DOMAIN weights
                     /\ (capital * weights[o.ticker]) % (Share * o.price) = 0
                     /\ o.time <= to
  BY <1>1, <1>2
<1>5. ASSUME NEW o \in obs, NEW p \in obs, o.ticker = p.ticker, o.time = p.time PROVE o = p
  <2>1. PICK i \in K : o = rows[i]
    BY <1>2
  <2>2. PICK j \in K : p = rows[j]
    BY <1>2
  <2>3. i <= j /\ j <= i
    BY <1>5, <2>1, <2>2
  <2>4. i \in Int /\ j \in Int
    BY <1>1
  <2>5. i = j
    BY <2>3, <2>4
  <2> QED BY <2>1, <2>2, <2>5
<1>6. Marked(obs, weights, capital)
  BY <1>1, <1>3, <1>4, <1>5 DEF Marked
<1> QED BY <1>4, <1>6 DEF obs

\* The closes of one ticker.
LEMMA QuotesAreTimed ==
  ASSUME NEW obs, NEW weights, NEW capital, Marked(obs, weights, capital), NEW t
  PROVE  /\ Timed(Report!Quotes(obs, t)) /\ OneEach(Report!Quotes(obs, t))
         /\ Report!Quotes(obs, t) \subseteq obs
         /\ \A o \in Report!Quotes(obs, t) : o.ticker = t
         /\ \A o \in obs : o \in Report!Quotes(obs, o.ticker)
<1>1. Report!Quotes(obs, t) \subseteq obs /\ \A o \in Report!Quotes(obs, t) : o.ticker = t
  BY DEF Report!Quotes
<1>2. IsFiniteSet(Report!Quotes(obs, t))
  BY <1>1, FS_Subset DEF Marked
<1>3. Timed(Report!Quotes(obs, t))
  BY <1>1, <1>2 DEF Marked, Timed
<1>4. OneEach(Report!Quotes(obs, t))
  BY <1>1 DEF Marked, OneEach
<1> QED BY <1>1, <1>3, <1>4 DEF Report!Quotes

LEMMA EarliestRow ==
  ASSUME NEW S, Timed(S), S # {}
  PROVE  \E o \in S : \A p \in S : o.time <= p.time
<1> DEFINE T == {o.time : o \in S}
<1>1. T \subseteq Int /\ IsFiniteSet(T) /\ T # {}
  BY TimesOf
<1>2. \E x \in T : \A y \in T : x <= y
  <2> HIDE DEF T
  <2> QED BY <1>1, LeastOfFinite
<1> QED BY <1>2

\* The profit of a close is what its shares are worth above the allocation.
SharesOf(obs, weights, capital, t) ==
    ((capital * weights[t]) \div Share) \div Report!Entry(obs, t).price

Allocated(weights, capital, t) == (capital * weights[t]) \div Share

LEMMA PnlIs ==
  ASSUME Share \in Nat \ {0},
         NEW obs, NEW weights, NEW capital, Marked(obs, weights, capital), NEW o, o \in obs
  PROVE  /\ Report!Pnl(obs, weights, capital, o)
              = SharesOf(obs, weights, capital, o.ticker) * o.price
                  - Allocated(weights, capital, o.ticker)
         /\ Report!Pnl(obs, weights, capital, o) \in Int
         /\ (\A p \in Report!Quotes(obs, o.ticker) : o.time <= p.time)
               => Report!Pnl(obs, weights, capital, o) = 0
<1> DEFINE t == o.ticker
           e == Report!Entry(obs, t)
           a == capital * weights[t]
           x == o.price
           pnl == Report!Pnl(obs, weights, capital, o)
<1>1. o \in Report!Quotes(obs, t) /\ Timed(Report!Quotes(obs, t)) /\ OneEach(Report!Quotes(obs, t))
      /\ Report!Quotes(obs, t) \subseteq obs /\ \A q \in Report!Quotes(obs, t) : q.ticker = t
  BY QuotesAreTimed
<1>2. e \in Report!Quotes(obs, t) /\ \A q \in Report!Quotes(obs, t) : e.time <= q.time
  BY <1>1, FirstRowIs
<1> HIDE DEF e
<1>3. /\ e.price \in Nat \ {0} /\ x \in Int /\ a \in Int
      /\ a % (Share * e.price) = 0
  <2>1. e \in obs /\ e.ticker = t
    BY <1>1, <1>2
  <2>2. capital \in Int /\ weights[t] \in Int
    BY DEF Marked
  <2>3. a \in Int
    BY <2>2
  <2>4. e.price \in Nat \ {0} /\ (capital * weights[e.ticker]) % (Share * e.price) = 0
    BY <2>1 DEF Marked
  <2>5. x \in Int
    BY DEF Marked
  <2> QED BY <2>1, <2>3, <2>4, <2>5
<1>4. pnl = (a * (x - e.price)) \div (Share * e.price)
  BY DEF Report!Pnl, e
<1> DEFINE s == (a \div Share) \div e.price
           al == a \div Share
<1>5. pnl = s * x - al
  <2> HIDE DEF a, x, pnl, t
  <2> QED BY <1>3, <1>4, AllocationIsShares
<1>6. s * x - al \in Int
  <2> HIDE DEF a, x
  <2>1. al \in Int
    BY <1>3
  <2> HIDE DEF al
  <2>2. s \in Int
    BY <1>3, <2>1 DEF al
  <2> HIDE DEF s
  <2> QED BY <1>3, <2>1, <2>2
<1>7. ASSUME \A p \in Report!Quotes(obs, t) : o.time <= p.time PROVE pnl = 0
  <2>1. e.time = o.time
    <3>1. e.time <= o.time /\ o.time <= e.time
      BY <1>1, <1>2, <1>7
    <3>2. e.time \in Int /\ o.time \in Int
      BY <1>1, <1>2 DEF Timed
    <3> QED BY <3>1, <3>2
  <2>2. e = o
    BY <1>1, <1>2, <2>1 DEF OneEach
  <2>3. x - e.price = 0
    BY <1>3, <2>2
  <2>4. a * (x - e.price) = 0
    BY <1>3, <2>3
  <2>5. Share * e.price \in Nat \ {0}
    BY <1>3
  <2> HIDE DEF a, x, pnl
  <2>6. 0 \div (Share * e.price) = 0
    <3> DEFINE u == Share * e.price
    <3> HIDE DEF u
    <3>1. u \in Nat \ {0} => 0 \div u = 0
      OBVIOUS
    <3> QED BY <2>5, <3>1 DEF u
  <2> QED BY <1>4, <2>4, <2>6
<1> QED BY <1>5, <1>6, <1>7 DEF SharesOf, Allocated, e

Until(S, time) == {o \in S : o.time <= time}

Gains(obs, weights, capital, S) ==
    SumFunction([o \in S |-> Report!Difference(obs, weights, capital, o)])

LEMMA DifferenceIs ==
  ASSUME Share \in Nat \ {0},
         NEW obs, NEW weights, NEW capital, Marked(obs, weights, capital), NEW o, o \in obs,
         NEW before, before = {p \in Report!Quotes(obs, o.ticker) : p.time < o.time}
  PROVE  /\ Report!Difference(obs, weights, capital, o) \in Int
         /\ before = {} => Report!Difference(obs, weights, capital, o) = 0
         /\ before # {} => /\ Report!Latest(before) \in before
                           /\ \A p \in before : p.time <= Report!Latest(before).time
                           /\ Report!Difference(obs, weights, capital, o)
                                = Report!Pnl(obs, weights, capital, o)
                                    - Report!Pnl(obs, weights, capital, Report!Latest(before))
<1>1. Timed(Report!Quotes(obs, o.ticker)) /\ Report!Quotes(obs, o.ticker) \subseteq obs
  BY QuotesAreTimed
<1>2. before \subseteq Report!Quotes(obs, o.ticker)
  OBVIOUS
<1>3. Timed(before)
  <2>1. IsFiniteSet(before)
    BY <1>1, <1>2, FS_Subset DEF Timed
  <2> QED BY <1>1, <1>2, <2>1 DEF Timed
<1>4. Report!Difference(obs, weights, capital, o)
        = IF before = {} THEN 0
          ELSE Report!Pnl(obs, weights, capital, o)
                 - Report!Pnl(obs, weights, capital, Report!Latest(before))
  BY DEF Report!Difference
<1>5. CASE before = {}
  BY <1>4, <1>5
<1>6. CASE before # {}
  <2>1. Report!Latest(before) \in before
        /\ \A p \in before : p.time <= Report!Latest(before).time
    BY <1>3, <1>6, LastRowIs
  <2>2. Report!Latest(before) \in obs
    BY <1>1, <1>2, <2>1
  <2>3. /\ Report!Pnl(obs, weights, capital, o) \in Int
        /\ Report!Pnl(obs, weights, capital, Report!Latest(before)) \in Int
    BY <2>2, PnlIs
  <2> QED BY <1>4, <1>6, <2>1, <2>3
<1> QED BY <1>5, <1>6

LEMMA GainsAreInts ==
  ASSUME Share \in Nat \ {0},
         NEW obs, NEW weights, NEW capital, Marked(obs, weights, capital), NEW S, S \subseteq obs
  PROVE  /\ IsFiniteSet(S)
         /\ [o \in S |-> Report!Difference(obs, weights, capital, o)] \in [S -> Int]
         /\ Gains(obs, weights, capital, S) \in Int
<1>1. IsFiniteSet(S)
  BY FS_Subset DEF Marked
<1>2. \A o \in S : Report!Difference(obs, weights, capital, o) \in Int
  BY DifferenceIs
<1>3. [o \in S |-> Report!Difference(obs, weights, capital, o)] \in [S -> Int]
  BY <1>2
<1> DEFINE f == [o \in S |-> Report!Difference(obs, weights, capital, o)]
<1>4. SumFunction(f) \in Int
  <2> HIDE DEF f
  <2>1. f \in [S -> Int]
    BY <1>3 DEF f
  <2> QED BY <1>1, <2>1, SumIsInt
<1> QED BY <1>1, <1>3, <1>4 DEF Gains

LEMMA GainsOfOneMore ==
  ASSUME Share \in Nat \ {0},
         NEW obs, NEW weights, NEW capital, Marked(obs, weights, capital), NEW S, S \subseteq obs,
         NEW z, z \in S
  PROVE  Gains(obs, weights, capital, S)
           = Gains(obs, weights, capital, S \ {z}) + Report!Difference(obs, weights, capital, z)
<1> DEFINE f == [o \in S |-> Report!Difference(obs, weights, capital, o)]
           A == S \ {z}
<1>1. IsFiniteSet(S) /\ f \in [S -> Int]
  BY GainsAreInts
<1>2. [o \in A |-> f[o]] = [o \in A |-> Report!Difference(obs, weights, capital, o)]
  OBVIOUS
<1>3. f[z] = Report!Difference(obs, weights, capital, z)
  OBVIOUS
<1>4. SumFunction(f) = SumFunction([o \in A |-> f[o]]) + f[z]
  <2>1. A = S \ {z}
    OBVIOUS
  <2> HIDE DEF f, A
  <2> QED BY <1>1, <2>1, SumWithOneMore
<1>5. Gains(obs, weights, capital, S) = SumFunction(f)
  BY DEF Gains
<1>6. Gains(obs, weights, capital, A) = SumFunction([o \in A |-> f[o]])
  BY <1>2 DEF Gains
<1> HIDE DEF f
<1> QED BY <1>3, <1>4, <1>5, <1>6

\* The differences up to a close add up to its profit.
LEMMA DifferencesAddUp ==
  ASSUME Share \in Nat \ {0},
         NEW obs, NEW weights, NEW capital, Marked(obs, weights, capital), NEW t,
         NEW o, o \in Report!Quotes(obs, t)
  PROVE  Gains(obs, weights, capital, Until(Report!Quotes(obs, t), o.time))
           = Report!Pnl(obs, weights, capital, o)
<1> DEFINE Q == Report!Quotes(obs, t)
           G(S) == Gains(obs, weights, capital, S)
           V(p) == Report!Pnl(obs, weights, capital, p)
           Bad == {p \in Q : G(Until(Q, p.time)) # V(p)}
<1>1. Timed(Q) /\ OneEach(Q) /\ Q \subseteq obs /\ \A p \in Q : p.ticker = t
  BY QuotesAreTimed
<1>2. SUFFICES ASSUME Bad # {} PROVE FALSE
  OBVIOUS
<1>3. Timed(Bad)
  <2>1. Bad \subseteq Q
    OBVIOUS
  <2> HIDE DEF Bad, Q
  <2> QED BY <1>1, <2>1, FS_Subset DEF Timed
<1>4. PICK z \in Bad : \A p \in Bad : z.time <= p.time
  <2> HIDE DEF Bad
  <2> QED BY <1>2, <1>3, EarliestRow
<1>5. z \in Q /\ G(Until(Q, z.time)) # V(z)
  OBVIOUS
<1>6. \A p \in Q : p.time < z.time => G(Until(Q, p.time)) = V(p)
  <2> SUFFICES ASSUME NEW p \in Q, p.time < z.time, p \in Bad PROVE FALSE
    OBVIOUS
  <2>1. z.time <= p.time
    BY <1>4
  <2>2. z.time \in Int /\ p.time \in Int
    BY <1>1, <1>5 DEF Timed
  <2> QED BY <2>1, <2>2
<1> HIDE DEF Bad, Q
<1> DEFINE before == {p \in Q : p.time < z.time}
           U == Until(Q, z.time)
           D == Report!Difference(obs, weights, capital, z)
<1>7. z \in obs /\ z.ticker = t /\ z.time \in Int
  BY <1>1, <1>5 DEF Timed
<1>8. U \subseteq obs /\ z \in U /\ U \ {z} = before
  <2>1. \A p \in Q : p.time \in Int /\ (p.time = z.time => p = z)
    BY <1>1, <1>5 DEF Timed, OneEach
  <2> QED BY <1>1, <1>5, <1>7, <2>1 DEF Until
<1>9. G(U) = G(before) + D
  <2> HIDE DEF U, before, D
  <2>1. G(U) = G(U \ {z}) + Report!Difference(obs, weights, capital, z)
    BY <1>8, GainsOfOneMore
  <2> QED BY <1>8, <2>1 DEF D
<1>10. before = {p \in Report!Quotes(obs, z.ticker) : p.time < z.time}
  BY <1>7 DEF Q
<1>11. V(z) \in Int
  BY <1>7, PnlIs
<1>12. CASE before = {}
  <2>1. D = 0
    <3> HIDE DEF before
    <3> QED BY <1>7, <1>10, <1>12, DifferenceIs
  <2>2. V(z) = 0
    <3>1. \A p \in Q : z.time <= p.time
      BY <1>1, <1>7, <1>12 DEF Timed
    <3> QED BY <1>7, <3>1, PnlIs DEF Q
  <2>3. G(before) = 0
    <3> DEFINE f == [p \in before |-> Report!Difference(obs, weights, capital, p)]
    <3>1. f \in [{} -> Int]
      BY <1>12
    <3> HIDE DEF f
    <3>2. SumFunction(f) = 0
      BY <3>1, SumOfNothing
    <3> QED BY <3>2 DEF f, Gains
  <2> HIDE DEF G, V, before, U, D
  <2>4. G(U) = V(z)
    BY <1>9, <2>1, <2>2, <2>3
  <2> QED BY <1>5, <2>4 DEF U
<1>13. CASE before # {}
  <2> DEFINE l == Report!Latest(before)
  <2>1. /\ l \in before /\ \A p \in before : p.time <= l.time
        /\ D = V(z) - V(l)
    <3> HIDE DEF before
    <3> QED BY <1>7, <1>10, <1>13, DifferenceIs
  <2> HIDE DEF l
  <2>2. l \in Q /\ l.time < z.time /\ l.time \in Int
    BY <1>1, <2>1 DEF Timed
  <2>3. before = Until(Q, l.time)
    <3>1. \A p \in Q : p.time \in Int
      BY <1>1 DEF Timed
    <3>2. \A p \in Q : p.time < z.time <=> p.time <= l.time
      BY <1>7, <2>1, <2>2, <3>1
    <3> QED BY <3>2 DEF Until
  <2>4. G(before) = V(l)
    BY <1>6, <2>2, <2>3
  <2>5. V(l) \in Int
    BY <1>1, <2>2, PnlIs
  <2> HIDE DEF G, V, before, U, D
  <2>6. G(U) = V(z)
    BY <1>9, <1>11, <2>1, <2>4, <2>5
  <2> QED BY <1>5, <2>6 DEF U
<1> QED BY <1>12, <1>13

\* What is held of the tickers seen by a time.
SeenOf(obs, t, time) == {o \in Report!Quotes(obs, t) : o.time <= time}

HeldBy(obs, weights, time) == {t \in DOMAIN weights : SeenOf(obs, t, time) # {}}

HeldValue(obs, weights, capital, t, time) ==
    SharesOf(obs, weights, capital, t) * Report!Latest(SeenOf(obs, t, time)).price
      - Allocated(weights, capital, t)

LEMMA GainsOfTicker ==
  ASSUME Share \in Nat \ {0},
         NEW obs, NEW weights, NEW capital, Marked(obs, weights, capital),
         NEW time, time \in Int, NEW t, t \in HeldBy(obs, weights, time)
  PROVE  /\ Gains(obs, weights, capital, SeenOf(obs, t, time))
              = HeldValue(obs, weights, capital, t, time)
         /\ HeldValue(obs, weights, capital, t, time) \in Int
<1> DEFINE Q == Report!Quotes(obs, t)
           S == SeenOf(obs, t, time)
           l == Report!Latest(S)
<1>1. Timed(Q) /\ Q \subseteq obs /\ \A p \in Q : p.ticker = t
  BY QuotesAreTimed
<1>2. S \subseteq Q /\ S # {}
  BY DEF SeenOf, HeldBy
<1>3. Timed(S)
  <2> HIDE DEF S, Q
  <2> QED BY <1>1, <1>2, FS_Subset DEF Timed
<1>4. l \in S /\ \A o \in S : o.time <= l.time
  <2> HIDE DEF S
  <2> QED BY <1>2, <1>3, LastRowIs
<1>5. l \in obs /\ l.ticker = t /\ l \in Q /\ l.time \in Int /\ l.time <= time
  <2>1. l \in Q
    BY <1>2, <1>4
  <2>2. l.time <= time
    BY <1>4 DEF SeenOf
  <2> HIDE DEF l
  <2> QED BY <1>1, <2>1, <2>2 DEF Timed
<1> HIDE DEF l
<1>6. S = Until(Q, l.time)
  <2>1. \A o \in Q : o.time \in Int
    BY <1>1 DEF Timed
  <2>2. \A o \in Q : o.time <= time <=> o.time <= l.time
    <3> SUFFICES ASSUME NEW o \in Q PROVE o.time <= time <=> o.time <= l.time
      OBVIOUS
    <3>1. o.time <= time => o.time <= l.time
      BY <1>4 DEF SeenOf
    <3>2. o.time <= l.time => o.time <= time
      BY <1>5, <2>1
    <3> QED BY <3>1, <3>2
  <2> QED BY <2>2 DEF SeenOf, Until
<1>7. Gains(obs, weights, capital, Until(Q, l.time)) = Report!Pnl(obs, weights, capital, l)
  BY <1>5, DifferencesAddUp
<1>8. /\ Report!Pnl(obs, weights, capital, l)
           = SharesOf(obs, weights, capital, t) * l.price - Allocated(weights, capital, t)
      /\ Report!Pnl(obs, weights, capital, l) \in Int
  BY <1>5, PnlIs
<1> HIDE DEF S
<1>9. Gains(obs, weights, capital, S)
        = SharesOf(obs, weights, capital, t) * l.price - Allocated(weights, capital, t)
  BY <1>6, <1>7, <1>8
<1> QED BY <1>8, <1>9 DEF HeldValue, S, l

\* The differences of all closes by a time, ticker by ticker.
LEMMA GainsByTicker ==
  ASSUME Share \in Nat \ {0},
         NEW obs, NEW weights, NEW capital, Marked(obs, weights, capital),
         NEW time, time \in Int
  PROVE  Gains(obs, weights, capital, Until(obs, time))
           = SumFunction([t \in HeldBy(obs, weights, time) |->
                            HeldValue(obs, weights, capital, t, time)])
<1> DEFINE D == Until(obs, time)
           T == HeldBy(obs, weights, time)
           diff(o) == Report!Difference(obs, weights, capital, o)
           val(t) == HeldValue(obs, weights, capital, t, time)
           k == [o \in D |-> o.ticker]
           q == [o \in D |-> diff(o)]
           p == [t \in T |-> 1]
           parts == [t \in T |-> [o \in D |-> IF o.ticker = t THEN diff(o) ELSE 0]]
           total == [t \in T |-> SumFunction(parts[t])]
           a == [t \in T |-> total[t] * 1]
           b == [o \in D |-> diff(o) * 1]
<1>1. D \subseteq obs
  BY DEF Until
<1>2. IsFiniteSet(D) /\ q \in [D -> Int] /\ \A o \in D : diff(o) \in Int
  <2>1. IsFiniteSet(D) /\ q \in [D -> Int]
    BY <1>1, GainsAreInts
  <2>2. \A o \in D : diff(o) \in Int
    BY <1>1, DifferenceIs
  <2> QED BY <2>1, <2>2
<1>3. IsFiniteSet(T)
  <2>1. T \subseteq DOMAIN weights /\ IsFiniteSet(DOMAIN weights)
    BY DEF HeldBy, Marked
  <2> QED BY <2>1, FS_Subset
<1>4. k \in [D -> T]
  <2>1. ASSUME NEW o \in D PROVE o.ticker \in T
    <3>1. o \in obs /\ o.time <= time /\ o.ticker \in DOMAIN weights
      BY <1>1 DEF Until, Marked
    <3>2. o \in SeenOf(obs, o.ticker, time)
      BY <3>1, QuotesAreTimed DEF SeenOf
    <3> QED BY <3>1, <3>2 DEF HeldBy
  <2> HIDE DEF D, T
  <2> QED BY <2>1
<1>5. ASSUME NEW t \in T
      PROVE  parts[t] \in [D -> Int] /\ SumFunction(parts[t]) = val(t) /\ val(t) \in Int
  <2> DEFINE f == parts[t]
             A == {o \in D : o.ticker = t}
  <2>1. f = [o \in D |-> IF o.ticker = t THEN diff(o) ELSE 0]
    OBVIOUS
  <2>2. f \in [D -> Int]
    <3> HIDE DEF D, T, f, diff
    <3> QED BY <1>2, <2>1
  <2>3. \A o \in D \ A : f[o] = 0
    OBVIOUS
  <2>4. A = SeenOf(obs, t, time)
    BY QuotesAreTimed DEF SeenOf, Until, Report!Quotes
  <2>5. [o \in A |-> f[o]] = [o \in A |-> diff(o)]
    OBVIOUS
  <2>6. A \in SUBSET D
    OBVIOUS
  <2>7. SumFunction(f) = SumFunction([o \in A |-> f[o]])
    <3> HIDE DEF A, f, D
    <3> QED BY <1>2, <2>2, <2>3, <2>6, SumWithoutZeros
  <2>8. Gains(obs, weights, capital, SeenOf(obs, t, time)) = val(t) /\ val(t) \in Int
    BY GainsOfTicker
  <2>9. SumFunction([o \in A |-> diff(o)]) = val(t)
    BY <2>4, <2>8 DEF Gains
  <2> HIDE DEF A, val, diff
  <2>10. SumFunction(f) = val(t)
    BY <2>5, <2>7, <2>9
  <2> HIDE DEF f
  <2>11. f \in [D -> Int] /\ SumFunction(f) = val(t) /\ val(t) \in Int
    BY <2>2, <2>8, <2>10
  <2> QED BY <2>11 DEF f
<1> HIDE DEF D, T, diff, val
<1>6. \A t \in T : total[t] = SumFunction(parts[t]) /\ total[t] = val(t)
  BY <1>5
<1>7. total \in [T -> Int] /\ p \in [T -> Int] /\ a \in [T -> Int] /\ b \in [D -> Int]
  <2>1. \A t \in T : total[t] \in Int /\ a[t] = total[t] * 1
    BY <1>5, <1>6
  <2>2. \A o \in D : b[o] \in Int
    BY <1>2
  <2> HIDE DEF parts
  <2> QED BY <2>1, <2>2
<1>8. /\ \A t \in T : \A x \in D : parts[t][x] = IF k[x] = t THEN q[x] ELSE 0
      /\ \A t \in T : a[t] = total[t] * p[t]
      /\ \A x \in D : b[x] = q[x] * p[k[x]]
  <2>1. \A t \in T : \A x \in D : parts[t][x] = IF k[x] = t THEN q[x] ELSE 0
    OBVIOUS
  <2>2. \A t \in T : p[t] = 1
    OBVIOUS
  <2>3. \A x \in D : k[x] \in T
    BY <1>4
  <2>4. \A x \in D : b[x] = q[x] * 1
    OBVIOUS
  <2>5. \A t \in T : a[t] = total[t] * 1
    OBVIOUS
  <2> HIDE DEF parts, total, a, b, p, k, q
  <2> QED BY <2>1, <2>2, <2>3, <2>4, <2>5
<1>9. [t \in T |-> val(t)] = a
  <2>1. \A t \in T : a[t] = val(t)
    BY <1>5, <1>6
  <2> HIDE DEF parts, total
  <2> QED BY <2>1
<1>10. q = b
  <2>1. \A o \in D : b[o] = q[o]
    BY <1>2
  <2> QED BY <2>1
<1>11. \A t \in T : parts[t] \in [D -> Int]
  BY <1>5
<1> HIDE DEF k, p, parts, total, a, b, q
<1>12. Grouping(D, T, k, q, p, parts, total, a, b)
  BY <1>2, <1>3, <1>4, <1>6, <1>7, <1>8, <1>11 DEF Grouping
<1>13. SumFunction(a) = SumFunction(b)
  BY <1>12, SumByGroup
<1>14. SumFunction(q) = SumFunction([t \in T |-> val(t)])
  BY <1>9, <1>10, <1>13
<1> QED BY <1>14 DEF q, Gains, T, val, D, diff

\* The closes up to a time are those of a window that ends then.
LEMMA ObservedUntil ==
  ASSUME NEW rows, NEW weights, NEW capital, NEW from, NEW to,
         Report!FrameRead(rows, weights, capital, from, to),
         NEW time, time \in Int, time <= to
  PROVE  /\ Report!FrameRead(rows, weights, capital, from, time)
         /\ Report!Observed(rows, weights, from, time)
              = Until(Report!Observed(rows, weights, from, to), time)
<1> DEFINE kept == Report!Kept(rows, weights, from, to)
           short == Report!Kept(rows, weights, from, time)
           K == {j \in kept : \A k \in kept :
                   rows[k].time = rows[j].time /\ rows[k].ticker = rows[j].ticker => k <= j}
           L == {j \in short : \A k \in short :
                   rows[k].time = rows[j].time /\ rows[k].ticker = rows[j].ticker => k <= j}
<1>1. Report!FrameRead(rows, weights, capital, from, time)
  BY DEF Report!FrameRead
<1>2. to \in Int /\ \A i \in DOMAIN rows : rows[i].time \in Int
  BY KeptRows
<1>3. short = {i \in kept : rows[i].time <= time}
  <2>1. \A i \in DOMAIN rows : rows[i].time <= time => rows[i].time <= to
    BY <1>2
  <2> QED BY <2>1 DEF Report!Kept
<1>4. Report!Observed(rows, weights, from, to) = {rows[i] : i \in K}
  BY DEF Report!Observed
<1>5. Report!Observed(rows, weights, from, time) = {rows[i] : i \in L}
  BY DEF Report!Observed
<1> HIDE DEF kept, short
<1>6. L = {j \in K : rows[j].time <= time}
  BY <1>3
<1> HIDE DEF K, L
<1>7. {rows[i] : i \in L} = Until({rows[i] : i \in K}, time)
  BY <1>6 DEF Until
<1> QED BY <1>1, <1>4, <1>5, <1>7

\* No later close changes a difference.
LEMMA DifferenceUntil ==
  ASSUME Share \in Nat \ {0},
         NEW obs, NEW weights, NEW capital, Marked(obs, weights, capital),
         NEW time, time \in Int, NEW few, few = Until(obs, time), Marked(few, weights, capital),
         NEW o, o \in few
  PROVE  Report!Difference(few, weights, capital, o) = Report!Difference(obs, weights, capital, o)
<1> DEFINE t == o.ticker
           Q == Report!Quotes(obs, t)
           R == Report!Quotes(few, t)
           e == Report!Entry(obs, t)
           d == Report!Entry(few, t)
           before == {p \in Q : p.time < o.time}
<1>1. o \in obs /\ o.time <= time /\ o.time \in Int /\ R = Until(Q, time)
  BY DEF Until, Marked, Report!Quotes
<1>2. /\ Timed(Q) /\ OneEach(Q) /\ Q \subseteq obs /\ o \in Q
      /\ Timed(R) /\ R \subseteq Q /\ o \in R
  <2>1. Timed(Q) /\ OneEach(Q) /\ Q \subseteq obs /\ o \in Q
    BY <1>1, QuotesAreTimed
  <2>2. Timed(R) /\ o \in R
    BY QuotesAreTimed
  <2> QED BY <1>1, <2>1, <2>2 DEF Until
<1>3. e \in Q /\ \A p \in Q : e.time <= p.time
  BY <1>2, FirstRowIs
<1>4. d \in R /\ \A p \in R : d.time <= p.time
  BY <1>2, FirstRowIs
<1> HIDE DEF e, d
<1>5. d = e
  <2>1. e.time \in Int /\ d.time \in Int /\ d \in Q
    BY <1>2, <1>3, <1>4 DEF Timed
  <2>2. e \in R
    <3>1. e.time <= o.time
      BY <1>2, <1>3
    <3>2. e.time <= time
      BY <1>1, <2>1, <3>1
    <3> QED BY <1>1, <1>3, <3>2 DEF Until
  <2>3. e.time <= d.time /\ d.time <= e.time
    BY <1>3, <1>4, <2>1, <2>2
  <2>4. e.time = d.time
    BY <2>1, <2>3
  <2> QED BY <1>2, <1>3, <2>1, <2>4 DEF OneEach
<1>6. before = {p \in R : p.time < o.time}
  <2>1. \A p \in Q : p.time \in Int
    BY <1>2 DEF Timed
  <2>2. \A p \in Q : p.time < o.time => p.time <= time
    BY <1>1, <2>1
  <2> QED BY <1>1, <2>2 DEF Until
<1>7. ASSUME NEW p, p.ticker = t
      PROVE  Report!Pnl(few, weights, capital, p) = Report!Pnl(obs, weights, capital, p)
  BY <1>5, <1>7 DEF Report!Pnl, e, d
<1>8. before # {} => Report!Latest(before).ticker = t
  <2>1. Timed(before)
    <3>1. before \subseteq Q
      OBVIOUS
    <3> HIDE DEF before, Q
    <3> QED BY <1>2, <3>1, FS_Subset DEF Timed
  <2>2. before # {} => Report!Latest(before) \in before
    <3> HIDE DEF before
    <3> QED BY <2>1, LastRowIs
  <2> QED BY <2>2 DEF Report!Quotes
<1>9. Report!Difference(few, weights, capital, o)
        = IF before = {} THEN 0
          ELSE Report!Pnl(few, weights, capital, o)
                 - Report!Pnl(few, weights, capital, Report!Latest(before))
  BY <1>6 DEF Report!Difference
<1>10. Report!Difference(obs, weights, capital, o)
        = IF before = {} THEN 0
          ELSE Report!Pnl(obs, weights, capital, o)
                 - Report!Pnl(obs, weights, capital, Report!Latest(before))
  BY DEF Report!Difference
<1> HIDE DEF before
<1> QED BY <1>7, <1>8, <1>9, <1>10

Marks(S) == {o.time : o \in S}

LEMMA CurveIs ==
  ASSUME NEW rows, NEW weights, NEW capital, NEW from, NEW to, NEW time
  PROVE  /\ DOMAIN Report!BuyAndHold(rows, weights, capital, from, to)
              = Marks(Report!Observed(rows, weights, from, to))
         /\ time \in Marks(Report!Observed(rows, weights, from, to)) =>
              Report!BuyAndHold(rows, weights, capital, from, to)[time]
                = capital + Gains(Report!Observed(rows, weights, from, to), weights, capital,
                                  Until(Report!Observed(rows, weights, from, to), time))
<1> DEFINE obs == Report!Observed(rows, weights, from, to)
           T == {o.time : o \in obs}
           at(x) == Report!SumFunction([o \in {p \in obs : p.time <= x} |->
                                          Report!Difference(obs, weights, capital, o)])
           f == [x \in T |-> capital + at(x)]
<1>1. Report!BuyAndHold(rows, weights, capital, from, to) = f
  BY DEF Report!BuyAndHold
<1>2. at(time) = Gains(obs, weights, capital, Until(obs, time))
  BY ReportSums DEF Gains, Until
<1> HIDE DEF at
<1>3. DOMAIN f = T /\ (time \in T => f[time] = capital + at(time))
  OBVIOUS
<1> HIDE DEF T, f
<1>4. T = Marks(obs)
  BY DEF T, Marks
<1> QED BY <1>1, <1>2, <1>3, <1>4

\* The benchmark holds what it bought, and no later row changes what it was worth.
LEMMA BenchmarkHolds ==
  ASSUME Share \in Nat \ {0},
         NEW rows, NEW weights, NEW capital, NEW from, NEW to,
         Report!FrameRead(rows, weights, capital, from, to)
  PROVE  Report!BenchmarkIsHeld(rows, weights, capital, from, to)
<1> DEFINE obs == Report!Observed(rows, weights, from, to)
           curve == Report!BuyAndHold(rows, weights, capital, from, to)
<1>1. Marked(obs, weights, capital) /\ \A o \in obs : o.time <= to
  BY ObservedAreMarked
<1>2. DOMAIN curve = Marks(obs)
  BY CurveIs
<1>3. ASSUME NEW time \in Marks(obs)
      PROVE  /\ curve[time] = capital
                  + Report!SumFunction([t \in HeldBy(obs, weights, time) |->
                                          HeldValue(obs, weights, capital, t, time)])
             /\ curve[time] = Report!BuyAndHold(rows, weights, capital, from, time)[time]
  <2> DEFINE few == Report!Observed(rows, weights, from, time)
             diff(o) == Report!Difference(obs, weights, capital, o)
  <2>1. time \in Int /\ time <= to
    BY <1>1 DEF Marked, Marks
  <2>2. curve[time] = capital + Gains(obs, weights, capital, Until(obs, time))
    BY CurveIs
  <2>3. Gains(obs, weights, capital, Until(obs, time))
          = Report!SumFunction([t \in HeldBy(obs, weights, time) |->
                                  HeldValue(obs, weights, capital, t, time)])
    <3> HIDE DEF obs
    <3> QED BY <1>1, <2>1, GainsByTicker, ReportSums
  <2>4. Report!FrameRead(rows, weights, capital, from, time) /\ few = Until(obs, time)
    BY <2>1, ObservedUntil
  <2>5. Marked(few, weights, capital)
    BY <2>4, ObservedAreMarked
  <2>6. time \in Marks(few)
    <3>1. PICK o \in obs : o.time = time
      BY DEF Marks
    <3>2. o \in few
      BY <2>1, <2>4, <3>1 DEF Until
    <3> HIDE DEF few
    <3> QED BY <3>1, <3>2 DEF Marks
  <2>7. Report!BuyAndHold(rows, weights, capital, from, time)[time]
          = capital + Gains(few, weights, capital, Until(few, time))
    BY <2>6, CurveIs
  <2> HIDE DEF obs, few, curve
  <2>8. Until(few, time) = few
    BY <2>4 DEF Until
  <2>9. Gains(few, weights, capital, few) = Gains(obs, weights, capital, few)
    <3>1. \A o \in few : Report!Difference(few, weights, capital, o) = diff(o)
      BY <1>1, <2>1, <2>4, <2>5, DifferenceUntil
    <3> HIDE DEF diff
    <3>2. [o \in few |-> Report!Difference(few, weights, capital, o)] = [o \in few |-> diff(o)]
      BY <3>1
    <3> QED BY <3>2 DEF Gains, diff
  <2>10. Report!BuyAndHold(rows, weights, capital, from, time)[time] = curve[time]
    BY <2>2, <2>4, <2>7, <2>8, <2>9
  <2> QED BY <2>2, <2>3, <2>10
<1>4. Report!BenchmarkIsHeld(rows, weights, capital, from, to)
        = \A time \in DOMAIN curve :
             /\ curve[time] = capital
                  + Report!SumFunction([t \in HeldBy(obs, weights, time) |->
                                          HeldValue(obs, weights, capital, t, time)])
             /\ curve[time] = Report!BuyAndHold(rows, weights, capital, from, time)[time]
  BY DEF Report!BenchmarkIsHeld, HeldBy, HeldValue, SeenOf, SharesOf, Allocated
<1> HIDE DEF obs, curve
<1> QED BY <1>2, <1>3, <1>4

\* The samples by time, and by their places where the times are equal.
Sampling(perf) ==
    {e \in (DOMAIN perf) \X (DOMAIN perf) :
        \/ perf[e[1]].time < perf[e[2]].time
        \/ perf[e[1]].time = perf[e[2]].time /\ e[1] < e[2]}

Samples(perf, day) ==
    /\ \A a, b \in DOMAIN day : day[a] \in Int /\ (a <= b => day[a] <= day[b])
    /\ Len(perf) \in Nat /\ DOMAIN perf = 1..Len(perf)
    /\ \A i \in DOMAIN perf : /\ perf[i].time \in DOMAIN day /\ perf[i].time \in Int
                              /\ perf[i].value \in Nat \ {0}

LEMMA CurveSamples ==
  ASSUME NEW perf, NEW marks, NEW day, Report!CurveRead(perf, marks, day)
  PROVE  /\ Samples(perf, day)
         /\ IsFiniteSet(DOMAIN marks) /\ DOMAIN marks \subseteq Int
<1>1. IsFiniteSet(DOMAIN marks) /\ DOMAIN marks \subseteq Int
  BY DEF Report!CurveRead, Report!IsFiniteSet, IsFiniteSet
<1>2. DOMAIN day \subseteq Int /\ \A a, b \in DOMAIN day : a <= b => day[a] <= day[b]
  BY DEF Report!CurveRead
<1>3. \A a \in DOMAIN day : day[a] \in Int
  <2>1. day \in [DOMAIN day -> Int]
    BY DEF Report!CurveRead
  <2> QED BY <2>1
<1> DEFINE R == [time : DOMAIN day, value : Nat \ {0}]
<1>4. perf \in Seq(R)
  BY DEF Report!CurveRead
<1>5. \A i \in DOMAIN perf : perf[i] \in R
  <2> HIDE DEF R
  <2> QED BY <1>4, ElementsOf
<1>6. \A i \in DOMAIN perf : perf[i].time \in DOMAIN day /\ perf[i].value \in Nat \ {0}
  BY <1>5
<1>7. Len(perf) \in Nat /\ DOMAIN perf = 1..Len(perf)
  <2> HIDE DEF R
  <2> QED BY <1>4
<1> QED BY <1>1, <1>2, <1>3, <1>6, <1>7 DEF Samples

LEMMA SamplingIs ==
  ASSUME NEW perf, NEW x, x \in DOMAIN perf, NEW y, y \in DOMAIN perf
  PROVE  <<x, y>> \in Sampling(perf)
           <=> \/ perf[x].time < perf[y].time
               \/ perf[x].time = perf[y].time /\ x < y
<1> DEFINE e == <<x, y>>
<1>1. e[1] = x /\ e[2] = y /\ e \in (DOMAIN perf) \X (DOMAIN perf)
  OBVIOUS
<1> HIDE DEF e
<1>2. e \in Sampling(perf) <=> \/ perf[x].time < perf[y].time
                               \/ perf[x].time = perf[y].time /\ x < y
  BY <1>1 DEF Sampling
<1> QED BY <1>2 DEF e

LEMMA SamplingOrders ==
  ASSUME NEW perf, NEW day, Samples(perf, day)
  PROVE  IsOrder(Sampling(perf), DOMAIN perf)
<1> DEFINE D == DOMAIN perf
           B == Sampling(perf)
<1>1. \A x, y \in D : <<x, y>> \in B <=> \/ perf[x].time < perf[y].time
                                         \/ perf[x].time = perf[y].time /\ x < y
  BY SamplingIs
<1>2. \A x \in D : x \in Int /\ perf[x].time \in Int
  BY DEF Samples
<1> HIDE DEF B, D
<1>3. \A x \in D : <<x, x>> \notin B
  BY <1>1, <1>2
<1>4. \A x, y, z \in D : <<x, y>> \in B /\ <<y, z>> \in B => <<x, z>> \in B
  <2> SUFFICES ASSUME NEW x \in D, NEW y \in D, NEW z \in D, <<x, y>> \in B, <<y, z>> \in B
               PROVE  \/ perf[x].time < perf[z].time
                      \/ perf[x].time = perf[z].time /\ x < z
    BY <1>1
  <2>1. \/ perf[x].time < perf[y].time
        \/ perf[x].time = perf[y].time /\ x < y
    BY <1>1
  <2>2. \/ perf[y].time < perf[z].time
        \/ perf[y].time = perf[z].time /\ y < z
    BY <1>1
  <2> QED BY <1>2, <2>1, <2>2
<1>5. \A x, y \in D : x = y \/ <<x, y>> \in B \/ <<y, x>> \in B
  <2> SUFFICES ASSUME NEW x \in D, NEW y \in D, x # y
               PROVE  <<x, y>> \in B \/ <<y, x>> \in B
    OBVIOUS
  <2>1. /\ x \in Int /\ y \in Int /\ perf[x].time \in Int /\ perf[y].time \in Int
    BY <1>2
  <2>2. \/ perf[x].time < perf[y].time
        \/ perf[x].time = perf[y].time /\ x < y
        \/ perf[y].time < perf[x].time
        \/ perf[y].time = perf[x].time /\ y < x
    BY <2>1
  <2> QED BY <1>1, <2>2
<1> QED BY <1>3, <1>4, <1>5 DEF IsOrder, D, B

\* S holds the samples of perf, by time.
ByTime(S, perf) ==
    /\ DOMAIN S = 1..Len(perf)
    /\ \A i, j \in 1..Len(perf) : i < j => S[i].time <= S[j].time
    /\ \A i \in 1..Len(perf) : \E j \in 1..Len(perf) : S[j] = perf[i]
    /\ \A j \in 1..Len(perf) : \E i \in 1..Len(perf) : S[j] = perf[i]

LEMMA SortedIsByTime ==
  ASSUME NEW perf, NEW day, Samples(perf, day)
  PROVE  ByTime(Report!Sorted(perf), perf)
<1> DEFINE D == DOMAIN perf
           B == Sampling(perf)
           n == Len(perf)
           S == Report!Sorted(perf)
           s == [j \in 1..n |-> CHOOSE i \in D : PlaceOf(B, D, i) = j]
<1>1. n \in Nat /\ D = 1..n /\ IsFiniteSet(D) /\ Cardinality(D) = n
  <2>1. n \in Nat /\ D = 1..n
    BY DEF Samples
  <2> HIDE DEF D, n
  <2> QED BY <2>1, FS_Interval
<1>2. \A i \in D : Report!Rank(perf, i) = PlaceOf(B, D, i)
  <2> SUFFICES ASSUME NEW i \in D PROVE Report!Rank(perf, i) = PlaceOf(B, D, i)
    OBVIOUS
  <2> DEFINE U == {k \in D : \/ perf[k].time < perf[i].time
                             \/ perf[k].time = perf[i].time /\ k <= i}
  <2>1. Report!Rank(perf, i) = Report!Cardinality(U)
    BY DEF Report!Rank
  <2>2. Report!Cardinality(U) = Cardinality(U)
    <3> HIDE DEF U
    <3> QED BY DEF Report!Cardinality, Cardinality, Report!IsFiniteSet, IsFiniteSet
  <2>3. U = ThoseUpTo(B, D, i)
    <3>1. \A k \in D : k \in Int /\ perf[k].time \in Int
      BY DEF Samples
    <3>2. \A k \in D : <<k, i>> \in B <=> \/ perf[k].time < perf[i].time
                                          \/ perf[k].time = perf[i].time /\ k < i
      BY SamplingIs
    <3>3. i \in D
      OBVIOUS
    <3> HIDE DEF D, B
    <3>4. \A k \in D : (k = i \/ <<k, i>> \in B)
                          <=> \/ perf[k].time < perf[i].time
                              \/ perf[k].time = perf[i].time /\ k <= i
      BY <3>1, <3>2, <3>3
    <3> QED BY <3>4 DEF ThoseUpTo
  <2> QED BY <2>1, <2>2, <2>3 DEF PlaceOf
<1>3. S = [j \in 1..n |-> perf[s[j]]]
  <2>1. S = [j \in D |-> perf[CHOOSE i \in D : Report!Rank(perf, i) = j]]
    BY DEF Report!Sorted
  <2>2. ASSUME NEW j
        PROVE  (CHOOSE i \in D : Report!Rank(perf, i) = j) = CHOOSE i \in D : PlaceOf(B, D, i) = j
    BY <1>2
  <2>3. \A j \in 1..n : s[j] = CHOOSE i \in D : Report!Rank(perf, i) = j
    BY <2>2
  <2> HIDE DEF s, B, D, n
  <2> QED BY <1>1, <2>1, <2>3
<1>4. ListsAll(s, B, D)
  <2>1. IsOrder(B, D)
    BY SamplingOrders
  <2>2. s = [j \in 1..Cardinality(D) |-> CHOOSE x \in D : PlaceOf(B, D, x) = j]
    BY <1>1
  <2> HIDE DEF s, B, D, n
  <2> QED BY ONLY <1>1, <2>1, <2>2, ListOfPlaces
<1> HIDE DEF s, S, D
<1>5. /\ Len(s) = n /\ \A j \in 1..n : s[j] \in D
      /\ \A i, j \in 1..n : i < j => <<s[i], s[j]>> \in B
      /\ \A x \in D : \E j \in 1..n : s[j] = x
  <2>1. s \in Seq(D) /\ Len(s) = n
    BY <1>1, <1>4 DEF ListsAll
  <2>2. \A j \in 1..n : s[j] \in D
    BY <2>1, ElementsOf
  <2> QED BY <1>4, <2>1, <2>2 DEF ListsAll
<1>6. \A j \in 1..n : S[j] = perf[s[j]]
  BY <1>3
<1>7. \A i, j \in 1..n : i < j => S[i].time <= S[j].time
  <2> SUFFICES ASSUME NEW i \in 1..n, NEW j \in 1..n, i < j PROVE S[i].time <= S[j].time
    OBVIOUS
  <2>1. perf[s[i]].time < perf[s[j]].time \/ perf[s[i]].time = perf[s[j]].time
    <3>1. s[i] \in DOMAIN perf /\ s[j] \in DOMAIN perf
      BY <1>5 DEF D
    <3>2. <<s[i], s[j]>> \in Sampling(perf)
      BY <1>5
    <3> DEFINE x == s[i]
               y == s[j]
    <3> HIDE DEF x, y
    <3>3. x \in DOMAIN perf /\ y \in DOMAIN perf /\ <<x, y>> \in Sampling(perf)
      BY <3>1, <3>2 DEF x, y
    <3>4. perf[x].time < perf[y].time \/ perf[x].time = perf[y].time
      BY <3>3, SamplingIs
    <3> QED BY <3>4 DEF x, y
  <2>2. perf[s[i]].time \in Int /\ perf[s[j]].time \in Int
    BY <1>5 DEF Samples, D
  <2> QED BY <1>6, <2>1, <2>2
<1>8. DOMAIN S = 1..n
  BY <1>3
<1>9. \A i \in 1..n : \E j \in 1..n : S[j] = perf[i]
  BY <1>1, <1>5, <1>6
<1>10. \A j \in 1..n : \E i \in 1..n : S[j] = perf[i]
  BY <1>1, <1>5, <1>6
<1> QED BY <1>7, <1>8, <1>9, <1>10 DEF ByTime, S

LEMMA PrefixedView ==
  ASSUME NEW V, NEW b, b \in V, NEW s, s \in Seq(V)
  PROVE  /\ Len(<<b>> \o s) = Len(s) + 1 /\ DOMAIN (<<b>> \o s) = 1..Len(s) + 1
         /\ (<<b>> \o s)[1] = b
         /\ \A j \in 1..Len(s) : (<<b>> \o s)[j + 1] = s[j]
OBVIOUS

\* What the curve shows: the capital, and then the samples by time.
Shows(curve, S, marks, capital, day, n) ==
    /\ Len(curve) = n + 1 /\ DOMAIN curve = 1..n + 1
    /\ curve[1].equity = capital /\ curve[1].date = day[S[1].time]
    /\ \A j \in 1..n : /\ curve[j + 1].date = day[S[j].time]
                       /\ curve[j + 1].equity = S[j].value
                       /\ curve[j + 1].benchmark = Report!MarkAt(marks, S[j].time)

LEMMA CurveShows ==
  ASSUME NEW perf, NEW marks, NEW capital, NEW day, Samples(perf, day), Len(perf) # 0
  PROVE  Shows(Report!EquityCurve(perf, marks, capital, day), Report!Sorted(perf), marks, capital,
               day, Len(perf))
<1> DEFINE n == Len(perf)
           S == Report!Sorted(perf)
           point(i) == [date |-> day[S[i].time], equity |-> S[i].value,
                        benchmark |-> Report!MarkAt(marks, S[i].time)]
           points == [i \in DOMAIN S |-> point(i)]
           b == [date |-> points[1].date, equity |-> capital,
                 benchmark |-> IF points[1].benchmark = Missing THEN Missing ELSE capital]
           curve == Report!EquityCurve(perf, marks, capital, day)
<1>1. curve = IF points = <<>> THEN <<>> ELSE <<b>> \o points
  BY DEF Report!EquityCurve
<1>2. n \in Nat \ {0} /\ DOMAIN S = 1..n
  BY SortedIsByTime DEF Samples, ByTime
<1>3. \A i \in 1..n : points[i] = point(i)
  BY <1>2
<1>4. b.equity = capital /\ b.date = points[1].date
  OBVIOUS
<1>5. \A i \in 1..n : /\ points[i].date = day[S[i].time] /\ points[i].equity = S[i].value
                      /\ points[i].benchmark = Report!MarkAt(marks, S[i].time)
  <2>1. \A i : /\ point(i).date = day[S[i].time] /\ point(i).equity = S[i].value
               /\ point(i).benchmark = Report!MarkAt(marks, S[i].time)
    OBVIOUS
  <2> HIDE DEF point, points
  <2> QED BY <1>3, <2>1
<1> DEFINE V == {b} \union {points[i] : i \in 1..n}
<1>6. points = [i \in 1..n |-> points[i]]
  <2>1. points = [i \in 1..n |-> point(i)]
    BY <1>2
  <2> HIDE DEF points, n, point
  <2> QED BY <2>1
<1> HIDE DEF point, points, b, curve, S, n
<1>7. points \in Seq(V) /\ Len(points) = n /\ b \in V
  <2>1. \A i \in 1..n : points[i] \in V
    OBVIOUS
  <2>2. b \in V
    OBVIOUS
  <2> HIDE DEF V
  <2>3. points \in [1..n -> V]
    BY <1>6, <2>1
  <2> QED BY ONLY <1>2, <2>2, <2>3
<1> HIDE DEF V
<1>8. points # <<>>
  BY <1>2, <1>7
<1>9. curve = <<b>> \o points
  BY <1>1, <1>8
<1>10. /\ Len(curve) = n + 1 /\ DOMAIN curve = 1..n + 1 /\ curve[1] = b
       /\ \A j \in 1..n : curve[j + 1] = points[j]
  BY <1>7, <1>9, PrefixedView
<1>11. 1 \in 1..n
  BY <1>2
<1>12. Shows(curve, S, marks, capital, day, n)
  BY <1>4, <1>5, <1>10, <1>11 DEF Shows
<1> QED BY <1>12 DEF curve, S, n

\* The mark of a sample is the last one by its time.
LEMMA MarkIsLast ==
  ASSUME NEW marks, IsFiniteSet(DOMAIN marks), DOMAIN marks \subseteq Int,
         NEW time, time \in Int, NEW m, m \in DOMAIN marks, m <= time,
         \A x \in DOMAIN marks : x <= time => x <= m
  PROVE  Report!MarkAt(marks, time) = marks[m]
<1> DEFINE before == {x \in DOMAIN marks : x <= time}
<1>1. m \in before /\ before \subseteq DOMAIN marks /\ \A x \in before : x <= m
  OBVIOUS
<1>2. Report!MarkAt(marks, time)
        = IF before = {} THEN Missing ELSE marks[Report!Greatest(before)]
  BY DEF Report!MarkAt
<1> HIDE DEF before
<1>3. IsFiniteSet(before) /\ before \subseteq Int
  BY <1>1, FS_Subset
<1>4. Report!Greatest(before) = m
  BY <1>1, <1>3, GreatestIsOne
<1> QED BY <1>1, <1>2, <1>4

\* The running peaks, and the deepest fall below one.
LEMMA PeaksAre ==
  ASSUME NEW v, NEW n, n \in Nat, v \in [1..n -> Nat \ {0}], NEW j, j \in 1..n
  PROVE  /\ Report!Peak(v, j) \in Nat \ {0}
         /\ \A i \in 1..j : v[i] <= Report!Peak(v, j)
<1> DEFINE S == {v[i] : i \in 1..j}
           f == [i \in 1..j |-> v[i]]
<1>1. \A i \in 1..j : i \in 1..n
  OBVIOUS
<1>2. S \subseteq Nat \ {0} /\ S # {}
  BY <1>1
<1>3. f \in Surjection(1..j, S)
  BY DEF Surjection
<1>4. IsFiniteSet(1..j)
  BY FS_Interval
<1>5. Report!Peak(v, j) = Report!Greatest(S)
  BY DEF Report!Peak
<1>6. \A i \in 1..j : v[i] \in S
  OBVIOUS
<1> HIDE DEF S, f
<1>7. IsFiniteSet(S) /\ S \subseteq Int
  BY <1>2, <1>3, <1>4, FS_Surjection
<1>8. Report!Greatest(S) \in S /\ \A y \in S : y <= Report!Greatest(S)
  BY <1>2, <1>7, GreatestIs
<1> QED BY <1>2, <1>5, <1>6, <1>8

LEMMA DrawdownIsWorst ==
  ASSUME NEW n, n \in Nat \ {0}, NEW v, v \in [1..n -> Nat \ {0}]
  PROVE  \A i, j \in 1..n : i <= j => Report!Drawdown(v)[1] * v[i] <= v[j] * Report!Drawdown(v)[2]
<1> DEFINE p == [i \in 1..n |-> Report!Peak(v, i)]
           pairs == {<<v[i], Report!Peak(v, i)>> : i \in 1..n}
           d == Report!Drawdown(v)
<1>1. DOMAIN v = 1..n /\ Len(v) = n
  <2>1. v \in Seq(Nat \ {0})
    BY ONLY n \in Nat \ {0}, v \in [1..n -> Nat \ {0}]
  <2>2. DOMAIN v = 1..n
    OBVIOUS
  <2>3. DOMAIN v = 1..Len(v) /\ Len(v) \in Nat
    BY <2>1
  <2> QED BY <2>2, <2>3
<1>2. \A i \in 1..n : v[i] \in Nat \ {0}
  OBVIOUS
<1>3. \A j \in 1..n : Report!Peak(v, j) \in Nat \ {0} /\ \A i \in 1..j : v[i] <= Report!Peak(v, j)
  BY PeaksAre
<1>4. d = IF n < 2 THEN <<1, 1>>
          ELSE CHOOSE x \in pairs : \A q \in pairs : x[1] * q[2] <= q[1] * x[2]
  BY <1>1 DEF Report!Drawdown
<1>5. CASE n < 2
  <2>1. d[1] = 1 /\ d[2] = 1
    BY <1>4, <1>5
  <2>2. \A i, j \in 1..n : i = j
    BY <1>5
  <2> HIDE DEF d
  <2>3. \A i \in 1..n : 1 * v[i] <= v[i] * 1
    BY <1>2
  <2> QED BY <2>1, <2>2, <2>3 DEF d
<1>6. CASE ~(n < 2)
  <2>1. p \in [1..n -> Nat \ {0}] /\ \A i \in 1..n : p[i] = Report!Peak(v, i)
    BY <1>3
  <2> HIDE DEF p
  <2>2. PICK k \in 1..n : \A j \in 1..n : v[k] * p[j] <= v[j] * p[k]
    BY <2>1, DeepestFall
  <2>3. ASSUME NEW q \in pairs PROVE v[k] * q[2] <= q[1] * p[k]
    <3>1. PICK j \in 1..n : q = <<v[j], Report!Peak(v, j)>>
      OBVIOUS
    <3>2. q[1] = v[j] /\ q[2] = p[j]
      BY <2>1, <3>1
    <3> QED BY <2>2, <3>2
  <2> DEFINE w == <<v[k], Report!Peak(v, k)>>
  <2>4. w \in pairs /\ w[1] = v[k] /\ w[2] = p[k]
    BY <2>1
  <2>5. \A j \in 1..n : \E q \in pairs : q[1] = v[j] /\ q[2] = p[j]
    <3> SUFFICES ASSUME NEW j \in 1..n PROVE \E q \in pairs : q[1] = v[j] /\ q[2] = p[j]
      OBVIOUS
    <3> DEFINE q == <<v[j], Report!Peak(v, j)>>
    <3>1. q \in pairs /\ q[1] = v[j] /\ q[2] = p[j]
      BY <2>1
    <3> HIDE DEF q, pairs
    <3> QED BY <3>1
  <2>6. \A q \in pairs : \E j \in 1..n : q[1] = v[j] /\ q[2] = p[j]
    <3> SUFFICES ASSUME NEW q \in pairs PROVE \E j \in 1..n : q[1] = v[j] /\ q[2] = p[j]
      OBVIOUS
    <3>1. PICK j \in 1..n : q = <<v[j], Report!Peak(v, j)>>
      OBVIOUS
    <3>2. q[1] = v[j] /\ q[2] = p[j]
      BY <2>1, <3>1
    <3> QED BY <3>2
  <2> HIDE DEF w, pairs
  <2>7. \E x \in pairs : \A q \in pairs : x[1] * q[2] <= q[1] * x[2]
    BY <2>3, <2>4
  <2>8. d \in pairs /\ \A q \in pairs : d[1] * q[2] <= q[1] * d[2]
    BY <1>4, <1>6, <2>7
  <2> HIDE DEF d
  <2>9. \A j \in 1..n : d[1] * p[j] <= v[j] * d[2]
    BY <2>5, <2>8
  <2>10. d[1] \in Nat /\ d[2] \in Nat
    BY <1>2, <2>1, <2>6, <2>8
  <2>11. ASSUME NEW i \in 1..n, NEW j \in 1..n, i <= j PROVE d[1] * v[i] <= v[j] * d[2]
    <3>1. v[i] <= p[j]
      BY <1>3, <2>1, <2>11
    <3>2. v[i] \in Int /\ p[j] \in Int /\ v[j] \in Int
      BY <1>2, <2>1
    <3>3. d[1] * v[i] <= d[1] * p[j]
      BY <2>10, <3>1, <3>2, SmallerFactor
    <3>4. d[1] * v[i] \in Int /\ d[1] * p[j] \in Int /\ v[j] * d[2] \in Int
      BY <2>10, <3>2
    <3>5. d[1] * p[j] <= v[j] * d[2]
      BY <2>9
    <3> QED BY <3>3, <3>4, <3>5
  <2> QED BY <2>11 DEF d
<1> QED BY <1>5, <1>6

\* The curve shows the run, in order, with no mark from later than its sample.
LEMMA CurveShowsTheRun ==
  ASSUME NEW perf, NEW marks, NEW capital, NEW day, Report!CurveRead(perf, marks, day)
  PROVE  Report!CurveIsTheRun(perf, marks, capital, day)
<1> DEFINE curve == Report!EquityCurve(perf, marks, capital, day)
           n == Len(perf)
           S == Report!Sorted(perf)
           v == [i \in 1..n |-> curve[i + 1].equity]
           d == Report!Drawdown(v)
           shown(i, j) ==
             /\ curve[j].date = day[perf[i].time] /\ curve[j].equity = perf[i].value
             /\ \A m \in DOMAIN marks :
                   m <= perf[i].time /\ (\A x \in DOMAIN marks : x <= perf[i].time => x <= m)
                     => curve[j].benchmark = marks[m]
<1>1. /\ Samples(perf, day) /\ ByTime(S, perf)
      /\ IsFiniteSet(DOMAIN marks) /\ DOMAIN marks \subseteq Int
  BY CurveSamples, SortedIsByTime
<1>2. SUFFICES ASSUME perf # <<>>
               PROVE  /\ curve[1].equity = capital /\ Len(curve) = n + 1
                      /\ \A i, j \in DOMAIN curve : i < j => curve[i].date <= curve[j].date
                      /\ \A i \in DOMAIN perf : \E j \in 2..Len(curve) : shown(i, j)
                      /\ \A i, j \in DOMAIN v : i <= j => d[1] * v[i] <= v[j] * d[2]
  BY DEF Report!CurveIsTheRun
<1>3. n \in Nat \ {0} /\ DOMAIN perf = 1..n
  <2>1. n \in Nat /\ DOMAIN perf = 1..n
    BY <1>1 DEF Samples
  <2>2. perf \in Seq([time : DOMAIN day, value : Nat \ {0}])
    BY DEF Report!CurveRead
  <2>3. n # 0
    BY ONLY <1>2, <2>2
  <2> QED BY <2>1, <2>3
<1>4. Shows(curve, S, marks, capital, day, n)
  BY <1>1, <1>3, CurveShows
<1>5. \A i \in 1..n : /\ perf[i].time \in DOMAIN day /\ perf[i].time \in Int
                      /\ perf[i].value \in Nat \ {0}
  BY <1>1, <1>3 DEF Samples
<1>6. \A j \in 1..n : \E i \in 1..n : S[j] = perf[i]
  BY <1>1 DEF ByTime
<1> HIDE DEF curve, S, n
<1>7. curve[1].equity = capital /\ Len(curve) = n + 1 /\ DOMAIN curve = 1..n + 1
  BY <1>4 DEF Shows
<1>8. \A i, j \in DOMAIN curve : i < j => curve[i].date <= curve[j].date
  <2>1. \A i, j \in 1..n : i < j => S[i].time <= S[j].time
    BY <1>1 DEF ByTime, n
  <2>2. \A i \in 1..n : S[i].time \in DOMAIN day /\ S[i].time \in Int
    BY <1>5, <1>6
  <2>3. \A i, j \in 1..n : i <= j => day[S[i].time] <= day[S[j].time]
    <3> SUFFICES ASSUME NEW i \in 1..n, NEW j \in 1..n, i <= j
                 PROVE  day[S[i].time] <= day[S[j].time]
      OBVIOUS
    <3>1. S[i].time <= S[j].time
      <4>1. CASE i = j
        BY <2>2, <4>1
      <4>2. CASE i < j
        BY <2>1, <4>2
      <4> QED BY <4>1, <4>2
    <3> QED BY <1>1, <2>2, <3>1 DEF Samples
  <2>4. /\ curve[1].date = day[S[1].time]
        /\ \A j \in 1..n : curve[j + 1].date = day[S[j].time]
    BY <1>4 DEF Shows
  <2> SUFFICES ASSUME NEW i \in 1..n + 1, NEW j \in 1..n + 1, i < j
               PROVE  curve[i].date <= curve[j].date
    BY <1>7
  <2>5. j - 1 \in 1..n /\ curve[j].date = day[S[j - 1].time]
    <3>1. j - 1 \in 1..n /\ (j - 1) + 1 = j
      BY <1>3
    <3> QED BY <2>4, <3>1
  <2>6. CASE i = 1
    <3>1. 1 \in 1..n /\ 1 <= j - 1
      BY <1>3, <2>5
    <3> QED BY <2>3, <2>4, <2>5, <2>6, <3>1
  <2>7. CASE i # 1
    <3>1. i - 1 \in 1..n /\ (i - 1) + 1 = i /\ i - 1 <= j - 1
      BY <1>3, <2>7
    <3> QED BY <2>3, <2>4, <2>5, <3>1
  <2> QED BY <2>6, <2>7
<1>9. ASSUME NEW i \in DOMAIN perf PROVE \E j \in 2..Len(curve) : shown(i, j)
  <2>1. i \in 1..n
    BY <1>3
  <2>2. PICK k \in 1..n : S[k] = perf[i]
    BY <1>1, <2>1 DEF ByTime, n
  <2>3. /\ curve[k + 1].date = day[perf[i].time] /\ curve[k + 1].equity = perf[i].value
        /\ curve[k + 1].benchmark = Report!MarkAt(marks, perf[i].time)
    BY <1>4, <2>2 DEF Shows
  <2>4. \A m \in DOMAIN marks :
           m <= perf[i].time /\ (\A x \in DOMAIN marks : x <= perf[i].time => x <= m)
             => curve[k + 1].benchmark = marks[m]
    BY <1>1, <1>5, <2>1, <2>3, MarkIsLast
  <2>5. shown(i, k + 1)
    BY <2>3, <2>4
  <2>6. k + 1 \in 2..Len(curve)
    BY <1>3, <1>7
  <2> HIDE DEF shown
  <2> QED BY <2>5, <2>6
<1>10. \A i, j \in DOMAIN v : i <= j => d[1] * v[i] <= v[j] * d[2]
  <2>1. \A i \in 1..n : v[i] = S[i].value
    BY <1>4 DEF Shows
  <2>2. \A i \in 1..n : v[i] \in Nat \ {0}
    BY <1>5, <1>6, <2>1
  <2>3. DOMAIN v = 1..n /\ v = [i \in 1..n |-> v[i]]
    OBVIOUS
  <2> HIDE DEF v
  <2>4. v \in [1..n -> Nat \ {0}]
    BY <2>2, <2>3
  <2> QED BY <1>3, <2>3, <2>4, DrawdownIsWorst
<1> HIDE DEF shown, v, d
<1> QED BY <1>7, <1>8, <1>9, <1>10

-------------------------------------------------------------------------------
(* What an indicator is worth.                                              *)

LEMMA StreamSums ==
  ASSUME NEW f
  PROVE  Stream!SumFunction(f) = SumFunction(f)
  BY DEF Stream!SumFunction, Stream!SumFunctionOnSet, Stream!FoldFunctionOnSet,
         Stream!MapThenFoldSet, SumFunction, SumFunctionOnSet, FoldFunctionOnSet, MapThenFoldSet

LEMMA TotalIsSeqSum ==
  ASSUME NEW q, q \in Seq(Int)
  PROVE  /\ [x \in Int |-> x] \in [Int -> Int]
         /\ Stream!Total(q) = SeqSum([x \in Int |-> x], q)
         /\ Stream!Total(q) \in Int
<1> DEFINE w == [x \in Int |-> x]
           f == [i \in DOMAIN q |-> w[q[i]]]
<1>1. w \in [Int -> Int] /\ \A x \in Int : w[x] = x
  OBVIOUS
<1> HIDE DEF w
<1>2. DOMAIN q = 1..Len(q) /\ q \in [DOMAIN q -> Int]
  BY SeqView
<1>3. f = q
  <2>1. \A i \in DOMAIN q : q[i] \in Int
    BY <1>2
  <2>2. \A i \in DOMAIN q : f[i] = q[i]
    BY <1>1, <2>1
  <2>3. f = [i \in DOMAIN q |-> q[i]] /\ q = [i \in DOMAIN q |-> q[i]]
    <3>1. q = [i \in DOMAIN q |-> q[i]]
      BY <1>2
    <3>2. f = [i \in DOMAIN q |-> q[i]]
      BY <2>1, <1>1
    <3> QED BY <3>1, <3>2
  <2> QED BY <2>3
<1>4. Stream!Total(q) = SeqSum(w, q)
  BY <1>3, StreamSums DEF Stream!Total, SeqSum
<1>5. SeqSum(w, q) \in Int
  BY <1>1, SeqSumIsInt
<1> QED BY <1>1, <1>4, <1>5 DEF w

LEMMA TotalOfNone == Stream!Total(<<>>) = 0
<1>1. <<>> \in Seq(Int)
  OBVIOUS
<1> DEFINE w == [x \in Int |-> x]
<1>2. w \in [Int -> Int] /\ Stream!Total(<<>>) = SeqSum(w, <<>>)
  BY <1>1, TotalIsSeqSum
<1> HIDE DEF w
<1> QED BY <1>2, SeqSumOfEmpty

LEMMA TotalOfAppend ==
  ASSUME NEW q, q \in Seq(Int), NEW x, x \in Int
  PROVE  Stream!Total(Append(q, x)) = Stream!Total(q) + x
<1> DEFINE w == [y \in Int |-> y]
<1>1. w \in [Int -> Int] /\ w[x] = x /\ Stream!Total(q) = SeqSum(w, q)
  BY TotalIsSeqSum
<1>2. Append(q, x) \in Seq(Int)
  OBVIOUS
<1>3. Stream!Total(Append(q, x)) = SeqSum(w, Append(q, x))
  BY <1>2, TotalIsSeqSum
<1> HIDE DEF w
<1>4. SeqSum(w, Append(q, x)) = SeqSum(w, q) + w[x]
  BY <1>1, SeqSumOfAppend
<1> QED BY <1>1, <1>3, <1>4

LEMMA TotalOfTail ==
  ASSUME NEW q, q \in Seq(Int), q # <<>>
  PROVE  Stream!Total(Tail(q)) = Stream!Total(q) - Head(q)
<1> DEFINE w == [y \in Int |-> y]
           h == Head(q)
           t == Tail(q)
<1>1. h \in Int /\ t \in Seq(Int) /\ q = <<h>> \o t /\ <<h>> \in Seq(Int)
  OBVIOUS
<1> HIDE DEF h, t
<1>2. w \in [Int -> Int] /\ w[h] = h
  BY <1>1
<1>3. Stream!Total(q) = SeqSum(w, q) /\ Stream!Total(t) = SeqSum(w, t) /\ Stream!Total(t) \in Int
  BY <1>1, TotalIsSeqSum
<1> HIDE DEF w
<1>4. SeqSum(w, <<h>>) = w[h]
  BY <1>1, <1>2, SeqSumOfOne
<1>5. SeqSum(w, <<h>> \o t) = SeqSum(w, <<h>>) + SeqSum(w, t)
  <2> DEFINE a == <<h>>
  <2>1. a \in Seq(Int)
    BY <1>1
  <2> HIDE DEF a
  <2>2. SeqSum(w, a \o t) = SeqSum(w, a) + SeqSum(w, t)
    <3> DEFINE Z == Int
    <3>1. w \in [Z -> Int] /\ a \in Seq(Z) /\ t \in Seq(Z)
      BY <1>1, <1>2, <2>1
    <3> HIDE DEF Z
    <3> QED BY ONLY <3>1, SeqSumOfConcat
  <2> QED BY <2>2 DEF a
<1>6. Stream!Total(q) = h + Stream!Total(t)
  BY <1>1, <1>2, <1>3, <1>4, <1>5
<1> QED BY <1>1, <1>3, <1>6 DEF h, t

LEMMA TotalOfNaturals ==
  ASSUME NEW q, q \in Seq(Nat)
  PROVE  Stream!Total(q) \in Nat
<1>1. IsFiniteSet(DOMAIN q) /\ q \in [DOMAIN q -> Nat]
  BY SeqView
<1> DEFINE D == DOMAIN q
<1>2. IsFiniteSet(D) /\ q \in [D -> Nat] /\ SumFunction(q) = SumFunctionOnSet(q, D)
  BY <1>1 DEF SumFunction
<1> HIDE DEF D
<1>3. SumFunction(q) \in Nat
  BY <1>2, SumOfNaturals
<1> QED BY <1>3, StreamSums DEF Stream!Total

\* A deque keeps the last m of what was pushed.
LEMMA PushKeepsLast ==
  ASSUME NEW S, NEW q, q \in Seq(S), NEW x, x \in S, NEW m, m \in Nat \ {0}
  PROVE  Stream!Push(LastUpTo(q, m), x, m) = LastUpTo(Append(q, x), m)
<1> DEFINE n == Len(q)
           L == LastUpTo(q, m)
           r == Append(q, x)
           R == LastUpTo(r, m)
           P == Stream!Push(L, x, m)
<1>1. n \in Nat /\ r \in Seq(S) /\ Len(r) = n + 1 /\ r[n + 1] = x /\ \A j \in 1..n : r[j] = q[j]
  <2>1. n \in Nat
    OBVIOUS
  <2> QED BY <2>1, AppendView
<1>2. /\ L \in Seq(S) /\ Len(L) = IF n <= m THEN n ELSE m
      /\ n <= m => \A j \in 1..n : L[j] = q[j]
      /\ m < n => \A j \in 1..m : L[j] = q[(n - m) + j]
  <2>1. m \in Nat
    OBVIOUS
  <2>2. IsLast(L, S, q, n, m)
    BY <2>1, LastView
  <2> HIDE DEF L, n
  <2> QED BY <2>2 DEF IsLast
<1>3. /\ R \in Seq(S) /\ Len(R) = IF n + 1 <= m THEN n + 1 ELSE m
      /\ n + 1 <= m => \A j \in 1..n + 1 : R[j] = r[j]
      /\ m < n + 1 => \A j \in 1..m : R[j] = r[((n + 1) - m) + j]
  <2>1. m \in Nat
    OBVIOUS
  <2> HIDE DEF r
  <2>2. IsLast(R, S, r, Len(r), m)
    BY <1>1, <2>1, LastView
  <2> HIDE DEF R, n
  <2>3. IsLast(R, S, r, n + 1, m)
    BY <1>1, <2>2
  <2> QED BY <2>3 DEF IsLast
<1>4. P = IF Len(L) = m THEN Append(Tail(L), x) ELSE Append(L, x)
  BY DEF Stream!Push
<1> HIDE DEF L, R, r, n, P
<1>5. CASE n < m
  <2>1. Len(L) = n /\ P = Append(L, x)
    BY <1>1, <1>2, <1>4, <1>5
  <2>2. /\ P \in Seq(S) /\ Len(P) = n + 1 /\ P[n + 1] = x
        /\ \A j \in 1..n : P[j] = L[j]
    BY <1>2, <2>1, AppendView
  <2>3. Len(R) = n + 1 /\ \A j \in 1..n + 1 : R[j] = r[j]
    BY <1>1, <1>3, <1>5
  <2>4. \A j \in 1..n + 1 : P[j] = R[j]
    <3>1. \A j \in 1..n + 1 : j \in 1..n \/ j = n + 1
      BY <1>1
    <3>2. \A j \in 1..n : L[j] = q[j]
      BY <1>1, <1>2, <1>5
    <3> QED BY <1>1, <2>2, <2>3, <3>1, <3>2
  <2>5. P = R
    BY <1>3, <2>2, <2>3, <2>4, SameSequence
  <2> QED BY <2>5 DEF P, R, L, r
<1>6. CASE ~(n < m)
  <2>1. Len(L) = m /\ L # <<>>
    BY <1>1, <1>2, <1>6
  <2>2. P = Append(Tail(L), x)
    BY <1>4, <2>1
  <2>3. /\ Tail(L) \in Seq(S) /\ Len(Tail(L)) = m - 1
        /\ \A j \in 1..m - 1 : Tail(L)[j] = L[j + 1]
    BY <1>2, <2>1, TailView
  <2> DEFINE T == Tail(L)
  <2> HIDE DEF T
  <2>4. /\ P \in Seq(S) /\ Len(P) = m /\ P[m] = x
        /\ \A j \in 1..m - 1 : P[j] = L[j + 1]
    <3>1. T \in Seq(S) /\ Len(T) = m - 1 /\ P = Append(T, x) /\ \A j \in 1..m - 1 : T[j] = L[j + 1]
      BY <2>2, <2>3 DEF T
    <3>2. /\ P \in Seq(S) /\ Len(P) = Len(T) + 1 /\ P[Len(T) + 1] = x
          /\ \A j \in 1..Len(T) : P[j] = T[j]
      BY <3>1, AppendView
    <3>3. m - 1 + 1 = m
      OBVIOUS
    <3> QED BY <3>1, <3>2, <3>3
  <2>5. Len(R) = m /\ \A j \in 1..m : R[j] = r[((n + 1) - m) + j]
    BY <1>1, <1>3, <1>6
  <2>6. ASSUME NEW j \in 1..m PROVE P[j] = R[j]
    <3>1. CASE j = m
      <4>1. ((n + 1) - m) + j = n + 1
        BY <1>1, <3>1
      <4> QED BY <1>1, <2>4, <2>5, <3>1, <4>1
    <3>2. CASE j # m
      <4>1. j \in 1..m - 1 /\ j + 1 \in 1..m
        BY <3>2
      <4>2. P[j] = L[j + 1]
        BY <2>4, <4>1
      <4>3. L[j + 1] = q[(n - m) + (j + 1)]
        <5>1. CASE n = m
          <6>1. (n - m) + (j + 1) = j + 1 /\ j + 1 \in 1..n
            BY <1>1, <4>1, <5>1
          <6> QED BY <1>1, <1>2, <5>1, <6>1
        <5>2. CASE n # m
          BY <1>1, <1>2, <1>6, <4>1, <5>2
        <5> QED BY <5>1, <5>2
      <4>4. (n - m) + (j + 1) = ((n + 1) - m) + j /\ ((n + 1) - m) + j \in 1..n
        BY <1>1, <1>6, <4>1
      <4> QED BY <1>1, <2>5, <4>2, <4>3, <4>4
    <3> QED BY <3>1, <3>2
  <2>7. P = R
    BY <1>3, <2>4, <2>5, <2>6, SameSequence
  <2> QED BY <2>7 DEF P, R, L, r
<1> QED BY <1>5, <1>6

\* The running sum of a deque is the sum of what it holds.
LEMMA SlideKeepsTotal ==
  ASSUME NEW q, q \in Seq(Int), NEW x, x \in Int, NEW m, m \in Nat \ {0}
  PROVE  Stream!Slide(Stream!Total(LastUpTo(q, m)), LastUpTo(q, m), x, m)
           = Stream!Total(LastUpTo(Append(q, x), m))
<1> DEFINE L == LastUpTo(q, m)
           s == Stream!Total(L)
<1>1. Stream!Push(L, x, m) = LastUpTo(Append(q, x), m)
  BY PushKeepsLast
<1>2. L \in Seq(Int)
  <2>1. m \in Nat
    OBVIOUS
  <2> QED BY <2>1, LastView DEF IsLast
<1>3. Stream!Slide(s, L, x, m) = (IF Len(L) = m THEN s - Head(L) ELSE s) + x
  BY DEF Stream!Slide
<1>4. Stream!Push(L, x, m) = IF Len(L) = m THEN Append(Tail(L), x) ELSE Append(L, x)
  BY DEF Stream!Push
<1> HIDE DEF L
<1>5. CASE Len(L) = m
  <2>1. L # <<>>
    BY <1>2, <1>5
  <2>2. Stream!Total(Tail(L)) = s - Head(L) /\ Tail(L) \in Seq(Int)
    BY <1>2, <2>1, TotalOfTail, TailView
  <2>3. Stream!Total(Append(Tail(L), x)) = Stream!Total(Tail(L)) + x
    BY <2>2, TotalOfAppend
  <2> QED BY <1>1, <1>3, <1>4, <1>5, <2>2, <2>3 DEF L
<1>6. CASE Len(L) # m
  <2>1. Stream!Total(Append(L, x)) = s + x
    BY <1>2, TotalOfAppend
  <2> QED BY <1>1, <1>3, <1>4, <1>6, <2>1 DEF L
<1> QED BY <1>5, <1>6

\* What an update is given of a bar with a price.
Row == [price : Int, high : Int, low : Int, volume : Nat]

LEMMA RowParts ==
  \A r \in Row : r.price \in Int /\ r.high \in Int /\ r.low \in Int /\ r.volume \in Nat
  BY DEF Row

LEMMA RowsAt ==
  ASSUME NEW ps, ps \in Seq(Row)
  PROVE  \A i \in 1..Len(ps) : ps[i] \in Row
<1>1. DOMAIN ps = 1..Len(ps)
  OBVIOUS
<1> QED BY <1>1, ElementsOf

ClosesOf(ps)   == Mapped([r \in Row |-> r.price], ps)
VolumesOf(ps)  == Mapped([r \in Row |-> r.volume], ps)
TurnoverOf(ps) == Mapped([r \in Row |-> r.price * r.volume], ps)
Ups(q)         == Mapped([x \in Int |-> Stream!Positive(x)], q)
Downs(q)       == Mapped([x \in Int |-> Stream!Positive(-x)], q)

LEMMA ClosesGrow ==
  ASSUME NEW ps, ps \in Seq(Row), NEW p, p \in Row
  PROVE  /\ ClosesOf(ps) \in Seq(Int) /\ Len(ClosesOf(ps)) = Len(ps)
         /\ \A i \in 1..Len(ps) : ClosesOf(ps)[i] = ps[i].price
         /\ ClosesOf(Append(ps, p)) = Append(ClosesOf(ps), p.price)
         /\ p.price \in Int
<1> DEFINE w == [r \in Row |-> r.price]
<1>1. \A r \in Row : r.price \in Int
  BY RowParts
<1>2. w \in [Row -> Int] /\ \A r \in Row : w[r] = r.price
  BY <1>1
<1> HIDE DEF w
<1>3. \A i \in 1..Len(ps) : ps[i] \in Row
  BY RowsAt
<1>4. MappedTo(Int, w, ps, p)
  <2> DEFINE Z == Int
  <2>1. w \in [Row -> Z]
    BY <1>2
  <2> HIDE DEF Z
  <2>2. MappedTo(Z, w, ps, p)
    BY <2>1, MappedGrows
  <2> QED BY <2>2 DEF Z
<1>5. w[p] = p.price /\ \A i \in 1..Len(ps) : w[ps[i]] = ps[i].price
  BY <1>2, <1>3
<1> DEFINE f == Mapped(w, ps)
<1>6. ClosesOf(ps) = f /\ ClosesOf(Append(ps, p)) = Mapped(w, Append(ps, p))
  BY DEF ClosesOf, w
<1> HIDE DEF f
<1> QED BY <1>1, <1>4, <1>5, <1>6 DEF f, MappedTo

LEMMA VolumesGrow ==
  ASSUME NEW ps, ps \in Seq(Row), NEW p, p \in Row
  PROVE  /\ VolumesOf(ps) \in Seq(Nat) /\ Len(VolumesOf(ps)) = Len(ps)
         /\ \A i \in 1..Len(ps) : VolumesOf(ps)[i] = ps[i].volume
         /\ VolumesOf(Append(ps, p)) = Append(VolumesOf(ps), p.volume)
         /\ p.volume \in Nat
<1> DEFINE w == [r \in Row |-> r.volume]
<1>1. \A r \in Row : r.volume \in Nat
  BY RowParts
<1>2. w \in [Row -> Nat] /\ \A r \in Row : w[r] = r.volume
  BY <1>1
<1> HIDE DEF w
<1>3. \A i \in 1..Len(ps) : ps[i] \in Row
  BY RowsAt
<1>4. MappedTo(Nat, w, ps, p)
  <2> DEFINE Z == Nat
  <2>1. w \in [Row -> Z]
    BY <1>2
  <2> HIDE DEF Z
  <2>2. MappedTo(Z, w, ps, p)
    BY <2>1, MappedGrows
  <2> QED BY <2>2 DEF Z
<1>5. w[p] = p.volume /\ \A i \in 1..Len(ps) : w[ps[i]] = ps[i].volume
  BY <1>2, <1>3
<1> DEFINE f == Mapped(w, ps)
<1>6. VolumesOf(ps) = f /\ VolumesOf(Append(ps, p)) = Mapped(w, Append(ps, p))
  BY DEF VolumesOf, w
<1> HIDE DEF f
<1> QED BY <1>1, <1>4, <1>5, <1>6 DEF f, MappedTo

LEMMA TurnoverGrows ==
  ASSUME NEW ps, ps \in Seq(Row), NEW p, p \in Row
  PROVE  /\ TurnoverOf(ps) \in Seq(Int) /\ Len(TurnoverOf(ps)) = Len(ps)
         /\ \A i \in 1..Len(ps) : TurnoverOf(ps)[i] = ps[i].price * ps[i].volume
         /\ TurnoverOf(Append(ps, p)) = Append(TurnoverOf(ps), p.price * p.volume)
         /\ p.price * p.volume \in Int
<1> DEFINE w == [r \in Row |-> r.price * r.volume]
<1>1. \A r \in Row : r.price * r.volume \in Int
  BY RowParts
<1>2. w \in [Row -> Int] /\ \A r \in Row : w[r] = r.price * r.volume
  BY <1>1
<1> HIDE DEF w
<1>3. \A i \in 1..Len(ps) : ps[i] \in Row
  BY RowsAt
<1>4. MappedTo(Int, w, ps, p)
  <2> DEFINE Z == Int
  <2>1. w \in [Row -> Z]
    BY <1>2
  <2> HIDE DEF Z
  <2>2. MappedTo(Z, w, ps, p)
    BY <2>1, MappedGrows
  <2> QED BY <2>2 DEF Z
<1>5. w[p] = p.price * p.volume /\ \A i \in 1..Len(ps) : w[ps[i]] = ps[i].price * ps[i].volume
  BY <1>2, <1>3
<1> DEFINE f == Mapped(w, ps)
<1>6. TurnoverOf(ps) = f /\ TurnoverOf(Append(ps, p)) = Mapped(w, Append(ps, p))
  BY DEF TurnoverOf, w
<1> HIDE DEF f
<1> QED BY <1>1, <1>4, <1>5, <1>6 DEF f, MappedTo

LEMMA UpsGrow ==
  ASSUME NEW q, q \in Seq(Int), NEW x, x \in Int
  PROVE  /\ Ups(q) \in Seq(Int) /\ Len(Ups(q)) = Len(q)
         /\ \A i \in 1..Len(q) : Ups(q)[i] = Stream!Positive(q[i])
         /\ Ups(Append(q, x)) = Append(Ups(q), Stream!Positive(x))
         /\ Stream!Positive(x) \in Int
<1> DEFINE w == [y \in Int |-> Stream!Positive(y)]
<1>1. \A y \in Int : Stream!Positive(y) \in Int
  BY DEF Stream!Positive
<1>2. w \in [Int -> Int] /\ \A y \in Int : w[y] = Stream!Positive(y)
  BY <1>1
<1> HIDE DEF w
<1>3. \A i \in 1..Len(q) : q[i] \in Int
  OBVIOUS
<1> DEFINE Z == Int
<1>4. w \in [Z -> Z] /\ q \in Seq(Z) /\ x \in Z
  BY <1>2
<1> HIDE DEF Z
<1>5. MappedTo(Int, w, q, x)
  <2>1. MappedTo(Z, w, q, x)
    BY <1>4, MappedGrows
  <2> QED BY <2>1 DEF Z
<1>6. w[x] = Stream!Positive(x) /\ \A i \in 1..Len(q) : w[q[i]] = Stream!Positive(q[i])
  BY <1>2, <1>3
<1> DEFINE f == Mapped(w, q)
<1>7. Ups(q) = f /\ Ups(Append(q, x)) = Mapped(w, Append(q, x))
  BY DEF Ups, w
<1> HIDE DEF f
<1> QED BY <1>1, <1>5, <1>6, <1>7 DEF f, MappedTo

LEMMA DownsGrow ==
  ASSUME NEW q, q \in Seq(Int), NEW x, x \in Int
  PROVE  /\ Downs(q) \in Seq(Int) /\ Len(Downs(q)) = Len(q)
         /\ \A i \in 1..Len(q) : Downs(q)[i] = Stream!Positive(-q[i])
         /\ Downs(Append(q, x)) = Append(Downs(q), Stream!Positive(-x))
         /\ Stream!Positive(-x) \in Int
<1> DEFINE w == [y \in Int |-> Stream!Positive(-y)]
<1>1. \A y \in Int : Stream!Positive(-y) \in Int
  BY DEF Stream!Positive
<1>2. w \in [Int -> Int] /\ \A y \in Int : w[y] = Stream!Positive(-y)
  BY <1>1
<1> HIDE DEF w
<1>3. \A i \in 1..Len(q) : q[i] \in Int
  OBVIOUS
<1> DEFINE Z == Int
<1>4. w \in [Z -> Z] /\ q \in Seq(Z) /\ x \in Z
  BY <1>2
<1> HIDE DEF Z
<1>5. MappedTo(Int, w, q, x)
  <2>1. MappedTo(Z, w, q, x)
    BY <1>4, MappedGrows
  <2> QED BY <2>1 DEF Z
<1>6. w[x] = Stream!Positive(-x) /\ \A i \in 1..Len(q) : w[q[i]] = Stream!Positive(-q[i])
  BY <1>2, <1>3
<1> DEFINE f == Mapped(w, q)
<1>7. Downs(q) = f /\ Downs(Append(q, x)) = Mapped(w, Append(q, x))
  BY DEF Downs, w
<1> HIDE DEF f
<1> QED BY <1>1, <1>5, <1>6, <1>7 DEF f, MappedTo

\* The changes over m rows.
LEMMA MomentaGrow ==
  ASSUME NEW ps, ps \in Seq(Row), NEW p, p \in Row, NEW m, m \in Nat \ {0}
  PROVE  /\ Stream!Momenta(ps, m) \in Seq(Int)
         /\ Len(Stream!Momenta(ps, m)) = IF Len(ps) > m THEN Len(ps) - m ELSE 0
         /\ Stream!Momenta(Append(ps, p), m)
              = IF Len(ps) >= m
                THEN Append(Stream!Momenta(ps, m), p.price - ps[(Len(ps) + 1) - m].price)
                ELSE Stream!Momenta(ps, m)
<1> DEFINE count(k) == IF k > m THEN k - m ELSE 0
<1>1. ASSUME NEW q, q \in Seq(Row)
      PROVE  /\ Stream!Momenta(q, m) \in Seq(Int)
             /\ Len(Stream!Momenta(q, m)) = count(Len(q))
             /\ \A i \in 1..count(Len(q)) : Stream!Momenta(q, m)[i] = q[i + m].price - q[i].price
             /\ Stream!Momenta(q, m) = [i \in 1..count(Len(q)) |-> q[i + m].price - q[i].price]
  <2> DEFINE n == count(Len(q))
             f == Stream!Momenta(q, m)
  <2>1. Len(q) \in Nat /\ n \in Nat /\ \A i \in 1..n : i \in 1..Len(q) /\ i + m \in 1..Len(q)
    OBVIOUS
  <2>2. \A i \in 1..Len(q) : q[i].price \in Int
    BY <1>1, RowsAt, RowParts
  <2>3. f = [i \in 1..n |-> q[i + m].price - q[i].price]
    BY DEF Stream!Momenta
  <2> HIDE DEF n, f
  <2>4. f = [i \in 1..n |-> f[i]] /\ \A i \in 1..n : f[i] = q[i + m].price - q[i].price
    BY <2>3
  <2>5. \A i \in 1..n : f[i] \in Int
    BY <2>1, <2>2, <2>4
  <2>6. f \in Seq(Int) /\ Len(f) = n
    BY <2>1, <2>4, <2>5, MapView
  <2> QED BY <2>3, <2>4, <2>6 DEF n, f
<1> DEFINE n == Len(ps)
           r == Append(ps, p)
           f == Stream!Momenta(ps, m)
           g == Stream!Momenta(r, m)
<1>2. n \in Nat /\ r \in Seq(Row) /\ Len(r) = n + 1 /\ r[n + 1] = p /\ \A j \in 1..n : r[j] = ps[j]
  <2>1. n \in Nat
    OBVIOUS
  <2> QED BY <2>1, AppendView
<1> HIDE DEF r
<1>3. /\ f \in Seq(Int) /\ Len(f) = count(n)
      /\ \A i \in 1..count(n) : f[i] = ps[i + m].price - ps[i].price
      /\ f = [i \in 1..count(n) |-> ps[i + m].price - ps[i].price]
  BY <1>1
<1>4. /\ g \in Seq(Int) /\ Len(g) = count(n + 1)
      /\ \A i \in 1..count(n + 1) : g[i] = r[i + m].price - r[i].price
      /\ g = [i \in 1..count(n + 1) |-> r[i + m].price - r[i].price]
  <2>1. /\ g \in Seq(Int) /\ Len(g) = count(Len(r))
        /\ \A i \in 1..count(Len(r)) : g[i] = r[i + m].price - r[i].price
        /\ g = [i \in 1..count(Len(r)) |-> r[i + m].price - r[i].price]
    BY <1>1, <1>2
  <2>2. count(Len(r)) = count(n + 1)
    BY <1>2
  <2> HIDE DEF g, count, n
  <2> QED BY <2>1, <2>2
<1> HIDE DEF f, g, n
<1>5. CASE n >= m
  <2> DEFINE x == p.price - ps[(n + 1) - m].price
             k == n - m
  <2>1. /\ k \in Nat /\ count(n) = k /\ count(n + 1) = k + 1
        /\ (n + 1) - m = k + 1 /\ (k + 1) + m = n + 1
    BY <1>2, <1>5
  <2>2. \A i \in 1..k : i \in 1..n /\ i + m \in 1..n /\ i \in 1..k + 1
    BY <1>2, <1>5
  <2>3. k + 1 \in 1..n /\ k + 1 \in 1..k + 1
    BY <1>2, <1>5
  <2> HIDE DEF k, count
  <2>4. \A i \in 1..k : g[i] = f[i]
    BY <1>2, <1>3, <1>4, <2>1, <2>2
  <2>5. g[k + 1] = x
    BY <1>2, <1>4, <2>1, <2>3
  <2> HIDE DEF x
  <2>6. Len(g) = Len(f) + 1 /\ g[Len(f) + 1] = x /\ \A i \in 1..Len(f) : g[i] = f[i]
    BY <1>3, <1>4, <2>1, <2>4, <2>5
  <2>7. g = Append(f, x)
    <3>1. f \in Seq(Int) /\ g \in Seq(Int)
      BY <1>3, <1>4
    <3> QED BY ONLY <2>6, <3>1, IntsGrownByOne
  <2> QED BY <1>3, <1>5, <2>7 DEF f, g, r, x, n, count
<1>6. CASE ~(n >= m)
  <2>1. count(n) = 0 /\ count(n + 1) = 0
    BY <1>2, <1>6
  <2>2. \A i : i \notin 1..0
    OBVIOUS
  <2> HIDE DEF count
  <2>3. f = g
    BY <1>3, <1>4, <2>1, <2>2
  <2> QED BY <1>3, <1>6, <2>3 DEF f, g, r, n, count
<1> QED BY <1>5, <1>6

\* The true ranges, from the second row on.
RangesOf(ps) ==
    [i \in 1..(IF Len(ps) > 1 THEN Len(ps) - 1 ELSE 0) |->
       Stream!TrueRange(ps[i + 1], ps[i].price)]

LEMMA TrueRangeIsInt ==
  ASSUME NEW p, p \in Row, NEW x, x \in Int
  PROVE  Stream!TrueRange(p, x) \in Int
<1>1. p.high \in Int /\ p.low \in Int
  BY RowParts
<1> QED BY <1>1 DEF Stream!TrueRange, Stream!Abs

LEMMA RangesGrow ==
  ASSUME NEW ps, ps \in Seq(Row), NEW p, p \in Row
  PROVE  /\ RangesOf(ps) \in Seq(Int)
         /\ Len(RangesOf(ps)) = IF Len(ps) > 1 THEN Len(ps) - 1 ELSE 0
         /\ \A i \in 1..Len(ps) - 1 : RangesOf(ps)[i] = Stream!TrueRange(ps[i + 1], ps[i].price)
         /\ RangesOf(Append(ps, p))
              = IF Len(ps) >= 1
                THEN Append(RangesOf(ps), Stream!TrueRange(p, ps[Len(ps)].price))
                ELSE RangesOf(ps)
<1> DEFINE count(k) == IF k > 1 THEN k - 1 ELSE 0
<1>1. ASSUME NEW q, q \in Seq(Row)
      PROVE  /\ RangesOf(q) \in Seq(Int) /\ Len(RangesOf(q)) = count(Len(q))
             /\ \A i \in 1..count(Len(q)) :
                   RangesOf(q)[i] = Stream!TrueRange(q[i + 1], q[i].price)
             /\ RangesOf(q) = [i \in 1..count(Len(q)) |-> Stream!TrueRange(q[i + 1], q[i].price)]
  <2> DEFINE n == count(Len(q))
             f == RangesOf(q)
  <2>1. Len(q) \in Nat /\ n \in Nat /\ \A i \in 1..n : i \in 1..Len(q) /\ i + 1 \in 1..Len(q)
    OBVIOUS
  <2>2. \A i \in 1..Len(q) : q[i] \in Row /\ q[i].price \in Int
    BY <1>1, RowsAt, RowParts
  <2>3. f = [i \in 1..n |-> Stream!TrueRange(q[i + 1], q[i].price)]
    BY DEF RangesOf
  <2> HIDE DEF n, f
  <2>4. f = [i \in 1..n |-> f[i]] /\ \A i \in 1..n : f[i] = Stream!TrueRange(q[i + 1], q[i].price)
    BY <2>3
  <2>5. \A i \in 1..n : f[i] \in Int
    BY <2>1, <2>2, <2>4, TrueRangeIsInt
  <2>6. f \in Seq(Int) /\ Len(f) = n
    BY <2>1, <2>4, <2>5, MapView
  <2> QED BY <2>3, <2>4, <2>6 DEF n, f
<1> DEFINE n == Len(ps)
           r == Append(ps, p)
           f == RangesOf(ps)
           g == RangesOf(r)
<1>2. n \in Nat /\ r \in Seq(Row) /\ Len(r) = n + 1 /\ r[n + 1] = p /\ \A j \in 1..n : r[j] = ps[j]
  <2>1. n \in Nat
    OBVIOUS
  <2> QED BY <2>1, AppendView
<1> HIDE DEF r
<1>3. /\ f \in Seq(Int) /\ Len(f) = count(n)
      /\ \A i \in 1..count(n) : f[i] = Stream!TrueRange(ps[i + 1], ps[i].price)
      /\ f = [i \in 1..count(n) |-> Stream!TrueRange(ps[i + 1], ps[i].price)]
  BY <1>1
<1>4. /\ g \in Seq(Int) /\ Len(g) = count(n + 1)
      /\ \A i \in 1..count(n + 1) : g[i] = Stream!TrueRange(r[i + 1], r[i].price)
      /\ g = [i \in 1..count(n + 1) |-> Stream!TrueRange(r[i + 1], r[i].price)]
  <2>1. /\ g \in Seq(Int) /\ Len(g) = count(Len(r))
        /\ \A i \in 1..count(Len(r)) : g[i] = Stream!TrueRange(r[i + 1], r[i].price)
        /\ g = [i \in 1..count(Len(r)) |-> Stream!TrueRange(r[i + 1], r[i].price)]
    BY <1>1, <1>2
  <2>2. count(Len(r)) = count(n + 1)
    BY <1>2
  <2> HIDE DEF g, count, n
  <2> QED BY <2>1, <2>2
<1> HIDE DEF f, g, n
<1>5. \A i \in 1..n - 1 : f[i] = Stream!TrueRange(ps[i + 1], ps[i].price)
  <2>1. \A i \in 1..n - 1 : i \in 1..count(n)
    BY <1>2
  <2> QED BY <1>3, <2>1
<1>6. CASE n >= 1
  <2> DEFINE x == Stream!TrueRange(p, ps[n].price)
             k == n - 1
  <2>1. k \in Nat /\ count(n) = k /\ count(n + 1) = k + 1 /\ k + 1 = n
    BY <1>2, <1>6
  <2>2. \A i \in 1..k : i \in 1..n /\ i + 1 \in 1..n /\ i \in 1..k + 1
    BY <1>2, <1>6
  <2>3. k + 1 \in 1..n /\ k + 1 \in 1..k + 1
    BY <1>2, <1>6
  <2> HIDE DEF k, count
  <2>4. \A i \in 1..k : g[i] = f[i]
    BY <1>2, <1>3, <1>4, <2>1, <2>2
  <2>5. g[k + 1] = x
    BY <1>2, <1>4, <2>1, <2>3
  <2> HIDE DEF x
  <2>6. Len(g) = Len(f) + 1 /\ g[Len(f) + 1] = x /\ \A i \in 1..Len(f) : g[i] = f[i]
    BY <1>3, <1>4, <2>1, <2>4, <2>5
  <2>7. g = Append(f, x)
    <3>1. f \in Seq(Int) /\ g \in Seq(Int)
      BY <1>3, <1>4
    <3> QED BY ONLY <2>6, <3>1, IntsGrownByOne
  <2> QED BY <1>3, <1>5, <1>6, <2>7 DEF f, g, r, x, n, count
<1>7. CASE ~(n >= 1)
  <2>1. count(n) = 0 /\ count(n + 1) = 0
    BY <1>2, <1>7
  <2>2. \A i : i \notin 1..0
    OBVIOUS
  <2> HIDE DEF count
  <2>3. f = g
    BY <1>3, <1>4, <2>1, <2>2
  <2> QED BY <1>3, <1>5, <1>7, <2>3 DEF f, g, r, n, count
<1> QED BY <1>6, <1>7

\* Powers, one factor at a time.
Closed(b, V) == 1 \in V /\ \A v \in V : b * v \in V

Powers(p, b, e, V) ==
    /\ p \in [0..e -> V] /\ p[0] = 1 /\ \A i \in 1..e : p[i] = b * p[i - 1]
    /\ Stream!Pow(b, e) = p[e]

LEMMA PowersExist ==
  ASSUME NEW b, NEW V, Closed(b, V), NEW e, e \in Nat
  PROVE  \E p : Powers(p, b, e, V)
<1> DEFINE F == [i \in 1..e |-> [v \in V |-> b * v]]
           It(f) == f = [i \in 0..e |-> IF i = 0 THEN 1 ELSE b * f[i - 1]]
           p == CHOOSE f : It(f)
<1>1. Stream!Pow(b, e) = p[e]
  BY DEF Stream!Pow
<1>2. F \in [1..e -> [V -> V]] /\ \A i \in 1..e, v \in V : F[i][v] = b * v
  BY DEF Closed
<1>3. PICK t : Traces(t, e, V, 1, F)
  <2>1. 1 \in V
    BY DEF Closed
  <2> HIDE DEF F
  <2> QED BY <1>2, <2>1, TraceExists
<1>4. /\ t \in [0..e -> V] /\ t[0] = 1
      /\ \A i \in 1..e : t[i - 1] \in V /\ t[i] = F[i][t[i - 1]]
  BY <1>3 DEF Traces
<1> HIDE DEF F
<1>5. \A i \in 1..e : t[i] = b * t[i - 1]
  BY <1>2, <1>4
<1>6. It(t)
  <2>1. \A i \in 0..e : i # 0 => i \in 1..e
    OBVIOUS
  <2> QED BY <1>4, <1>5, <2>1
<1>7. It(p)
  <2> HIDE DEF It
  <2> QED BY <1>6
<1> HIDE DEF p
<1>8. p[0] = 1 /\ \A i \in 1..e : p[i] = b * p[i - 1]
  BY <1>7
<1>9. \A i \in 0..e : p[i] = t[i]
  <2> DEFINE G == {i \in 0..e : p[i] = t[i]}
  <2>1. 0 \in G
    BY <1>4, <1>8
  <2>2. ASSUME NEW i \in 1..e, i - 1 \in G PROVE i \in G
    BY <1>5, <1>8, <2>2
  <2> HIDE DEF G
  <2>3. 0..e \subseteq G
    BY <2>1, <2>2, PlaceInduction
  <2> QED BY <2>3 DEF G
<1>10. p = [i \in 0..e |-> p[i]]
  BY <1>7
<1>11. p \in [0..e -> V]
  BY <1>4, <1>9, <1>10
<1> QED BY <1>1, <1>8, <1>11 DEF Powers

LEMMA PowStep ==
  ASSUME NEW b, b \in Int, NEW e, e \in Nat
  PROVE  /\ Stream!Pow(b, e) \in Int /\ Stream!Pow(b, 0) = 1
         /\ Stream!Pow(b, e + 1) = b * Stream!Pow(b, e)
<1>1. Closed(b, Int)
  BY DEF Closed
<1>2. PICK p : Powers(p, b, e, Int)
  BY <1>1, PowersExist
<1>3. PICK r : Powers(r, b, e + 1, Int)
  <2> DEFINE d == e + 1
  <2>1. d \in Nat
    OBVIOUS
  <2> HIDE DEF d
  <2>2. \E r : Powers(r, b, d, Int)
    BY <1>1, <2>1, PowersExist
  <2> QED BY <2>2 DEF d
<1>4. PICK o : Powers(o, b, 0, Int)
  BY <1>1, PowersExist
<1>5. r[e] = p[e]
  <2> DEFINE G == {i \in 0..e : r[i] = p[i]}
  <2>1. 0 \in G
    BY <1>2, <1>3 DEF Powers
  <2>2. ASSUME NEW i \in 1..e, i - 1 \in G PROVE i \in G
    <3>1. i \in 1..e + 1 /\ i \in 0..e
      OBVIOUS
    <3>2. r[i] = b * r[i - 1] /\ p[i] = b * p[i - 1]
      BY <1>2, <1>3, <3>1 DEF Powers
    <3> QED BY <2>2, <3>1, <3>2
  <2> HIDE DEF G
  <2>3. 0..e \subseteq G
    BY <2>1, <2>2, PlaceInduction
  <2> QED BY <2>3 DEF G
<1>6. r[e + 1] = b * r[e]
  <2>1. e + 1 \in 1..e + 1 /\ (e + 1) - 1 = e
    OBVIOUS
  <2> QED BY <1>3, <2>1 DEF Powers
<1>7. p[e] \in Int
  BY <1>2 DEF Powers
<1> QED BY <1>2, <1>3, <1>4, <1>5, <1>6, <1>7 DEF Powers

LEMMA PowIsPositive ==
  ASSUME NEW b, b \in Nat \ {0}, NEW e, e \in Nat
  PROVE  Stream!Pow(b, e) \in Nat \ {0}
<1> DEFINE V == Nat \ {0}
<1>1. Closed(b, V)
  BY DEF Closed
<1> HIDE DEF V
<1>2. PICK p : Powers(p, b, e, V)
  BY <1>1, PowersExist
<1>3. e \in 0..e
  OBVIOUS
<1> QED BY <1>2, <1>3 DEF V, Powers

\* A common factor of the elements of a sequence.
LEMMA TotalOfMultiples ==
  ASSUME NEW q, q \in Seq(Int), NEW r, r \in Seq(Int), NEW c, c \in Int, Len(r) = Len(q),
         \A i \in 1..Len(q) : r[i] = c * q[i]
  PROVE  Stream!Total(r) = c * Stream!Total(q)
<1> DEFINE n == Len(q)
           G == {k \in 0..n : Stream!Total(SubSeq(r, 1, k)) = c * Stream!Total(SubSeq(q, 1, k))}
<1>1. n \in Nat
  OBVIOUS
<1>2. 0 \in G
  <2>1. SubSeq(r, 1, 0) = <<>> /\ SubSeq(q, 1, 0) = <<>> /\ c * 0 = 0
    OBVIOUS
  <2>2. 0 \in 0..n
    BY <1>1
  <2>3. Stream!Total(SubSeq(r, 1, 0)) = c * Stream!Total(SubSeq(q, 1, 0))
    <3> DEFINE z == Stream!Total(<<>>)
    <3>1. z = 0
      BY TotalOfNone
    <3>2. z = c * z
      <4> HIDE DEF z
      <4> QED BY <2>1, <3>1
    <3> HIDE DEF z
    <3> QED BY <2>1, <3>2 DEF z
  <2> QED BY <2>2, <2>3
<1>3. ASSUME NEW k \in 1..n, k - 1 \in G PROVE k \in G
  <2> DEFINE a == SubSeq(q, 1, k - 1)
             b == SubSeq(r, 1, k - 1)
             x == q[k]
             y == r[k]
  <2> DEFINE Z == Int
  <2>1. /\ a \in Seq(Int) /\ x \in Int /\ SubSeq(q, 1, k) = Append(a, x)
        /\ b \in Seq(Int) /\ y \in Int /\ SubSeq(r, 1, k) = Append(b, y)
    <3>1. q \in Seq(Z) /\ r \in Seq(Z) /\ k \in 1..Len(q) /\ k \in 1..Len(r)
      OBVIOUS
    <3> HIDE DEF Z
    <3>2. a \in Seq(Z) /\ x \in Z /\ SubSeq(q, 1, k) = Append(a, x)
      BY <3>1, PrefixGrows
    <3>3. b \in Seq(Z) /\ y \in Z /\ SubSeq(r, 1, k) = Append(b, y)
      BY <3>1, PrefixGrows
    <3> QED BY <3>2, <3>3 DEF Z
  <2>2. y = c * x /\ Stream!Total(b) = c * Stream!Total(a)
    BY <1>3
  <2>3. k \in 0..n
    OBVIOUS
  <2> HIDE DEF a, b, x, y
  <2>4. /\ Stream!Total(Append(a, x)) = Stream!Total(a) + x
        /\ Stream!Total(Append(b, y)) = Stream!Total(b) + y
        /\ Stream!Total(a) \in Int
    BY <2>1, TotalOfAppend, TotalIsSeqSum
  <2>5. c * (Stream!Total(a) + x) = c * Stream!Total(a) + c * x
    BY <2>1, <2>4
  <2> QED BY <2>1, <2>2, <2>3, <2>4, <2>5
<1> HIDE DEF G
<1>4. 0..n \subseteq G
  <2> HIDE DEF n
  <2> QED BY <1>1, <1>2, <1>3, PlaceInduction
<1>5. n \in G
  BY <1>1, <1>4
<1>6. SubSeq(q, 1, n) = q /\ SubSeq(r, 1, n) = r
  OBVIOUS
<1> QED BY <1>5, <1>6 DEF G

LEMMA Reordered ==
  \A u, c, b, a \in Int : (u * (c * b)) * a = c * ((u * b) * a)
OBVIOUS

\* The summands of a smoothed average after k more values.
Terms(xs, P, w, d, k) ==
    [i \in 1..k |-> P * w * xs[P + i] * Stream!Pow(d - w, k - i) * Stream!Pow(d, i - 1)]

InParts(s, xs, P, w, d, k) ==
    /\ s = Stream!Frac(s.n, s.d) /\ s.d = P * Stream!Pow(d, k)
    /\ s.n = Stream!Total(SubSeq(xs, 1, P)) * Stream!Pow(d - w, k)
               + Stream!Total(Terms(xs, P, w, d, k))

LEMMA SmoothedParts ==
  ASSUME NEW xs, NEW P, NEW w, NEW d, NEW k, k = Len(xs) - P
  PROVE  InParts(Stream!Smoothed(xs, P, w, d), xs, P, w, d, k)
<1> DEFINE n == Stream!Total(SubSeq(xs, 1, P)) * Stream!Pow(d - w, k)
                  + Stream!Total(Terms(xs, P, w, d, k))
           m == P * Stream!Pow(d, k)
<1>1. Stream!Smoothed(xs, P, w, d) = Stream!Frac(n, m)
  BY DEF Stream!Smoothed, Terms
<1> HIDE DEF n, m
<1>2. Stream!Smoothed(xs, P, w, d).n = n /\ Stream!Smoothed(xs, P, w, d).d = m
  BY <1>1 DEF Stream!Frac
<1> QED BY <1>1, <1>2 DEF n, m, InParts

AreTerms(T, xs, P, w, d, k) ==
    /\ T \in Seq(Int) /\ Len(T) = k
    /\ \A i \in 1..k :
          /\ xs[P + i] \in Int /\ P * w * xs[P + i] \in Int
          /\ Stream!Pow(d - w, k - i) \in Int /\ Stream!Pow(d, i - 1) \in Int
          /\ T[i] = ((P * w * xs[P + i]) * Stream!Pow(d - w, k - i)) * Stream!Pow(d, i - 1)

LEMMA TermsView ==
  ASSUME NEW xs, xs \in Seq(Int), NEW P, P \in Nat, NEW w, w \in Int, NEW d, d \in Int,
         NEW k, k \in Nat, P + k = Len(xs)
  PROVE  AreTerms(Terms(xs, P, w, d, k), xs, P, w, d, k)
<1> DEFINE T == Terms(xs, P, w, d, k)
<1>1. \A i \in 1..k : P + i \in 1..Len(xs) /\ k - i \in Nat /\ i - 1 \in Nat
  OBVIOUS
<1>2. \A i \in 1..k : xs[P + i] \in Int
  BY <1>1
<1>3. \A i \in 1..k : Stream!Pow(d - w, k - i) \in Int /\ Stream!Pow(d, i - 1) \in Int
  <2>1. d - w \in Int
    OBVIOUS
  <2> QED BY <1>1, <2>1, PowStep
<1>4. \A i \in 1..k : P * w * xs[P + i] \in Int
  <2>1. P * w \in Int
    OBVIOUS
  <2>2. \A u, v \in Int : u * v \in Int
    OBVIOUS
  <2> QED BY ONLY <2>1, <2>2, <1>2
<1>5. \A i \in 1..k : T[i] = ((P * w * xs[P + i]) * Stream!Pow(d - w, k - i))
                               * Stream!Pow(d, i - 1)
  BY DEF Terms
<1>6. \A i \in 1..k : T[i] \in Int
  <2>1. \A u, v, x \in Int : (u * v) * x \in Int
    OBVIOUS
  <2> HIDE DEF T
  <2> QED BY ONLY <2>1, <1>3, <1>4, <1>5
<1>7. T = [i \in 1..k |-> T[i]]
  BY DEF Terms
<1> HIDE DEF T
<1>8. T \in Seq(Int) /\ Len(T) = k
  BY <1>6, <1>7, MapView
<1> QED BY <1>2, <1>3, <1>4, <1>5, <1>8 DEF T, AreTerms

LEMMA SmoothedSeed ==
  ASSUME NEW xs, xs \in Seq(Int), NEW P, P \in Nat \ {0}, NEW w, w \in Int, NEW d, d \in Int,
         Len(xs) = P
  PROVE  Stream!Smoothed(xs, P, w, d) = Stream!Frac(Stream!Total(xs), P)
<1> DEFINE s == Stream!Smoothed(xs, P, w, d)
           t == Stream!Total(xs)
           e == d - w
<1> DEFINE z == 0
<1>0. z \in Nat /\ z = Len(xs) - P /\ P + z = Len(xs) /\ P \in Nat
  OBVIOUS
<1>1. 0 = Len(xs) - P /\ P + 0 = Len(xs) /\ SubSeq(xs, 1, P) = xs /\ e \in Int
  OBVIOUS
<1>2. t \in Int
  BY TotalIsSeqSum
<1>3. Stream!Total(Terms(xs, P, w, d, 0)) = 0
  <2> DEFINE T == Terms(xs, P, w, d, 0)
  <2>1. T \in Seq(Int) /\ Len(T) = 0
    <3> HIDE DEF z
    <3>1. AreTerms(Terms(xs, P, w, d, z), xs, P, w, d, z)
      BY <1>0, TermsView
    <3> QED BY <3>1 DEF AreTerms, z
  <2> HIDE DEF T
  <2>2. T = <<>>
    BY <2>1
  <2> QED BY <2>2, TotalOfNone DEF T
<1>4. Stream!Pow(e, 0) = 1 /\ Stream!Pow(d, 0) = 1
  BY <1>1, PowStep
<1>5. /\ s.n = t * Stream!Pow(e, 0) + Stream!Total(Terms(xs, P, w, d, 0))
      /\ s.d = P * Stream!Pow(d, 0)
      /\ s = Stream!Frac(s.n, s.d)
  <2> HIDE DEF z
  <2>1. InParts(Stream!Smoothed(xs, P, w, d), xs, P, w, d, z)
    BY <1>0, SmoothedParts
  <2> QED BY <1>1, <2>1 DEF InParts, z
<1> HIDE DEF s, t, e
<1>6. t * 1 + 0 = t /\ P * 1 = P
  BY <1>2
<1> QED BY <1>3, <1>4, <1>5, <1>6 DEF s, t

\* One more value x of weight w / d.
SmoothedTo(s, s1, w, d, x) ==
    /\ s.n \in Int /\ s.d \in Nat \ {0} /\ s = Stream!Frac(s.n, s.d)
    /\ s1 = Stream!Frac((d - w) * s.n + (w * x) * s.d, d * s.d)

LEMMA SmoothedStep ==
  ASSUME NEW xs, xs \in Seq(Int), NEW P, P \in Nat \ {0}, NEW w, w \in Int,
         NEW d, d \in Nat \ {0}, Len(xs) >= P, NEW x, x \in Int,
         NEW s, s = Stream!Smoothed(xs, P, w, d)
  PROVE  SmoothedTo(s, Stream!Smoothed(Append(xs, x), P, w, d), w, d, x)
<1> DEFINE k == Len(xs) - P
           j == k + 1
           e == d - w
           r == Append(xs, x)
           s1 == Stream!Smoothed(r, P, w, d)
           T == Terms(xs, P, w, d, k)
           T1 == Terms(r, P, w, d, j)
           B == Stream!Total(SubSeq(xs, 1, P))
<1>1. /\ k \in Nat /\ P + k = Len(xs) /\ j \in Nat /\ e \in Int /\ P \in Nat
      /\ P \in Int /\ d \in Int
  OBVIOUS
<1>2. /\ r \in Seq(Int) /\ Len(r) = Len(xs) + 1 /\ r[Len(xs) + 1] = x
      /\ \A i \in 1..Len(xs) : r[i] = xs[i]
  OBVIOUS
<1>3. P + j = Len(r) /\ j = Len(r) - P
  BY <1>1, <1>2
<1>4. SubSeq(r, 1, P) = SubSeq(xs, 1, P)
  BY <1>1, <1>2
<1>5. InParts(s, xs, P, w, d, k) /\ InParts(s1, r, P, w, d, j)
  <2> HIDE DEF r, k, j
  <2> QED BY <1>3, SmoothedParts DEF k
<1>6. AreTerms(T, xs, P, w, d, k) /\ AreTerms(T1, r, P, w, d, j)
  <2> HIDE DEF r, k, j
  <2> QED BY <1>1, <1>2, <1>3, TermsView
<1>7. B \in Int /\ Stream!Total(T) \in Int
  <2>1. SubSeq(xs, 1, P) \in Seq(Int)
    BY <1>1
  <2>2. T \in Seq(Int)
    BY <1>6 DEF AreTerms
  <2> HIDE DEF T
  <2> QED BY <2>1, <2>2, TotalIsSeqSum
<1>8. /\ Stream!Pow(e, k) \in Int /\ Stream!Pow(e, j) = e * Stream!Pow(e, k)
      /\ Stream!Pow(d, k) \in Nat \ {0} /\ Stream!Pow(d, j) = d * Stream!Pow(d, k)
      /\ Stream!Pow(e, 0) = 1
  <2> HIDE DEF k, e
  <2> QED BY <1>1, PowStep, PowIsPositive
<1> DEFINE u == Stream!Pow(e, k)
           v == Stream!Pow(d, k)
           last == ((P * w * x) * 1) * v
<1> HIDE DEF s1, T, T1, r, B
<1>9. Stream!Total(T1) = e * Stream!Total(T) + last
  <2> DEFINE front == SubSeq(T1, 1, k)
  <2>1. /\ T \in Seq(Int) /\ Len(T) = k /\ T1 \in Seq(Int) /\ Len(T1) = j
    BY <1>6 DEF AreTerms
  <2>2. \A i \in 1..k : T1[i] = e * T[i]
    <3> SUFFICES ASSUME NEW i \in 1..k PROVE T1[i] = e * T[i]
      OBVIOUS
    <3> DEFINE a == P * w * xs[P + i]
               b == Stream!Pow(e, k - i)
               c == Stream!Pow(d, i - 1)
    <3>1. k - i \in Nat /\ j - i = (k - i) + 1 /\ i \in 1..j /\ P + i \in 1..Len(xs)
      BY <1>1
    <3>2. a \in Int /\ b \in Int /\ c \in Int /\ T[i] = (a * b) * c
      BY <1>6 DEF AreTerms
    <3>3. T1[i] = ((P * w * r[P + i]) * Stream!Pow(e, j - i)) * c
      BY <1>6, <3>1 DEF AreTerms
    <3>4. r[P + i] = xs[P + i]
      BY <1>2, <3>1
    <3>5. Stream!Pow(e, (k - i) + 1) = e * b
      <4> DEFINE m == k - i
      <4> HIDE DEF m, e
      <4> QED BY <1>1, <3>1, PowStep DEF m
    <3>6. T1[i] = (a * (e * b)) * c
      BY <3>1, <3>3, <3>4, <3>5
    <3> HIDE DEF a, b, c, e
    <3> QED BY <1>1, <3>2, <3>6, Reordered
  <2>3. T1[j] = last /\ last \in Int
    <3>1. j \in 1..j /\ j - j = 0 /\ j - 1 = k /\ P + j = Len(xs) + 1
      BY <1>1
    <3>2. /\ T1[j] = ((P * w * r[P + j]) * Stream!Pow(e, j - j)) * Stream!Pow(d, j - 1)
      BY <1>6, <3>1 DEF AreTerms
    <3>3. T1[j] = last
      BY <1>2, <1>8, <3>1, <3>2
    <3>4. T1[j] \in Int
      <4> HIDE DEF T1, j, k
      <4>1. j \in DOMAIN T1 /\ T1 \in Seq(Int)
        BY <2>1, <3>1
      <4> QED BY <4>1, ElementsOf
    <3> QED BY <3>3, <3>4
  <2>4. /\ front \in Seq(Int) /\ Len(front) = k /\ T1 = Append(front, T1[j])
        /\ \A i \in 1..k : front[i] = T1[i]
    <3>1. SubSeq(T1, 1, j) = T1 /\ j \in 1..Len(T1) /\ j - 1 = k
      BY <1>1, <2>1
    <3> DEFINE Z == Int
    <3>2. T1 \in Seq(Z)
      BY <2>1
    <3> HIDE DEF Z, j
    <3>3. SubSeq(T1, 1, j) = Append(SubSeq(T1, 1, j - 1), T1[j])
      BY <3>1, <3>2, PrefixGrows
    <3>4. T1 = Append(front, T1[j])
      BY <3>1, <3>3
    <3>5. front \in Seq(Int) /\ Len(front) = k /\ \A i \in 1..k : front[i] = T1[i]
      <4>1. T1 \in Seq(Int) /\ Len(T1) = k + 1 /\ k \in Nat
        BY <1>1, <2>1 DEF j
      <4> HIDE DEF k
      <4> QED BY ONLY <4>1
    <3> QED BY <3>4, <3>5
  <2> HIDE DEF front, last, e, j
  <2>5. Stream!Total(front) = e * Stream!Total(T)
    <3>1. \A i \in 1..Len(T) : front[i] = e * T[i]
      BY <2>1, <2>2, <2>4
    <3> QED BY <1>1, <2>1, <2>4, <3>1, TotalOfMultiples
  <2>6. Stream!Total(Append(front, last)) = Stream!Total(front) + last
    BY <2>3, <2>4, TotalOfAppend
  <2> QED BY <2>3, <2>4, <2>5, <2>6
<1>10. /\ s.n = B * u + Stream!Total(T) /\ s.d = P * v /\ s = Stream!Frac(s.n, s.d)
       /\ s1.n = B * (e * u) + Stream!Total(T1) /\ s1.d = P * (d * v)
       /\ s1 = Stream!Frac(s1.n, s1.d)
  BY <1>4, <1>5, <1>8 DEF InParts, T, T1, B
<1>11. u \in Int /\ v \in Nat \ {0}
  BY <1>8
<1> DEFINE t == Stream!Total(T)
<1> HIDE DEF u, v, e, t
<1>12. s.n \in Int /\ s.d \in Nat \ {0}
  <2>1. B * u \in Int /\ P * v \in Nat \ {0}
    BY <1>7, <1>11
  <2> QED BY <1>7, <1>10, <2>1 DEF t
<1>13. P * (d * v) = d * (P * v)
  BY <1>1, <1>11
<1>14. B * (e * u) + (e * t + last) = e * (B * u + t) + (w * x) * (P * v)
  <2>1. last = (w * x) * (P * v)
    BY <1>1, <1>11
  <2>2. B * (e * u) + e * t = e * (B * u + t)
    BY <1>1, <1>7, <1>11 DEF t
  <2>3. B * (e * u) \in Int /\ e * t \in Int /\ last \in Int
    BY <1>1, <1>7, <1>11 DEF t
  <2> HIDE DEF last
  <2> QED BY <2>1, <2>2, <2>3
<1>15. s1 = Stream!Frac(e * s.n + (w * x) * s.d, d * s.d)
  BY <1>9, <1>10, <1>13, <1>14 DEF t
<1> QED BY <1>10, <1>12, <1>15 DEF s1, r, e, SmoothedTo

-------------------------------------------------------------------------------
(* What each indicator keeps of the rows ps it was given.                   *)

\* A deque of at most m, and its running sum.
Deque(w, sum, q, m) == w = LastUpTo(q, m) /\ sum = Stream!Total(LastUpTo(q, m))

Moved(w, sum, q, x, m) ==
    /\ Deque(w, sum, Append(q, x), m)
    /\ Len(w) = IF Len(q) + 1 <= m THEN Len(q) + 1 ELSE m

LEMMA WindowStep ==
  ASSUME NEW q, q \in Seq(Int), NEW x, x \in Int, NEW m, m \in Nat \ {0}, NEW w, NEW sum,
         Deque(w, sum, q, m)
  PROVE  Moved(Stream!Push(w, x, m), Stream!Slide(sum, w, x, m), q, x, m)
<1> DEFINE r == Append(q, x)
           Z == Int
<1>1. Len(r) = Len(q) + 1 /\ r \in Seq(Z) /\ m \in Nat /\ q \in Seq(Z) /\ x \in Z
  OBVIOUS
<1> HIDE DEF Z
<1>2. Stream!Push(LastUpTo(q, m), x, m) = LastUpTo(r, m)
  BY <1>1, PushKeepsLast
<1>3. IsLast(LastUpTo(r, m), Z, r, Len(r), m)
  <2> HIDE DEF r
  <2> QED BY <1>1, LastView
<1>4. Len(LastUpTo(r, m)) = IF Len(r) <= m THEN Len(r) ELSE m
  BY <1>3 DEF IsLast
<1>5. Stream!Slide(Stream!Total(LastUpTo(q, m)), LastUpTo(q, m), x, m)
        = Stream!Total(LastUpTo(r, m))
  BY SlideKeepsTotal
<1> HIDE DEF r
<1> QED BY <1>1, <1>2, <1>4, <1>5 DEF Deque, Moved, r

KeptSMA(s, ps, P) ==
    LET w == LastUpTo(ClosesOf(ps), P)
        t == Stream!Total(w)
    IN  IF Len(ps) >= P
        THEN s = [ready |-> TRUE, value |-> Stream!Frac(t, P), window |-> w, sum |-> t]
        ELSE s = [ready |-> FALSE, value |-> Stream!NoValue, window |-> w, sum |-> t]

LEMMA SMAStep ==
  ASSUME NEW ps, ps \in Seq(Row), NEW p, p \in Row, NEW c, c.period \in Nat \ {0},
         NEW s, KeptSMA(s, ps, c.period)
  PROVE  KeptSMA(Stream!UpdateSMA(c, s, p), Append(ps, p), c.period)
<1> DEFINE P == c.period
           q == ClosesOf(ps)
           x == p.price
           n == Len(ps)
           w0 == LastUpTo(q, P)
           t0 == Stream!Total(w0)
           w == Stream!Push(w0, x, P)
           t == Stream!Slide(t0, w0, x, P)
           r == Append(ps, p)
<1>1. /\ q \in Seq(Int) /\ Len(q) = n /\ x \in Int /\ ClosesOf(r) = Append(q, x)
      /\ n \in Nat /\ Len(r) = n + 1 /\ P \in Nat \ {0}
  BY ClosesGrow
<1>2. Deque(w0, t0, q, P)
  BY DEF Deque
<1>3. Deque(w, t, Append(q, x), P) /\ Len(w) = IF n + 1 <= P THEN n + 1 ELSE P
  <2> HIDE DEF w0, t0, q, P, x, r, n
  <2>1. Moved(w, t, q, x, P)
    BY <1>1, <1>2, WindowStep
  <2> HIDE DEF w, t
  <2> QED BY <1>1, <2>1 DEF Moved
<1>4. w = LastUpTo(ClosesOf(r), P) /\ t = Stream!Total(LastUpTo(ClosesOf(r), P))
  BY <1>1, <1>3 DEF Deque
<1>5. IF n >= P
      THEN s = [ready |-> TRUE, value |-> Stream!Frac(t0, P), window |-> w0, sum |-> t0]
      ELSE s = [ready |-> FALSE, value |-> Stream!NoValue, window |-> w0, sum |-> t0]
  BY DEF KeptSMA
<1>6. s.window = w0 /\ s.sum = t0
  BY <1>5
<1>7. Stream!UpdateSMA(c, s, p)
        = Stream!Publish([s EXCEPT !.window = w, !.sum = t], Len(w) = P, Stream!Frac(t, P))
  BY <1>6 DEF Stream!UpdateSMA
<1> HIDE DEF w0, t0, w, t, P, q, x, r
<1>8. CASE n + 1 >= P
  <2>1. Len(w) = P
    BY <1>1, <1>3, <1>8
  <2>2. Stream!UpdateSMA(c, s, p)
          = [ready |-> TRUE, value |-> Stream!Frac(t, P), window |-> w, sum |-> t]
    BY <1>5, <1>7, <2>1 DEF Stream!Publish
  <2> QED BY <1>1, <1>4, <1>8, <2>2 DEF KeptSMA, P, r
<1>9. CASE ~(n + 1 >= P)
  <2>1. Len(w) # P /\ ~(n >= P)
    BY <1>1, <1>3, <1>9
  <2>2. Stream!UpdateSMA(c, s, p)
          = [ready |-> FALSE, value |-> Stream!NoValue, window |-> w, sum |-> t]
    <3>1. Stream!UpdateSMA(c, s, p) = [s EXCEPT !.window = w, !.sum = t]
      BY <1>7, <2>1 DEF Stream!Publish
    <3>2. s = [ready |-> FALSE, value |-> Stream!NoValue, window |-> w0, sum |-> t0]
      BY <1>5, <2>1
    <3> QED BY ONLY <3>1, <3>2
  <2> QED BY <1>1, <1>4, <1>9, <2>2 DEF KeptSMA, P, r
<1> QED BY <1>8, <1>9

DMAOf(w, P, S) ==
    Stream!Frac(Stream!Total(SubSeq(w, Len(w) - S - P + 1, Len(w) - S)), P)

KeptDMA(s, ps, P, S) ==
    LET w == LastUpTo(ClosesOf(ps), P + S)
    IN  IF Len(ps) >= P + S
        THEN s = [ready |-> TRUE, value |-> DMAOf(w, P, S), window |-> w, sum |-> 0]
        ELSE s = [ready |-> FALSE, value |-> Stream!NoValue, window |-> w, sum |-> 0]

LEMMA DMAStep ==
  ASSUME NEW ps, ps \in Seq(Row), NEW p, p \in Row, NEW c, c.period \in Nat \ {0}, c.shift \in Nat,
         NEW s, KeptDMA(s, ps, c.period, c.shift)
  PROVE  KeptDMA(Stream!UpdateDMA(c, s, p), Append(ps, p), c.period, c.shift)
<1> DEFINE P == c.period
           S == c.shift
           M == P + S
           q == ClosesOf(ps)
           x == p.price
           n == Len(ps)
           w0 == LastUpTo(q, M)
           t0 == Stream!Total(w0)
           w == Stream!Push(w0, x, M)
           t == Stream!Slide(t0, w0, x, M)
           r == Append(ps, p)
           v == DMAOf(w, P, S)
<1>1. /\ q \in Seq(Int) /\ Len(q) = n /\ x \in Int /\ ClosesOf(r) = Append(q, x)
      /\ n \in Nat /\ Len(r) = n + 1 /\ M \in Nat \ {0} /\ r[Len(r)] = p
  BY ClosesGrow
<1>2. Deque(w0, t0, q, M)
  BY DEF Deque
<1>3. Deque(w, t, Append(q, x), M) /\ Len(w) = IF n + 1 <= M THEN n + 1 ELSE M
  <2> HIDE DEF w0, t0, q, M, x, r, n
  <2>1. Moved(w, t, q, x, M)
    BY <1>1, <1>2, WindowStep
  <2> HIDE DEF w, t
  <2> QED BY <1>1, <2>1 DEF Moved
<1>4. w = LastUpTo(ClosesOf(r), M)
  BY <1>1, <1>3 DEF Deque
<1>5. IF n >= M
      THEN s = [ready |-> TRUE, value |-> s.value, window |-> w0, sum |-> 0]
      ELSE s = [ready |-> FALSE, value |-> Stream!NoValue, window |-> w0, sum |-> 0]
  BY DEF KeptDMA
<1>6. s.window = w0
  BY <1>5
<1>7. Stream!UpdateDMA(c, s, p)
        = Stream!Publish([s EXCEPT !.window = w], Len(w) = M, v)
  BY <1>6 DEF Stream!UpdateDMA, DMAOf
<1> HIDE DEF w0, t0, w, t, M, q, r, v
<1>8. CASE n + 1 >= M
  <2>1. Len(w) = M
    BY <1>1, <1>3, <1>8
  <2>2. Stream!UpdateDMA(c, s, p)
          = [ready |-> TRUE, value |-> v, window |-> w, sum |-> 0]
    <3>1. Stream!UpdateDMA(c, s, p) = [s EXCEPT !.window = w, !.ready = TRUE, !.value = v]
      BY <1>7, <2>1 DEF Stream!Publish
    <3> DEFINE u == s.value
    <3>2. PICK b : s = [ready |-> b, value |-> u, window |-> w0, sum |-> 0]
      BY <1>5
    <3> HIDE DEF u
    <3> QED BY ONLY <3>1, <3>2
  <2> QED BY <1>1, <1>4, <1>8, <2>2 DEF KeptDMA, M, P, S, r, v, x
<1>9. CASE ~(n + 1 >= M)
  <2>1. Len(w) # M /\ ~(n >= M)
    BY <1>1, <1>3, <1>9
  <2>2. Stream!UpdateDMA(c, s, p)
          = [ready |-> FALSE, value |-> Stream!NoValue, window |-> w, sum |-> 0]
    <3>1. Stream!UpdateDMA(c, s, p) = [s EXCEPT !.window = w]
      BY <1>7, <2>1 DEF Stream!Publish
    <3>2. s = [ready |-> FALSE, value |-> Stream!NoValue, window |-> w0, sum |-> 0]
      BY <1>5, <2>1
    <3> QED BY ONLY <3>1, <3>2
  <2> QED BY <1>1, <1>4, <1>9, <2>2 DEF KeptDMA, M, P, S, r
<1> QED BY <1>8, <1>9

ROCOf(w, x) ==
    IF w[1] = 0 THEN Stream!Frac(0, 1) ELSE Stream!Frac((x - w[1]) * 100, w[1])

KeptROC(s, ps, P) ==
    LET w == LastUpTo(ClosesOf(ps), P + 1)
    IN  IF Len(ps) >= P + 1
        THEN s = [ready |-> TRUE, value |-> ROCOf(w, ps[Len(ps)].price), window |-> w, sum |-> 0]
        ELSE s = [ready |-> FALSE, value |-> Stream!NoValue, window |-> w, sum |-> 0]

LEMMA ROCStep ==
  ASSUME NEW ps, ps \in Seq(Row), NEW p, p \in Row, NEW c, c.period \in Nat \ {0},
         NEW s, KeptROC(s, ps, c.period)
  PROVE  KeptROC(Stream!UpdateROC(c, s, p), Append(ps, p), c.period)
<1> DEFINE P == c.period
           S == c.shift
           M == P + 1
           q == ClosesOf(ps)
           x == p.price
           n == Len(ps)
           w0 == LastUpTo(q, M)
           t0 == Stream!Total(w0)
           w == Stream!Push(w0, x, M)
           t == Stream!Slide(t0, w0, x, M)
           r == Append(ps, p)
           v == ROCOf(w, x)
<1>1. /\ q \in Seq(Int) /\ Len(q) = n /\ x \in Int /\ ClosesOf(r) = Append(q, x)
      /\ n \in Nat /\ Len(r) = n + 1 /\ M \in Nat \ {0} /\ r[Len(r)] = p
  BY ClosesGrow
<1>2. Deque(w0, t0, q, M)
  BY DEF Deque
<1>3. Deque(w, t, Append(q, x), M) /\ Len(w) = IF n + 1 <= M THEN n + 1 ELSE M
  <2> HIDE DEF w0, t0, q, M, x, r, n
  <2>1. Moved(w, t, q, x, M)
    BY <1>1, <1>2, WindowStep
  <2> HIDE DEF w, t
  <2> QED BY <1>1, <2>1 DEF Moved
<1>4. w = LastUpTo(ClosesOf(r), M)
  BY <1>1, <1>3 DEF Deque
<1>5. IF n >= M
      THEN s = [ready |-> TRUE, value |-> s.value, window |-> w0, sum |-> 0]
      ELSE s = [ready |-> FALSE, value |-> Stream!NoValue, window |-> w0, sum |-> 0]
  BY DEF KeptROC
<1>6. s.window = w0
  BY <1>5
<1>7. Stream!UpdateROC(c, s, p)
        = Stream!Publish([s EXCEPT !.window = w], Len(w) = M, v)
  BY <1>6 DEF Stream!UpdateROC, ROCOf
<1> HIDE DEF w0, t0, w, t, M, q, r, v
<1>8. CASE n + 1 >= M
  <2>1. Len(w) = M
    BY <1>1, <1>3, <1>8
  <2>2. Stream!UpdateROC(c, s, p)
          = [ready |-> TRUE, value |-> v, window |-> w, sum |-> 0]
    <3>1. Stream!UpdateROC(c, s, p) = [s EXCEPT !.window = w, !.ready = TRUE, !.value = v]
      BY <1>7, <2>1 DEF Stream!Publish
    <3> DEFINE u == s.value
    <3>2. PICK b : s = [ready |-> b, value |-> u, window |-> w0, sum |-> 0]
      BY <1>5
    <3> HIDE DEF u
    <3> QED BY ONLY <3>1, <3>2
  <2> QED BY <1>1, <1>4, <1>8, <2>2 DEF KeptROC, M, P, S, r, v, x
<1>9. CASE ~(n + 1 >= M)
  <2>1. Len(w) # M /\ ~(n >= M)
    BY <1>1, <1>3, <1>9
  <2>2. Stream!UpdateROC(c, s, p)
          = [ready |-> FALSE, value |-> Stream!NoValue, window |-> w, sum |-> 0]
    <3>1. Stream!UpdateROC(c, s, p) = [s EXCEPT !.window = w]
      BY <1>7, <2>1 DEF Stream!Publish
    <3>2. s = [ready |-> FALSE, value |-> Stream!NoValue, window |-> w0, sum |-> 0]
      BY <1>5, <2>1
    <3> QED BY ONLY <3>1, <3>2
  <2> QED BY <1>1, <1>4, <1>9, <2>2 DEF KeptROC, M, P, S, r
<1> QED BY <1>8, <1>9

VWAPOf(pv, vol, x) == IF vol > 0 THEN Stream!Frac(pv, vol) ELSE Stream!Frac(x, 1)

KeptVWAP(s, ps, P) ==
    LET pv == LastUpTo(TurnoverOf(ps), P)
        vol == LastUpTo(VolumesOf(ps), P)
        tp == Stream!Total(pv)
        tv == Stream!Total(vol)
    IN  IF Len(ps) >= P
        THEN s = [ready |-> TRUE, value |-> VWAPOf(tp, tv, ps[Len(ps)].price),
                  pv |-> pv, vol |-> vol, sumPv |-> tp, sumVol |-> tv]
        ELSE s = [ready |-> FALSE, value |-> Stream!NoValue,
                  pv |-> pv, vol |-> vol, sumPv |-> tp, sumVol |-> tv]

LEMMA VWAPStep ==
  ASSUME NEW ps, ps \in Seq(Row), NEW p, p \in Row, NEW c, c.period \in Nat \ {0},
         NEW s, KeptVWAP(s, ps, c.period)
  PROVE  KeptVWAP(Stream!UpdateVWAP(c, s, p), Append(ps, p), c.period)
<1> DEFINE P == c.period
           q == TurnoverOf(ps)
           x == p.price * p.volume
           n == Len(ps)
           w0 == LastUpTo(q, P)
           t0 == Stream!Total(w0)
           w == Stream!Push(w0, x, P)
           t == Stream!Slide(t0, w0, x, P)
           r == Append(ps, p)
           q1 == VolumesOf(ps)
           x1 == p.volume
           w01 == LastUpTo(q1, P)
           t01 == Stream!Total(w01)
           w1 == Stream!Push(w01, x1, P)
           t1 == Stream!Slide(t01, w01, x1, P)
           v == VWAPOf(t, t1, p.price)
<1>1. /\ q \in Seq(Int) /\ Len(q) = n /\ x \in Int /\ TurnoverOf(r) = Append(q, x)
      /\ q1 \in Seq(Int) /\ Len(q1) = n /\ x1 \in Int /\ VolumesOf(r) = Append(q1, x1)
      /\ n \in Nat /\ Len(r) = n + 1 /\ P \in Nat \ {0} /\ r[Len(r)] = p
  <2>1. q1 \in Seq(Nat) /\ Len(q1) = n /\ VolumesOf(r) = Append(q1, x1) /\ x1 \in Nat
    BY VolumesGrow
  <2>2. q1 \in Seq(Int) /\ x1 \in Int
    BY <2>1, NaturalsAreIntegers
  <2>3. q \in Seq(Int) /\ Len(q) = n /\ x \in Int /\ TurnoverOf(r) = Append(q, x)
    BY TurnoverGrows
  <2>4. n \in Nat /\ Len(r) = n + 1 /\ P \in Nat \ {0} /\ r[Len(r)] = p
    OBVIOUS
  <2> HIDE DEF q, q1, r, x, x1, P, n
  <2> QED BY <2>1, <2>2, <2>3, <2>4
<1>2. Deque(w0, t0, q, P) /\ Deque(w01, t01, q1, P)
  BY DEF Deque
<1>3. /\ Deque(w, t, Append(q, x), P) /\ Len(w) = IF n + 1 <= P THEN n + 1 ELSE P
      /\ Deque(w1, t1, Append(q1, x1), P)
  <2> HIDE DEF w0, t0, q, w01, t01, q1, P, x, x1, r, n
  <2>1. Moved(w, t, q, x, P) /\ Moved(w1, t1, q1, x1, P)
    BY <1>1, <1>2, WindowStep
  <2> HIDE DEF w, t, w1, t1
  <2> QED BY <1>1, <2>1 DEF Moved
<1>4. /\ w = LastUpTo(TurnoverOf(r), P) /\ t = Stream!Total(LastUpTo(TurnoverOf(r), P))
      /\ w1 = LastUpTo(VolumesOf(r), P) /\ t1 = Stream!Total(LastUpTo(VolumesOf(r), P))
  BY <1>1, <1>3 DEF Deque
<1> DEFINE u == s.value
<1>5. IF n >= P
      THEN s = [ready |-> TRUE, value |-> u,
                pv |-> w0, vol |-> w01, sumPv |-> t0, sumVol |-> t01]
      ELSE s = [ready |-> FALSE, value |-> Stream!NoValue,
                pv |-> w0, vol |-> w01, sumPv |-> t0, sumVol |-> t01]
  BY DEF KeptVWAP
<1> HIDE DEF u
<1>6. s.pv = w0 /\ s.vol = w01 /\ s.sumPv = t0 /\ s.sumVol = t01
  BY <1>5
<1> DEFINE next == [s EXCEPT !.pv = w, !.vol = w1, !.sumPv = t, !.sumVol = t1]
<1>7. Stream!UpdateVWAP(c, s, p) = Stream!Publish(next, Len(next.pv) = P, v)
  BY <1>6 DEF Stream!UpdateVWAP, VWAPOf
<1> HIDE DEF w0, t0, w, t, P, q, x, r, w01, t01, w1, t1, q1, x1, v
<1>8. next.pv = w
  BY <1>5
<1> HIDE DEF next
<1>9. CASE n + 1 >= P
  <2>1. Len(w) = P
    BY <1>1, <1>3, <1>9
  <2>2. Stream!UpdateVWAP(c, s, p)
          = [ready |-> TRUE, value |-> v, pv |-> w, vol |-> w1, sumPv |-> t, sumVol |-> t1]
    <3>1. Stream!UpdateVWAP(c, s, p) = [next EXCEPT !.ready = TRUE, !.value = v]
      BY <1>7, <1>8, <2>1 DEF Stream!Publish
    <3>2. CASE n >= P
      <4>1. s = [ready |-> TRUE, value |-> u, pv |-> w0, vol |-> w01, sumPv |-> t0, sumVol |-> t01]
        BY <1>5, <3>2
      <4>2. PICK z : z = next
        OBVIOUS
      <4>3. z = [ready |-> TRUE, value |-> u, pv |-> w, vol |-> w1, sumPv |-> t, sumVol |-> t1]
        BY ONLY <4>1, <4>2 DEF next
      <4>4. Stream!UpdateVWAP(c, s, p) = [z EXCEPT !.ready = TRUE, !.value = v]
        BY <3>1, <4>2
      <4> QED BY ONLY <4>3, <4>4
    <3>3. CASE ~(n >= P)
      <4> DEFINE y == Stream!NoValue
      <4>1. s = [ready |-> FALSE, value |-> y, pv |-> w0, vol |-> w01, sumPv |-> t0, sumVol |-> t01]
        BY <1>5, <3>3
      <4> HIDE DEF y
      <4>2. PICK z : z = next
        OBVIOUS
      <4>3. z = [ready |-> FALSE, value |-> y, pv |-> w, vol |-> w1, sumPv |-> t, sumVol |-> t1]
        BY ONLY <4>1, <4>2 DEF next
      <4>4. Stream!UpdateVWAP(c, s, p) = [z EXCEPT !.ready = TRUE, !.value = v]
        BY <3>1, <4>2
      <4> QED BY ONLY <4>3, <4>4
    <3> QED BY <3>2, <3>3
  <2> QED BY <1>1, <1>4, <1>9, <2>2 DEF KeptVWAP, P, r, v
<1>10. CASE ~(n + 1 >= P)
  <2>1. Len(w) # P /\ ~(n >= P)
    BY <1>1, <1>3, <1>10
  <2>2. Stream!UpdateVWAP(c, s, p)
          = [ready |-> FALSE, value |-> Stream!NoValue,
             pv |-> w, vol |-> w1, sumPv |-> t, sumVol |-> t1]
    <3>1. Stream!UpdateVWAP(c, s, p) = next
      BY <1>7, <1>8, <2>1 DEF Stream!Publish
    <3>2. s = [ready |-> FALSE, value |-> Stream!NoValue,
               pv |-> w0, vol |-> w01, sumPv |-> t0, sumVol |-> t01]
      BY <1>5, <2>1
    <3> QED BY ONLY <3>1, <3>2 DEF next
  <2> QED BY <1>1, <1>4, <1>10, <2>2 DEF KeptVWAP, P, r
<1> QED BY <1>9, <1>10

PreviousOf(ps) == IF Len(ps) = 0 THEN Missing ELSE ps[Len(ps)].price

KeptATR(s, ps, P) ==
    LET w == LastUpTo(RangesOf(ps), P)
        t == Stream!Total(w)
    IN  IF Len(ps) >= P + 1
        THEN s = [ready |-> TRUE, value |-> Stream!Frac(t, P), previous |-> PreviousOf(ps),
                  window |-> w, sum |-> t]
        ELSE s = [ready |-> FALSE, value |-> Stream!NoValue, previous |-> PreviousOf(ps),
                  window |-> w, sum |-> t]

LEMMA ATRStep ==
  ASSUME NEW ps, ps \in Seq(Row), NEW p, p \in Row, NEW c, c.period \in Nat \ {0},
         NEW s, KeptATR(s, ps, c.period)
  PROVE  KeptATR(Stream!UpdateATR(c, s, p), Append(ps, p), c.period)
<1> DEFINE P == c.period
           q == RangesOf(ps)
           n == Len(ps)
           r == Append(ps, p)
           before == PreviousOf(ps)
           x == Stream!TrueRange(p, before)
           w0 == LastUpTo(q, P)
           t0 == Stream!Total(w0)
           w == Stream!Push(w0, x, P)
           t == Stream!Slide(t0, w0, x, P)
           u == s.value
           z == p.price
<1>1. /\ n \in Nat /\ Len(r) = n + 1 /\ P \in Nat \ {0} /\ r[Len(r)] = p
      /\ PreviousOf(r) = z
  BY DEF PreviousOf
<1>2. IF n >= P + 1
      THEN s = [ready |-> TRUE, value |-> u, previous |-> before, window |-> w0, sum |-> t0]
      ELSE s = [ready |-> FALSE, value |-> Stream!NoValue, previous |-> before,
                window |-> w0, sum |-> t0]
  BY DEF KeptATR
<1>3. s.previous = before /\ s.window = w0 /\ s.sum = t0
  <2> HIDE DEF u, before, w0, t0
  <2> QED BY <1>2
<1>4. CASE n = 0
  <2>1. before = Missing /\ RangesOf(r) = q
    <3>1. before = Missing
      BY <1>4 DEF PreviousOf
    <3>2. RangesOf(Append(ps, p))
            = IF Len(ps) >= 1
              THEN Append(RangesOf(ps), Stream!TrueRange(p, ps[Len(ps)].price))
              ELSE RangesOf(ps)
      BY RangesGrow
    <3>3. ~(Len(ps) >= 1)
      BY <1>4
    <3> HIDE DEF before
    <3> QED BY <3>1, <3>2, <3>3
  <2>2. Stream!UpdateATR(c, s, p) = [s EXCEPT !.previous = z]
    BY <1>3, <2>1 DEF Stream!UpdateATR
  <2>3. s = [ready |-> FALSE, value |-> Stream!NoValue, previous |-> before,
             window |-> w0, sum |-> t0]
    BY <1>1, <1>2, <1>4
  <2> HIDE DEF before, w0, t0, z, r, q, u, P
  <2>4. Stream!UpdateATR(c, s, p)
          = [ready |-> FALSE, value |-> Stream!NoValue, previous |-> z, window |-> w0, sum |-> t0]
    BY ONLY <2>2, <2>3
  <2>5. ~(Len(r) >= P + 1)
    BY <1>1, <1>4
  <2> QED BY <1>1, <2>1, <2>4, <2>5 DEF KeptATR, w0, t0, P, r
<1>5. CASE n >= 1
  <2>1. before = ps[n].price /\ before \in Int /\ before # Missing
    <3>1. before = ps[n].price /\ n \in 1..n
      BY <1>1, <1>5 DEF PreviousOf
    <3>2. ps[n] \in Row
      BY <3>1, RowsAt
    <3> QED BY <3>1, <3>2, RowParts, AbsentIsNoValue
  <2>2. /\ q \in Seq(Int) /\ Len(q) = (IF n > 1 THEN n - 1 ELSE 0)
        /\ RangesOf(r) = Append(q, x) /\ x \in Int
    <3>1. x \in Int
      BY <2>1, TrueRangeIsInt
    <3>2. RangesOf(r) = Append(q, x)
      BY <1>5, <2>1, RangesGrow
    <3>3. q \in Seq(Int) /\ Len(q) = (IF n > 1 THEN n - 1 ELSE 0)
      BY RangesGrow
    <3> QED BY <3>1, <3>2, <3>3
  <2> HIDE DEF q, r, x, before, z, u
  <2>3. Deque(w0, t0, q, P)
    BY DEF Deque
  <2>4. Len(q) + 1 = n
    <3>1. n \in Nat /\ n >= 1 /\ Len(q) = (IF n > 1 THEN n - 1 ELSE 0)
      BY <1>1, <1>5, <2>2
    <3> HIDE DEF n
    <3> QED BY ONLY <3>1
  <2>5. Deque(w, t, Append(q, x), P) /\ Len(w) = IF n <= P THEN n ELSE P
    <3> HIDE DEF w0, t0, P, n
    <3>1. Moved(w, t, q, x, P)
      BY <1>1, <2>2, <2>3, WindowStep
    <3> HIDE DEF w, t
    <3> QED BY <2>4, <3>1 DEF Moved
  <2>6. w = LastUpTo(RangesOf(r), P) /\ t = Stream!Total(LastUpTo(RangesOf(r), P))
    BY <2>2, <2>5 DEF Deque
  <2>7. Stream!UpdateATR(c, s, p)
          = Stream!Publish([s EXCEPT !.previous = z, !.window = w, !.sum = t], Len(w) = P,
                           Stream!Frac(t, P))
    BY <1>3, <2>1 DEF Stream!UpdateATR, x, z
  <2> HIDE DEF w0, t0, w, t, P
  <2>8. CASE n + 1 >= P + 1
    <3>1. Len(w) = P
      BY <1>1, <2>5, <2>8
    <3>2. Stream!UpdateATR(c, s, p)
            = [ready |-> TRUE, value |-> Stream!Frac(t, P), previous |-> z, window |-> w,
               sum |-> t]
      <4>1. Stream!UpdateATR(c, s, p)
              = [s EXCEPT !.previous = z, !.window = w, !.sum = t, !.ready = TRUE,
                          !.value = Stream!Frac(t, P)]
        BY <2>7, <3>1 DEF Stream!Publish
      <4>2. PICK b, y : s = [ready |-> b, value |-> y, previous |-> before, window |-> w0,
                             sum |-> t0]
        BY <1>2
      <4> QED BY ONLY <4>1, <4>2
    <3> QED BY <1>1, <2>6, <2>8, <3>2 DEF KeptATR, P, r
  <2>9. CASE ~(n + 1 >= P + 1)
    <3>1. Len(w) # P /\ ~(n >= P + 1)
      BY <1>1, <2>5, <2>9
    <3>2. Stream!UpdateATR(c, s, p)
            = [ready |-> FALSE, value |-> Stream!NoValue, previous |-> z, window |-> w,
               sum |-> t]
      <4>1. Stream!UpdateATR(c, s, p) = [s EXCEPT !.previous = z, !.window = w, !.sum = t]
        BY <2>7, <3>1 DEF Stream!Publish
      <4>2. s = [ready |-> FALSE, value |-> Stream!NoValue, previous |-> before,
                 window |-> w0, sum |-> t0]
        BY <1>2, <3>1
      <4> QED BY ONLY <4>1, <4>2
    <3> QED BY <1>1, <2>6, <2>9, <3>2 DEF KeptATR, P, r
  <2> QED BY <2>8, <2>9
<1> QED BY <1>1, <1>4, <1>5

LEMMA Blended ==
  \A x, f, n, d, a, b \in Int :
     /\ (2 * x) * ((f * d) * a) + ((f * n) * b) * a = (f * a) * (b * n + (2 * x) * d)
     /\ a * ((f * d) * a) = (f * a) * (a * d)
<1> SUFFICES ASSUME NEW x \in Int, NEW f \in Int, NEW n \in Int, NEW d \in Int,
                    NEW a \in Int, NEW b \in Int
             PROVE  /\ (2 * x) * ((f * d) * a) + ((f * n) * b) * a
                         = (f * a) * (b * n + (2 * x) * d)
                    /\ a * ((f * d) * a) = (f * a) * (a * d)
  OBVIOUS
<1>1. (2 * x) * ((f * d) * a) = (f * a) * ((2 * x) * d)
  OBVIOUS
<1>2. ((f * n) * b) * a = (f * a) * (b * n)
  OBVIOUS
<1>3. a * ((f * d) * a) = (f * a) * (a * d)
  OBVIOUS
<1>4. (f * a) * (b * n + (2 * x) * d) = (f * a) * (b * n) + (f * a) * ((2 * x) * d)
  OBVIOUS
<1> QED BY <1>1, <1>2, <1>3, <1>4

\* The running averages of EMA and of Wilder are the smoothed ones, an EMA's up to a
\* common factor.
Averaged(e, q, P) ==
    \E f \in Nat \ {0} : LET sm == Stream!Smoothed(q, P, 2, P + 1)
                         IN  e = Stream!Frac(f * sm.n, f * sm.d)

LEMMA EMASeed ==
  ASSUME NEW q, q \in Seq(Int), NEW P, P \in Nat \ {0}, Len(q) = P
  PROVE  Averaged(Stream!Frac(Stream!Total(q), P), q, P)
<1> DEFINE sm == Stream!Smoothed(q, P, 2, P + 1)
           t == Stream!Total(q)
<1>1. sm = Stream!Frac(t, P)
  <2> DEFINE d == P + 1
             w == 2
  <2>1. d \in Int /\ w \in Int
    OBVIOUS
  <2> HIDE DEF d, w
  <2>2. Stream!Smoothed(q, P, w, d) = Stream!Frac(Stream!Total(q), P)
    BY <2>1, SmoothedSeed
  <2> QED BY <2>2 DEF d, w
<1>2. t \in Int
  BY TotalIsSeqSum
<1> HIDE DEF t, sm
<1>3. sm.n = t /\ sm.d = P
  BY <1>1 DEF Stream!Frac
<1>4. 1 * t = t /\ 1 * P = P /\ 1 \in Nat \ {0}
  BY <1>2
<1>5. Stream!Frac(t, P) = Stream!Frac(1 * sm.n, 1 * sm.d)
  BY <1>3, <1>4
<1> QED BY <1>4, <1>5 DEF Averaged, sm, t

LEMMA EMAStepped ==
  ASSUME NEW q, q \in Seq(Int), NEW P, P \in Nat \ {0}, Len(q) >= P, NEW x, x \in Int,
         NEW e, Averaged(e, q, P)
  PROVE  /\ e # Stream!NoValue
         /\ Averaged(Stream!Add(Stream!Frac(2 * x, P + 1),
                                Stream!Frac(e.n * (P - 1), e.d * (P + 1))), Append(q, x), P)
<1> DEFINE a == P + 1
           w == 2
           r == Append(q, x)
           sm == Stream!Smoothed(q, P, w, a)
           sm1 == Stream!Smoothed(r, P, w, a)
           b == P - 1
<1>1. PICK f \in Nat \ {0} : e = Stream!Frac(f * sm.n, f * sm.d)
  BY DEF Averaged
<1>2. /\ sm.n \in Int /\ sm.d \in Nat \ {0}
      /\ sm1 = Stream!Frac((a - w) * sm.n + (w * x) * sm.d, a * sm.d)
  <2>1. a \in Nat \ {0} /\ w \in Int
    OBVIOUS
  <2>2. sm = Stream!Smoothed(q, P, w, a) /\ sm1 = Stream!Smoothed(r, P, w, a)
    OBVIOUS
  <2> HIDE DEF a, w, sm, sm1
  <2>3. SmoothedTo(sm, sm1, w, a, x)
    BY <2>1, <2>2, SmoothedStep
  <2> QED BY <2>3 DEF SmoothedTo
<1>3. a - w = b /\ a \in Int /\ b \in Int
  OBVIOUS
<1> DEFINE n == sm.n
           d == sm.d
           g == f * a
<1>4. e.n = f * n /\ e.d = f * d
  BY <1>1 DEF Stream!Frac
<1>5. e # Stream!NoValue
  <2>1. f * d \in Nat \ {0}
    <3>1. d \in Nat \ {0} /\ f \in Nat \ {0}
      BY <1>2
    <3> HIDE DEF d
    <3> QED BY ONLY <3>1
  <2>2. Stream!NoValue.d = 0
    BY DEF Stream!NoValue
  <2> HIDE DEF d
  <2> QED BY <1>4, <2>1, <2>2
<1>6. sm1.n = b * n + (w * x) * d /\ sm1.d = a * d
  <2> HIDE DEF sm, sm1, a, b, w
  <2> QED BY <1>2, <1>3 DEF Stream!Frac
<1> DEFINE new == Stream!Add(Stream!Frac(2 * x, a), Stream!Frac(e.n * b, e.d * a))
<1>7. new = Stream!Frac((2 * x) * ((f * d) * a) + ((f * n) * b) * a, a * ((f * d) * a))
  <2> HIDE DEF n, d, a, b
  <2> QED BY <1>4 DEF Stream!Add, Stream!Frac
<1>8. new = Stream!Frac(g * sm1.n, g * sm1.d)
  <2>1. n \in Int /\ d \in Int /\ f \in Int
    BY <1>2
  <2> HIDE DEF n, d, a, b, new, sm1
  <2>2. /\ (2 * x) * ((f * d) * a) + ((f * n) * b) * a = (f * a) * (b * n + (2 * x) * d)
        /\ a * ((f * d) * a) = (f * a) * (a * d)
    BY <1>3, <2>1, Blended
  <2> QED BY <1>6, <1>7, <2>2
<1>9. g \in Nat \ {0}
  <2>1. a \in Nat \ {0} /\ f \in Nat \ {0}
    OBVIOUS
  <2> HIDE DEF a
  <2> QED BY ONLY <2>1
<1> HIDE DEF g, new
<1>10. Averaged(new, r, P)
  BY <1>8, <1>9 DEF Averaged
<1> QED BY <1>5, <1>10 DEF new

LEMMA WilderSeed ==
  ASSUME NEW q, q \in Seq(Int), NEW P, P \in Nat \ {0}, Len(q) = P
  PROVE  Stream!Frac(Stream!Total(q), P) = Stream!Smoothed(q, P, 1, P)
<1> DEFINE w == 1
<1>1. w \in Int /\ P \in Int
  OBVIOUS
<1> HIDE DEF w
<1>2. Stream!Smoothed(q, P, w, P) = Stream!Frac(Stream!Total(q), P)
  BY <1>1, SmoothedSeed
<1> QED BY <1>2 DEF w

LEMMA WilderStep ==
  ASSUME NEW q, q \in Seq(Int), NEW P, P \in Nat \ {0}, Len(q) >= P, NEW x, x \in Int
  PROVE  /\ Stream!Smoothed(q, P, 1, P) # Stream!NoValue
         /\ Stream!Wilder(Stream!Smoothed(q, P, 1, P), x, P)
              = Stream!Smoothed(Append(q, x), P, 1, P)
<1> DEFINE w == 1
           sm == Stream!Smoothed(q, P, w, P)
           sm1 == Stream!Smoothed(Append(q, x), P, w, P)
<1>1. /\ sm.n \in Int /\ sm.d \in Nat \ {0}
      /\ sm1 = Stream!Frac((P - w) * sm.n + (w * x) * sm.d, P * sm.d)
  <2>1. w \in Int
    OBVIOUS
  <2>2. sm = Stream!Smoothed(q, P, w, P) /\ sm1 = Stream!Smoothed(Append(q, x), P, w, P)
    OBVIOUS
  <2> HIDE DEF w, sm, sm1
  <2>3. SmoothedTo(sm, sm1, w, P, x)
    BY <2>1, <2>2, SmoothedStep
  <2> QED BY <2>3 DEF SmoothedTo
<1>2. Stream!NoValue.d = 0
  BY DEF Stream!NoValue
<1>3. Stream!Wilder(sm, x, P) = Stream!Frac(sm.n * (P - 1) + x * sm.d, sm.d * P)
  BY DEF Stream!Wilder
<1> DEFINE n == sm.n
           d == sm.d
<1>4. n * (P - 1) + x * d = (P - w) * n + (w * x) * d /\ d * P = P * d
  <2>1. n \in Int /\ d \in Int
    BY <1>1
  <2> HIDE DEF n, d
  <2>2. n * (P - 1) = (P - w) * n
    BY <2>1
  <2>3. x * d = (w * x) * d
    BY <2>1
  <2>4. d * P = P * d
    BY <2>1
  <2> QED BY <2>2, <2>3, <2>4
<1> HIDE DEF sm1
<1>5. Stream!Wilder(sm, x, P) = sm1
  BY <1>1, <1>3, <1>4
<1> HIDE DEF sm
<1>6. sm # Stream!NoValue
  BY <1>1, <1>2
<1> QED BY <1>5, <1>6 DEF sm, sm1

KeptEMA(s, ps, P) ==
    IF Len(ps) >= P
    THEN \E e, t : /\ s = [ready |-> TRUE, value |-> e, ema |-> e, count |-> Len(ps), sum |-> t]
                   /\ Averaged(e, ClosesOf(ps), P)
    ELSE s = [ready |-> FALSE, value |-> Stream!NoValue, ema |-> Stream!NoValue,
              count |-> Len(ps), sum |-> Stream!Total(ClosesOf(ps))]

LEMMA EMAStep ==
  ASSUME NEW ps, ps \in Seq(Row), NEW p, p \in Row, NEW c, c.period \in Nat \ {0},
         NEW s, KeptEMA(s, ps, c.period)
  PROVE  KeptEMA(Stream!UpdateEMA(c, s, p), Append(ps, p), c.period)
<1> DEFINE P == c.period
           q == ClosesOf(ps)
           x == p.price
           n == Len(ps)
           r == Append(ps, p)
           none == Stream!NoValue
           new == Stream!UpdateEMA(c, s, p)
<1>1. /\ q \in Seq(Int) /\ Len(q) = n /\ x \in Int /\ ClosesOf(r) = Append(q, x)
      /\ n \in Nat /\ Len(r) = n + 1 /\ P \in Nat \ {0}
  BY ClosesGrow
<1>2. CASE n >= P
  <2>1. PICK e, t : /\ s = [ready |-> TRUE, value |-> e, ema |-> e, count |-> n, sum |-> t]
                    /\ Averaged(e, q, P)
    BY <1>2 DEF KeptEMA
  <2> DEFINE e1 == Stream!Add(Stream!Frac(2 * x, P + 1), Stream!Frac(e.n * (P - 1), e.d * (P + 1)))
  <2>2. e # none /\ Averaged(e1, Append(q, x), P)
    <3> HIDE DEF q, x, P
    <3> QED BY <1>1, <1>2, <2>1, EMAStepped
  <2>3. s.ema = e
    BY <2>1
  <2>4. new = [s EXCEPT !.count = @ + 1, !.ema = e1, !.value = e1]
    BY <2>2, <2>3 DEF Stream!UpdateEMA
  <2> HIDE DEF e1, new, q, x, r, n
  <2>5. new = [ready |-> TRUE, value |-> e1, ema |-> e1, count |-> n + 1, sum |-> t]
    BY ONLY <2>1, <2>4
  <2>6. /\ new = [ready |-> TRUE, value |-> e1, ema |-> e1, count |-> Len(r), sum |-> t]
        /\ Averaged(e1, ClosesOf(r), P)
    BY <1>1, <2>2, <2>5
  <2>7. \E e2, t2 : /\ new = [ready |-> TRUE, value |-> e2, ema |-> e2, count |-> Len(r),
                               sum |-> t2]
                    /\ Averaged(e2, ClosesOf(r), P)
    BY <2>6
  <2>8. Len(r) >= P
    BY <1>1, <1>2
  <2> QED BY <2>7, <2>8 DEF KeptEMA, new, r, P
<1>3. CASE ~(n >= P)
  <2> DEFINE t0 == Stream!Total(q)
             t == t0 + x
  <2>1. s = [ready |-> FALSE, value |-> none, ema |-> none, count |-> n, sum |-> t0]
    BY <1>3 DEF KeptEMA
  <2>2. s.ema = none /\ s.sum = t0 /\ s.count = n
    <3> HIDE DEF none, t0, n
    <3> QED BY <2>1
  <2>3. Stream!Total(ClosesOf(r)) = t
    BY <1>1, TotalOfAppend
  <2> DEFINE full == n + 1 = P
             e1 == IF full THEN Stream!Frac(t, P) ELSE s.ema
             moved == [s EXCEPT !.count = @ + 1, !.sum = t, !.ema = e1]
  <2>4. new = Stream!Publish(moved, full, moved.ema)
    BY <2>2 DEF Stream!UpdateEMA
  <2>5. CASE full
    <3> DEFINE e == Stream!Frac(t, P)
    <3> HIDE DEF t, t0, q, none, new, n
    <3>1. moved = [s EXCEPT !.count = @ + 1, !.sum = t, !.ema = e]
      BY <2>5
    <3> HIDE DEF moved, full, e
    <3>2. PICK z : z = moved
      OBVIOUS
    <3>3. z = [ready |-> FALSE, value |-> none, ema |-> e, count |-> n + 1, sum |-> t]
      BY ONLY <2>1, <3>1, <3>2
    <3>4. new = [z EXCEPT !.ready = TRUE, !.value = e]
      <4>1. z.ema = e
        BY <3>3
      <4> QED BY <2>4, <2>5, <3>2, <4>1 DEF Stream!Publish
    <3>5. new = [ready |-> TRUE, value |-> e, ema |-> e, count |-> n + 1, sum |-> t]
      BY ONLY <3>3, <3>4
    <3>6. Averaged(e, ClosesOf(r), P)
      <4>1. ClosesOf(r) \in Seq(Int) /\ Len(ClosesOf(r)) = P
        BY <1>1, <2>5 DEF full
      <4> HIDE DEF r, P
      <4>2. Averaged(Stream!Frac(Stream!Total(ClosesOf(r)), P), ClosesOf(r), P)
        BY <1>1, <4>1, EMASeed
      <4> QED BY <2>3, <4>2 DEF e
    <3>7. Len(r) >= P /\ Len(r) = n + 1
      BY <1>1, <2>5 DEF full
    <3> QED BY <3>5, <3>6, <3>7 DEF KeptEMA, new, r, P
  <2>6. CASE ~full
    <3> HIDE DEF t, t0, q, none, new, n
    <3>1. moved = [s EXCEPT !.count = @ + 1, !.sum = t, !.ema = none]
      BY <2>2, <2>6
    <3> HIDE DEF moved, full
    <3>2. new = moved
      BY <2>4, <2>6 DEF Stream!Publish
    <3>3. new = [ready |-> FALSE, value |-> none, ema |-> none, count |-> n + 1, sum |-> t]
      BY ONLY <2>1, <3>1, <3>2
    <3>4. ~(Len(r) >= P) /\ Len(r) = n + 1
      BY <1>1, <1>3, <2>6 DEF full
    <3> QED BY <2>3, <3>3, <3>4 DEF KeptEMA, new, r, P, none
  <2> QED BY <2>5, <2>6
<1> QED BY <1>2, <1>3

\* Dropping the oldest with every value keeps one less than the period.
Dropped(a, q, x, P) ==
    /\ Len(a) = P <=> Len(q) + 1 >= P
    /\ (IF Len(a) = P THEN Tail(a) ELSE a) = LastUpTo(Append(q, x), P - 1)
    /\ Len(q) < P => a = Append(q, x)

LEMMA DropOldest ==
  ASSUME NEW q, q \in Seq(Int), NEW x, x \in Int, NEW P, P \in Nat \ {0},
         NEW a, a = Append(LastUpTo(q, P - 1), x)
  PROVE  Dropped(a, q, x, P)
<1> DEFINE n == Len(q)
           m == P - 1
           L == LastUpTo(q, m)
           r == Append(q, x)
           Z == Int
<1>1. n \in Nat /\ m \in Nat /\ q \in Seq(Z) /\ x \in Z /\ P = m + 1 /\ Len(r) = n + 1
  OBVIOUS
<1>2. IsLast(L, Z, q, n, m)
  <2> HIDE DEF Z, m
  <2> QED BY <1>1, LastView
<1>3. L \in Seq(Int) /\ Len(L) = IF n <= m THEN n ELSE m
  BY <1>2 DEF IsLast
<1>4. Len(a) = Len(L) + 1 /\ a = Append(L, x)
  <2>1. a = Append(L, x)
    OBVIOUS
  <2> HIDE DEF L
  <2> QED BY <1>3, <2>1
<1>5. Len(a) = P <=> n + 1 >= P
  <2> HIDE DEF L, n, m
  <2> QED BY <1>1, <1>3, <1>4
<1>6. n < P => a = r
  BY <1>1 DEF LastUpTo
<1>7. CASE m = 0
  <2>1. L = <<>>
    <3> HIDE DEF L
    <3> QED BY <1>1, <1>3, <1>7
  <2>2. a = <<x>> /\ Tail(<<x>>) = <<>> /\ Len(a) = P
    <3> HIDE DEF L, m
    <3>1. a = Append(<<>>, x) /\ P = 1
      <4>1. P = 1
        BY <1>1, <1>7
      <4>2. a = Append(<<>>, x)
        BY ONLY <1>4, <2>1
      <4> QED BY <4>1, <4>2
    <3>2. Append(<<>>, x) = <<x>> /\ Tail(<<x>>) = <<>> /\ Len(<<x>>) = 1
      OBVIOUS
    <3> QED BY ONLY <3>1, <3>2
  <2>3. LastUpTo(r, m) = <<>>
    <3>1. r \in Seq(Z)
      BY <1>1
    <3> HIDE DEF Z, r, m
    <3>2. IsLast(LastUpTo(r, m), Z, r, Len(r), m)
      BY <1>1, <3>1, LastView
    <3>3. LastUpTo(r, m) \in Seq(Int) /\ Len(LastUpTo(r, m)) = 0
      BY <1>1, <1>7, <3>2 DEF IsLast, Z
    <3> QED BY <3>3
  <2>4. (IF Len(a) = P THEN Tail(a) ELSE a) = LastUpTo(r, m)
    BY <2>2, <2>3
  <2> QED BY <1>5, <1>6, <2>4 DEF Dropped
<1>8. CASE m # 0
  <2>1. Stream!Push(L, x, m) = LastUpTo(r, m)
    <3>1. m \in Nat \ {0}
      BY <1>1, <1>8
    <3> HIDE DEF Z, m
    <3> QED BY <1>1, <3>1, PushKeepsLast
  <2>2. (IF Len(a) = P THEN Tail(a) ELSE a) = Stream!Push(L, x, m)
    <3>1. Len(a) = P <=> Len(L) = m
      <4> HIDE DEF L, m
      <4> QED BY <1>1, <1>3, <1>4
    <3>2. CASE Len(L) = m
      <4>1. Tail(Append(L, x)) = Append(Tail(L), x)
        <5>1. L \in Seq(Int) /\ L # <<>>
          BY <1>1, <1>3, <1>8, <3>2
        <5> HIDE DEF L
        <5> QED BY ONLY <5>1, x \in Int
      <4> HIDE DEF L
      <4> QED BY <3>1, <3>2, <4>1 DEF Stream!Push, L
    <3>3. CASE Len(L) # m
      <4> HIDE DEF L
      <4> QED BY <3>1, <3>3 DEF Stream!Push, L
    <3> QED BY <3>2, <3>3
  <2> QED BY <1>5, <1>6, <2>1, <2>2 DEF Dropped
<1> QED BY <1>7, <1>8

GainsOf(ps, m)  == Ups(Stream!Momenta(ps, m))
LossesOf(ps, m) == Downs(Stream!Momenta(ps, m))

\* The changes over m rows that a row more adds, up and down.
ChangeOf(ps, p, m) == p.price - ps[(Len(ps) + 1) - m].price

Changes(ps, r, p, m) ==
    /\ GainsOf(ps, m) \in Seq(Int) /\ LossesOf(ps, m) \in Seq(Int)
    /\ Len(GainsOf(ps, m)) = (IF Len(ps) > m THEN Len(ps) - m ELSE 0)
    /\ Len(LossesOf(ps, m)) = (IF Len(ps) > m THEN Len(ps) - m ELSE 0)
    /\ Len(ps) >= m =>
         /\ GainsOf(r, m) = Append(GainsOf(ps, m), Stream!Positive(ChangeOf(ps, p, m)))
         /\ LossesOf(r, m) = Append(LossesOf(ps, m), Stream!Positive(-ChangeOf(ps, p, m)))
         /\ Stream!Positive(ChangeOf(ps, p, m)) \in Int
         /\ Stream!Positive(-ChangeOf(ps, p, m)) \in Int
    /\ Len(ps) < m => GainsOf(r, m) = GainsOf(ps, m) /\ LossesOf(r, m) = LossesOf(ps, m)

LEMMA ChangesGrow ==
  ASSUME NEW ps, ps \in Seq(Row), NEW p, p \in Row, NEW m, m \in Nat \ {0}
  PROVE  Changes(ps, Append(ps, p), p, m)
<1> DEFINE n == Len(ps)
           r == Append(ps, p)
           f == Stream!Momenta(ps, m)
           g == Stream!Momenta(r, m)
           x == ChangeOf(ps, p, m)
<1>1. /\ f \in Seq(Int) /\ Len(f) = (IF n > m THEN n - m ELSE 0)
      /\ g = (IF n >= m THEN Append(f, x) ELSE f)
  BY MomentaGrow DEF ChangeOf
<1>2. n \in Nat
  OBVIOUS
<1>3. 0 \in Int
  OBVIOUS
<1>4. Ups(f) \in Seq(Int) /\ Len(Ups(f)) = Len(f) /\ Downs(f) \in Seq(Int) /\ Len(Downs(f)) = Len(f)
  <2> HIDE DEF f
  <2> QED BY <1>1, <1>3, UpsGrow, DownsGrow
<1>5. CASE n >= m
  <2>1. x \in Int
    <3>1. n + 1 - m \in 1..n /\ n + 1 - m = (n + 1) - m
      BY <1>2, <1>5
    <3>2. ps[(n + 1) - m] \in Row
      BY <3>1, RowsAt
    <3> QED BY <3>2, RowParts DEF ChangeOf
  <2>2. g = Append(f, x)
    BY <1>1, <1>5
  <2> HIDE DEF f, g, x
  <2>3. /\ Ups(g) = Append(Ups(f), Stream!Positive(x)) /\ Stream!Positive(x) \in Int
        /\ Downs(g) = Append(Downs(f), Stream!Positive(-x)) /\ Stream!Positive(-x) \in Int
    BY <1>1, <2>1, <2>2, UpsGrow, DownsGrow
  <2>4. ~(n < m)
    BY <1>2, <1>5
  <2> QED BY <1>1, <1>4, <1>5, <2>3, <2>4 DEF Changes, GainsOf, LossesOf, f, g, x
<1>6. CASE ~(n >= m)
  <2>1. g = f /\ n < m
    BY <1>1, <1>2, <1>6
  <2> HIDE DEF f, g, x
  <2> QED BY <1>1, <1>4, <1>6, <2>1 DEF Changes, GainsOf, LossesOf, f, g
<1> QED BY <1>5, <1>6

\* Wilder's average of what is in q, once there is a period of it.
WilderOf(q, P) == Stream!Smoothed(q, P, 1, P)

LEMMA WilderOne ==
  ASSUME NEW q, q \in Seq(Int), NEW P, P \in Nat \ {0}, NEW x, x \in Int
  PROVE  /\ Len(q) + 1 = P => Stream!Frac(Stream!Total(Append(q, x)), P)
                                = WilderOf(Append(q, x), P)
         /\ Len(q) >= P => /\ WilderOf(q, P) # Stream!NoValue
                           /\ Stream!Wilder(WilderOf(q, P), x, P) = WilderOf(Append(q, x), P)
<1>1. ASSUME Len(q) + 1 = P
      PROVE  Stream!Frac(Stream!Total(Append(q, x)), P) = WilderOf(Append(q, x), P)
  <2> DEFINE r == Append(q, x)
  <2>1. r \in Seq(Int) /\ Len(r) = P
    BY <1>1
  <2> HIDE DEF r
  <2>2. Stream!Frac(Stream!Total(r), P) = Stream!Smoothed(r, P, 1, P)
    BY <2>1, WilderSeed
  <2> QED BY <2>2 DEF r, WilderOf
<1>2. ASSUME Len(q) >= P
      PROVE  /\ WilderOf(q, P) # Stream!NoValue
             /\ Stream!Wilder(WilderOf(q, P), x, P) = WilderOf(Append(q, x), P)
  BY <1>2, WilderStep DEF WilderOf
<1> QED BY <1>1, <1>2

RSIState(ready, value, ps, P, gain, loss) ==
    [ready |-> ready, value |-> value, previous |-> PreviousOf(ps),
     gains |-> LastUpTo(GainsOf(ps, 1), P - 1), losses |-> LastUpTo(LossesOf(ps, 1), P - 1),
     avgGain |-> gain, avgLoss |-> loss]

KeptRSI(s, ps, P) ==
    LET gain == WilderOf(GainsOf(ps, 1), P)
        loss == WilderOf(LossesOf(ps, 1), P)
    IN  IF Len(ps) >= P + 1
        THEN s = RSIState(TRUE, Stream!Strength(gain, loss), ps, P, gain, loss)
        ELSE s = RSIState(FALSE, Stream!NoValue, ps, P, Stream!NoValue, Stream!NoValue)

LEMMA RSIStep ==
  ASSUME NEW ps, ps \in Seq(Row), NEW p, p \in Row, NEW c, c.period \in Nat \ {0},
         NEW s, KeptRSI(s, ps, c.period)
  PROVE  KeptRSI(Stream!UpdateRSI(c, s, p), Append(ps, p), c.period)
<1> DEFINE P == c.period
           n == Len(ps)
           r == Append(ps, p)
           before == PreviousOf(ps)
           z == p.price
           none == Stream!NoValue
           ups == GainsOf(ps, 1)
           downs == LossesOf(ps, 1)
           g0 == LastUpTo(ups, P - 1)
           l0 == LastUpTo(downs, P - 1)
           new == Stream!UpdateRSI(c, s, p)
           G0 == IF n >= P + 1 THEN WilderOf(ups, P) ELSE none
           L0 == IF n >= P + 1 THEN WilderOf(downs, P) ELSE none
           b0 == n >= P + 1
           v0 == IF n >= P + 1 THEN Stream!Strength(G0, L0) ELSE none
<1>1. /\ n \in Nat /\ Len(r) = n + 1 /\ P \in Nat \ {0} /\ r[Len(r)] = p
      /\ PreviousOf(r) = z
  BY DEF PreviousOf
<1>2. IF n >= P + 1
      THEN s = [ready |-> TRUE, value |-> v0, previous |-> before, gains |-> g0, losses |-> l0,
                avgGain |-> G0, avgLoss |-> L0]
      ELSE s = [ready |-> FALSE, value |-> none, previous |-> before, gains |-> g0, losses |-> l0,
                avgGain |-> none, avgLoss |-> none]
  BY DEF KeptRSI, RSIState
<1>3. /\ s.previous = before /\ s.gains = g0 /\ s.losses = l0
      /\ s.avgGain = G0 /\ s.avgLoss = L0
  <2>1. CASE n >= P + 1
    <3> HIDE DEF before, g0, l0, v0, G0, L0
    <3> QED BY <1>2, <2>1
  <2>2. CASE ~(n >= P + 1)
    <3>1. G0 = none /\ L0 = none
      BY <2>2
    <3> HIDE DEF before, g0, l0, v0, none, G0, L0
    <3> QED BY <1>2, <2>2, <3>1
  <2> QED BY <2>1, <2>2
<1>4. Changes(ps, r, p, 1)
  <2> DEFINE m == 1
  <2>1. m \in Nat \ {0}
    OBVIOUS
  <2> HIDE DEF m
  <2>2. Changes(ps, r, p, m)
    BY <2>1, ChangesGrow
  <2> QED BY <2>2 DEF m
<1>5. CASE n = 0
  <2>1. before = Missing
    BY <1>5 DEF PreviousOf
  <2>2. GainsOf(r, 1) = ups /\ LossesOf(r, 1) = downs
    BY <1>4, <1>5 DEF Changes
  <2>3. new = [s EXCEPT !.previous = z]
    BY <1>3, <2>1 DEF Stream!UpdateRSI
  <2>4. s = [ready |-> FALSE, value |-> none, previous |-> before, gains |-> g0, losses |-> l0,
             avgGain |-> none, avgLoss |-> none]
    BY <1>1, <1>2, <1>5
  <2> HIDE DEF before, z, none, g0, l0, new, r, ups, downs
  <2>5. new = [ready |-> FALSE, value |-> none, previous |-> z, gains |-> g0, losses |-> l0,
               avgGain |-> none, avgLoss |-> none]
    BY ONLY <2>3, <2>4
  <2>6. ~(Len(r) >= P + 1)
    BY <1>1, <1>5
  <2> QED BY <1>1, <2>2, <2>5, <2>6 DEF KeptRSI, RSIState, none, g0, l0, new, r
<1>6. CASE n >= 1
  <2> DEFINE x == ChangeOf(ps, p, 1)
             up == Stream!Positive(x)
             down == Stream!Positive(-x)
             a == Append(g0, up)
             b == Append(l0, down)
             full == Len(a) = P
             first == G0 = none
             G1 == IF first THEN Stream!Frac(Stream!Total(a), P) ELSE Stream!Wilder(G0, up, P)
             L1 == IF first THEN Stream!Frac(Stream!Total(b), P) ELSE Stream!Wilder(L0, down, P)
  <2>1. before = ps[n].price /\ before # Missing /\ z - before = x
    <3>1. before = ps[n].price /\ n \in 1..n /\ (n + 1) - 1 = n
      BY <1>1, <1>6 DEF PreviousOf
    <3>2. ps[n] \in Row
      BY <3>1, RowsAt
    <3> QED BY <3>1, <3>2, RowParts, AbsentIsNoValue DEF ChangeOf
  <2>2. /\ ups \in Seq(Int) /\ downs \in Seq(Int) /\ Len(ups) = n - 1 /\ Len(downs) = n - 1
        /\ GainsOf(r, 1) = Append(ups, up) /\ LossesOf(r, 1) = Append(downs, down)
        /\ up \in Int /\ down \in Int
    <3>1. ~(n > 1) => n - 1 = 0
      <4>1. n \in Nat /\ n >= 1
        BY <1>1, <1>6
      <4> HIDE DEF n
      <4> QED BY ONLY <4>1
    <3>2. Len(ups) = (IF n > 1 THEN n - 1 ELSE 0) /\ Len(downs) = (IF n > 1 THEN n - 1 ELSE 0)
      BY <1>4 DEF Changes
    <3>3. Len(ups) = n - 1 /\ Len(downs) = n - 1
      <4> HIDE DEF ups, downs, n
      <4> QED BY <3>1, <3>2
    <3> QED BY <1>4, <1>6, <3>3 DEF Changes
  <2>3. new = Stream!Publish(
                [s EXCEPT !.previous = z, !.gains = IF full THEN Tail(a) ELSE a,
                          !.losses = IF full THEN Tail(b) ELSE b,
                          !.avgGain = IF full THEN G1 ELSE G0,
                          !.avgLoss = IF full THEN L1 ELSE L0],
                full, Stream!Strength(G1, L1))
    <3> HIDE DEF G0, L0, g0, l0, before, x, z
    <3> QED BY <1>3, <2>1 DEF Stream!UpdateRSI, z
  <2> HIDE DEF up, down, x, before, new, z, none
  <2>4. /\ (Len(a) = P) <=> (n >= P)
        /\ (IF full THEN Tail(a) ELSE a) = LastUpTo(GainsOf(r, 1), P - 1)
        /\ (IF full THEN Tail(b) ELSE b) = LastUpTo(LossesOf(r, 1), P - 1)
        /\ n - 1 < P => a = Append(ups, up) /\ b = Append(downs, down)
    <3>1. Dropped(a, ups, up, P) /\ Dropped(b, downs, down, P)
      <4>1. a = Append(LastUpTo(ups, P - 1), up) /\ b = Append(LastUpTo(downs, P - 1), down)
        OBVIOUS
      <4> HIDE DEF ups, downs, P, a, b
      <4> QED BY <1>1, <2>2, <4>1, DropOldest
    <3>2. (n - 1) + 1 = n
      BY <1>1
    <3> HIDE DEF a, b, n, P, ups, downs, r
    <3>3. (Len(a) = P) <=> (n >= P)
      BY <2>2, <3>1, <3>2 DEF Dropped
    <3>4. (Len(b) = P) <=> (n >= P)
      BY <2>2, <3>1, <3>2 DEF Dropped
    <3>5. n - 1 < P => a = Append(ups, up) /\ b = Append(downs, down)
      BY <2>2, <3>1 DEF Dropped
    <3>6. (IF full THEN Tail(a) ELSE a) = LastUpTo(GainsOf(r, 1), P - 1)
      BY <2>2, <3>1 DEF Dropped
    <3>7. (IF full THEN Tail(b) ELSE b) = LastUpTo(LossesOf(r, 1), P - 1)
      BY <2>2, <3>1, <3>3, <3>4 DEF Dropped
    <3> QED BY <3>3, <3>5, <3>6, <3>7
  <2> DEFINE g1 == LastUpTo(GainsOf(r, 1), P - 1)
             l1 == LastUpTo(LossesOf(r, 1), P - 1)
  <2>5. CASE n >= P
    <3>1. full
      BY <2>4, <2>5
    <3>2. G1 = WilderOf(GainsOf(r, 1), P) /\ L1 = WilderOf(LossesOf(r, 1), P)
      <4>1. CASE n = P
        <5>1. G0 = none
          BY <1>1, <4>1
        <5>2. a = Append(ups, up) /\ b = Append(downs, down) /\ Len(ups) + 1 = P
              /\ Len(downs) + 1 = P
          <6> HIDE DEF a, b, ups, downs, n, P
          <6>1. n - 1 < P /\ Len(ups) + 1 = P /\ Len(downs) + 1 = P
            BY <1>1, <2>2, <4>1
          <6> QED BY <2>4, <6>1
        <5>3. /\ Stream!Frac(Stream!Total(Append(ups, up)), P) = WilderOf(Append(ups, up), P)
              /\ Stream!Frac(Stream!Total(Append(downs, down)), P)
                   = WilderOf(Append(downs, down), P)
          <6> HIDE DEF ups, downs, P
          <6> QED BY <1>1, <2>2, <5>2, WilderOne
        <5> HIDE DEF G0, L0, a, b, ups, downs
        <5> QED BY <2>2, <5>1, <5>2, <5>3
      <4>2. CASE n # P
        <5>1. n >= P + 1 /\ Len(ups) >= P /\ Len(downs) >= P
          BY <1>1, <2>2, <2>5, <4>2
        <5>2. G0 = WilderOf(ups, P) /\ L0 = WilderOf(downs, P)
          BY <5>1
        <5>3. /\ WilderOf(ups, P) # none
              /\ Stream!Wilder(WilderOf(ups, P), up, P) = WilderOf(Append(ups, up), P)
              /\ Stream!Wilder(WilderOf(downs, P), down, P) = WilderOf(Append(downs, down), P)
          <6> HIDE DEF ups, downs, P
          <6> QED BY <1>1, <2>2, <5>1, WilderOne DEF none
        <5> HIDE DEF G0, L0, a, b, ups, downs
        <5> QED BY <2>2, <5>2, <5>3
      <4> QED BY <4>1, <4>2
    <3> DEFINE v1 == Stream!Strength(G1, L1)
    <3>3. new = Stream!Publish([s EXCEPT !.previous = z, !.gains = g1, !.losses = l1,
                                         !.avgGain = G1, !.avgLoss = L1], TRUE, v1)
      <4> HIDE DEF a, b, G1, L1, g1, l1, v1
      <4>1. (IF full THEN G1 ELSE G0) = G1 /\ (IF full THEN L1 ELSE L0) = L1
        BY <3>1
      <4>2. /\ (IF full THEN Tail(a) ELSE a) = g1 /\ (IF full THEN Tail(b) ELSE b) = l1
        BY <2>4 DEF g1, l1
      <4>3. full = TRUE
        BY <3>1
      <4> HIDE DEF full, G0, L0
      <4> QED BY <2>3, <4>1, <4>2, <4>3 DEF v1
    <3> HIDE DEF a, b, G1, L1, g1, l1, v1, G0, L0, g0, l0, v0
    <3>4. PICK y : y = [s EXCEPT !.previous = z, !.gains = g1, !.losses = l1,
                                 !.avgGain = G1, !.avgLoss = L1]
      OBVIOUS
    <3>5. new = [y EXCEPT !.ready = TRUE, !.value = v1]
      BY <3>3, <3>4 DEF Stream!Publish
    <3>6. new = [ready |-> TRUE, value |-> v1, previous |-> z, gains |-> g1, losses |-> l1,
                 avgGain |-> G1, avgLoss |-> L1]
      <4>1. CASE n >= P + 1
        <5>1. s = [ready |-> TRUE, value |-> v0, previous |-> before, gains |-> g0,
                   losses |-> l0, avgGain |-> G0, avgLoss |-> L0]
          BY <1>2, <4>1
        <5>2. y = [ready |-> TRUE, value |-> v0, previous |-> z, gains |-> g1, losses |-> l1,
                   avgGain |-> G1, avgLoss |-> L1]
          BY ONLY <3>4, <5>1
        <5> QED BY ONLY <3>5, <5>2
      <4>2. CASE ~(n >= P + 1)
        <5>1. s = [ready |-> FALSE, value |-> none, previous |-> before, gains |-> g0,
                   losses |-> l0, avgGain |-> none, avgLoss |-> none]
          BY <1>2, <4>2
        <5>2. y = [ready |-> FALSE, value |-> none, previous |-> z, gains |-> g1, losses |-> l1,
                   avgGain |-> G1, avgLoss |-> L1]
          BY ONLY <3>4, <5>1
        <5> QED BY ONLY <3>5, <5>2
      <4> QED BY <4>1, <4>2
    <3>8. new = RSIState(TRUE, v1, r, P, G1, L1)
      BY <1>1, <3>6 DEF RSIState, g1, l1
    <3>9. Len(r) >= P + 1
      BY <1>1, <2>5
    <3> QED BY <3>2, <3>8, <3>9 DEF KeptRSI, v1, new, r, P
  <2>6. CASE ~(n >= P)
    <3>1. ~full /\ ~(n >= P + 1)
      BY <1>1, <2>4, <2>6
    <3>2. new = [s EXCEPT !.previous = z, !.gains = g1, !.losses = l1,
                          !.avgGain = none, !.avgLoss = none]
      <4>1. (IF full THEN G1 ELSE G0) = none /\ (IF full THEN L1 ELSE L0) = none
        <5> HIDE DEF G1, L1, full
        <5> QED BY <3>1
      <4> HIDE DEF a, b, G1, L1, g1, l1
      <4>2. /\ (IF full THEN Tail(a) ELSE a) = g1 /\ (IF full THEN Tail(b) ELSE b) = l1
        BY <2>4 DEF g1, l1
      <4> HIDE DEF G0, L0
      <4> QED BY <2>3, <3>1, <4>1, <4>2 DEF Stream!Publish
    <3> HIDE DEF a, b, G1, L1, g1, l1, G0, L0, g0, l0, v0
    <3>3. s = [ready |-> FALSE, value |-> none, previous |-> before, gains |-> g0, losses |-> l0,
               avgGain |-> none, avgLoss |-> none]
      BY <1>2, <3>1
    <3>4. new = [ready |-> FALSE, value |-> none, previous |-> z, gains |-> g1, losses |-> l1,
                 avgGain |-> none, avgLoss |-> none]
      BY ONLY <3>2, <3>3
    <3>5. ~(Len(r) >= P + 1)
      BY <1>1, <2>6
    <3> QED BY <1>1, <3>4, <3>5 DEF KeptRSI, RSIState, new, r, P, none, g1, l1
  <2> QED BY <2>5, <2>6
<1> QED BY <1>1, <1>5, <1>6

RMIState(ready, value, ps, S, gains, losses, gain, loss) ==
    [ready |-> ready, value |-> value, window |-> LastUpTo(ClosesOf(ps), S + 1),
     gains |-> gains, losses |-> losses, avgGain |-> gain, avgLoss |-> loss]

\* Once it is ready, an RMI leaves its two lists as they are.
KeptRMI(s, ps, P, S) ==
    LET gain == WilderOf(GainsOf(ps, S), P)
        loss == WilderOf(LossesOf(ps, S), P)
    IN  IF Len(ps) >= P + S
        THEN \E g, l : s = RMIState(TRUE, Stream!Strength(gain, loss), ps, S, g, l, gain, loss)
        ELSE s = RMIState(FALSE, Stream!NoValue, ps, S, GainsOf(ps, S), LossesOf(ps, S),
                          Stream!NoValue, Stream!NoValue)

\* The first of a full window is the row its last is compared with.
LEMMA OldestOfWindow ==
  ASSUME NEW ps, ps \in Seq(Row), NEW p, p \in Row, NEW S, S \in Nat \ {0}, Len(ps) >= S
  PROVE  LastUpTo(ClosesOf(Append(ps, p)), S + 1)[1] = ps[(Len(ps) + 1) - S].price
<1> DEFINE n == Len(ps)
           r == Append(ps, p)
           q == ClosesOf(r)
           m == S + 1
           w == LastUpTo(q, m)
           Z == Int
<1>1. n \in Nat /\ Len(r) = n + 1 /\ r \in Seq(Row) /\ \A j \in 1..n : r[j] = ps[j]
  BY AppendView
<1>2. q \in Seq(Z) /\ Len(q) = n + 1 /\ \A i \in 1..n + 1 : q[i] = r[i].price
  <2> HIDE DEF r
  <2> QED BY <1>1, ClosesGrow
<1>3. m \in Nat /\ (n + 1) - S \in 1..n /\ (n + 1) - S \in 1..n + 1 /\ 1 \in 1..m
      /\ (m < n + 1 => ((n + 1) - m) + 1 = (n + 1) - S)
      /\ (n + 1 <= m => (n + 1) - S = 1 /\ 1 \in 1..n + 1)
  BY <1>1
<1>4. IsLast(w, Z, q, n + 1, m)
  <2> HIDE DEF q, m, Z, n
  <2>1. IsLast(LastUpTo(q, m), Z, q, Len(q), m)
    BY <1>2, <1>3, LastView
  <2> QED BY <1>2, <2>1
<1>5. w[1] = q[(n + 1) - S]
  <2> HIDE DEF w, q, m, Z
  <2>1. CASE n + 1 <= m
    BY <1>3, <1>4, <2>1 DEF IsLast
  <2>2. CASE m < n + 1
    BY <1>3, <1>4, <2>2 DEF IsLast
  <2> QED BY <1>1, <1>3, <2>1, <2>2
<1> HIDE DEF q, w, n, r
<1> QED BY <1>1, <1>2, <1>3, <1>5 DEF w, q, n, r

LEMMA RMIStep ==
  ASSUME NEW ps, ps \in Seq(Row), NEW p, p \in Row, NEW c, c.period \in Nat \ {0},
         c.shift \in Nat \ {0}, NEW s, KeptRMI(s, ps, c.period, c.shift)
  PROVE  KeptRMI(Stream!UpdateRMI(c, s, p), Append(ps, p), c.period, c.shift)
<1> DEFINE P == c.period
           S == c.shift
           n == Len(ps)
           r == Append(ps, p)
           q == ClosesOf(ps)
           z == p.price
           none == Stream!NoValue
           w0 == LastUpTo(q, S + 1)
           w == Stream!Push(w0, z, S + 1)
           t == Stream!Slide(Stream!Total(w0), w0, z, S + 1)
           ups == GainsOf(ps, S)
           downs == LossesOf(ps, S)
           new == Stream!UpdateRMI(c, s, p)
           x == ChangeOf(ps, p, S)
           up == Stream!Positive(x)
           down == Stream!Positive(-x)
           G0 == WilderOf(ups, P)
           L0 == WilderOf(downs, P)
           v0 == Stream!Strength(G0, L0)
           G1 == WilderOf(GainsOf(r, S), P)
           L1 == WilderOf(LossesOf(r, S), P)
           v1 == Stream!Strength(G1, L1)
           g1 == GainsOf(r, S)
           l1 == LossesOf(r, S)
           moved == [s EXCEPT !.window = w]
<1>1. n \in Nat /\ Len(r) = n + 1 /\ P \in Nat \ {0} /\ S \in Nat \ {0} /\ r[Len(r)] = p
  OBVIOUS
<1>2. q \in Seq(Int) /\ Len(q) = n /\ z \in Int /\ ClosesOf(r) = Append(q, z)
  BY ClosesGrow
<1>3. w = LastUpTo(ClosesOf(r), S + 1) /\ Len(w) = IF n + 1 <= S + 1 THEN n + 1 ELSE S + 1
  <2> DEFINE m == S + 1
  <2>1. m \in Nat \ {0}
    BY <1>1
  <2>2. Deque(w0, Stream!Total(w0), q, m)
    BY DEF Deque
  <2> HIDE DEF w0, q, z, n, m, r
  <2>3. Moved(Stream!Push(w0, z, m), Stream!Slide(Stream!Total(w0), w0, z, m), q, z, m)
    BY <1>2, <2>1, <2>2, WindowStep
  <2>4. Stream!Push(w0, z, m) = w
    BY DEF m
  <2> HIDE DEF w
  <2> QED BY <1>2, <2>3, <2>4 DEF Moved, Deque, m
<1>4. Changes(ps, r, p, S)
  BY <1>1, ChangesGrow
<1>5. IF n >= P + S
      THEN \E g, l : s = [ready |-> TRUE, value |-> v0, window |-> w0, gains |-> g, losses |-> l,
                          avgGain |-> G0, avgLoss |-> L0]
      ELSE s = [ready |-> FALSE, value |-> none, window |-> w0, gains |-> ups, losses |-> downs,
                avgGain |-> none, avgLoss |-> none]
  BY DEF KeptRMI, RMIState
<1>6. s.window = w0
  <2> HIDE DEF w0, v0, G0, L0, none, ups, downs
  <2> QED BY <1>5
<1>7. (Len(w) < S + 1) <=> (n < S)
  <2> HIDE DEF w, n, S
  <2> QED BY <1>1, <1>3
<1>8. CASE n < S
  <2>1. new = moved
    <3>1. Len(w) < S + 1
      BY <1>7, <1>8
    <3> QED BY <1>6, <3>1 DEF Stream!UpdateRMI
  <2>2. ~(n >= P + S) /\ ~(n + 1 >= P + S)
    <3> HIDE DEF n, P, S
    <3> QED BY <1>1, <1>8
  <2>3. g1 = ups /\ l1 = downs
    BY <1>4, <1>8 DEF Changes
  <2> HIDE DEF w, w0, none, ups, downs, new, g1, l1, n, r, P, S
  <2>4. s = [ready |-> FALSE, value |-> none, window |-> w0, gains |-> ups, losses |-> downs,
             avgGain |-> none, avgLoss |-> none]
    BY <1>5, <2>2
  <2>5. new = [ready |-> FALSE, value |-> none, window |-> w, gains |-> ups, losses |-> downs,
               avgGain |-> none, avgLoss |-> none]
    BY ONLY <2>1, <2>4
  <2>6. new = RMIState(FALSE, none, r, S, g1, l1, none, none)
    BY <1>3, <2>3, <2>5 DEF RMIState
  <2> QED BY <1>1, <2>2, <2>6 DEF KeptRMI, none, g1, l1, new, r, P, S
<1>9. CASE n >= S
  <2>1. z - w[1] = x /\ ~(Len(w) < S + 1)
    <3>1. w[1] = ps[(n + 1) - S].price
      BY <1>1, <1>3, <1>9, OldestOfWindow
    <3>2. ~(Len(w) < S + 1)
      BY <1>1, <1>7, <1>9
    <3> HIDE DEF w
    <3> QED BY <3>1, <3>2 DEF ChangeOf
  <2>2. /\ ups \in Seq(Int) /\ downs \in Seq(Int) /\ up \in Int /\ down \in Int
        /\ g1 = Append(ups, up) /\ l1 = Append(downs, down)
        /\ Len(ups) = n - S /\ Len(downs) = n - S
    <3>1. ~(n > S) => n - S = 0
      BY <1>1, <1>9
    <3>2. Len(ups) = (IF n > S THEN n - S ELSE 0) /\ Len(downs) = (IF n > S THEN n - S ELSE 0)
      BY <1>4 DEF Changes
    <3>3. Len(ups) = n - S /\ Len(downs) = n - S
      <4> HIDE DEF ups, downs, n
      <4> QED BY <3>1, <3>2
    <3> QED BY <1>4, <1>9, <3>3 DEF Changes
  <2> DEFINE gains == Stream!Push(s.gains, up, P)
             losses == Stream!Push(s.losses, down, P)
             full == Len(gains) = P
             seeded == [s EXCEPT !.window = w, !.gains = gains, !.losses = losses,
                                 !.avgGain = IF full THEN Stream!Frac(Stream!Total(gains), P)
                                             ELSE @,
                                 !.avgLoss = IF full THEN Stream!Frac(Stream!Total(losses), P)
                                             ELSE @]
             smoothed == [s EXCEPT !.window = w, !.avgGain = Stream!Wilder(@, up, P),
                                   !.avgLoss = Stream!Wilder(@, down, P)]
             next == IF s.ready THEN smoothed ELSE seeded
  <2>3. new = Stream!Publish(next, s.ready \/ full, Stream!Strength(next.avgGain, next.avgLoss))
    <3>1. p.price - w[1] = x
      BY <2>1
    <3> HIDE DEF x
    <3> QED BY <1>6, <2>1, <3>1 DEF Stream!UpdateRMI
  <2> HIDE DEF x, up, down, w, w0, none, ups, downs, new, g1, l1
  <2>4. CASE n >= P + S
    <3>1. PICK g, l : s = [ready |-> TRUE, value |-> v0, window |-> w0, gains |-> g,
                           losses |-> l, avgGain |-> G0, avgLoss |-> L0]
      BY <1>5, <2>4
    <3>2. Stream!Wilder(G0, up, P) = G1 /\ Stream!Wilder(L0, down, P) = L1
      <4>1. Len(ups) >= P /\ Len(downs) >= P
        <5> HIDE DEF n, P, S
        <5> QED BY <1>1, <2>2, <2>4
      <4>2. /\ Stream!Wilder(WilderOf(ups, P), up, P) = WilderOf(Append(ups, up), P)
            /\ Stream!Wilder(WilderOf(downs, P), down, P) = WilderOf(Append(downs, down), P)
        <5> HIDE DEF P
        <5> QED BY <1>1, <2>2, <4>1, WilderOne
      <4> QED BY <2>2, <4>2 DEF g1, l1
    <3> HIDE DEF G0, L0, v0, G1, L1, n, r, P, S
    <3>3. s.ready = TRUE /\ s.avgGain = G0 /\ s.avgLoss = L0
      BY <3>1
    <3>4. next = [s EXCEPT !.window = w, !.avgGain = G1, !.avgLoss = L1]
      BY <3>2, <3>3
    <3> HIDE DEF next, full
    <3>5. next = [ready |-> TRUE, value |-> v0, window |-> w, gains |-> g,
                  losses |-> l, avgGain |-> G1, avgLoss |-> L1]
      BY ONLY <3>1, <3>4
    <3>6. next.avgGain = G1 /\ next.avgLoss = L1
      BY ONLY <3>5
    <3>7. new = [next EXCEPT !.ready = TRUE, !.value = v1]
      BY <2>3, <3>3, <3>6 DEF Stream!Publish, v1
    <3> HIDE DEF v1
    <3>8. new = [ready |-> TRUE, value |-> v1, window |-> w, gains |-> g,
                 losses |-> l, avgGain |-> G1, avgLoss |-> L1]
      BY ONLY <3>5, <3>7
    <3>9. new = RMIState(TRUE, v1, r, S, g, l, G1, L1)
      BY <1>3, <3>8 DEF RMIState
    <3>10. Len(r) >= P + S
      BY <1>1, <2>4 DEF P, S, n, r
    <3> QED BY <3>9, <3>10 DEF KeptRMI, new, r, P, S, v1, G1, L1
  <2>5. CASE ~(n >= P + S)
    <3>1. s = [ready |-> FALSE, value |-> none, window |-> w0, gains |-> ups, losses |-> downs,
               avgGain |-> none, avgLoss |-> none]
      BY <1>5, <2>5
    <3>2. s.ready = FALSE /\ s.gains = ups /\ s.losses = downs /\ s.avgGain = none
          /\ s.avgLoss = none
      BY <3>1
    <3>3. gains = g1 /\ losses = l1 /\ Len(g1) = (n - S) + 1
      <4>1. Len(ups) # P /\ Len(downs) # P
        <5> HIDE DEF n, P, S
        <5> QED BY <1>1, <2>2, <2>5
      <4>2. Len(Append(ups, up)) = Len(ups) + 1
        <5> QED BY <2>2
      <4> QED BY <2>2, <3>2, <4>1, <4>2 DEF Stream!Push
    <3>4. full <=> n + 1 >= P + S
      <4>1. full <=> (n - S) + 1 = P
        <5> HIDE DEF gains, n, P, S
        <5> QED BY <3>3
      <4> HIDE DEF n, P, S, full
      <4> QED BY <1>1, <2>5, <4>1
    <3>5. CASE n + 1 >= P + S
      <4>1. Stream!Frac(Stream!Total(gains), P) = G1 /\ Stream!Frac(Stream!Total(losses), P) = L1
        <5>1. Len(ups) + 1 = P /\ Len(downs) + 1 = P
          <6> HIDE DEF n, P, S
          <6> QED BY <1>1, <2>2, <2>5, <3>5
        <5>2. /\ Stream!Frac(Stream!Total(Append(ups, up)), P) = WilderOf(Append(ups, up), P)
              /\ Stream!Frac(Stream!Total(Append(downs, down)), P)
                   = WilderOf(Append(downs, down), P)
          <6> HIDE DEF P
          <6> QED BY <1>1, <2>2, <5>1, WilderOne
        <5> HIDE DEF gains, losses
        <5> QED BY <2>2, <3>3, <5>2 DEF g1, l1
      <4> DEFINE G == Stream!Frac(Stream!Total(gains), P)
                 L == Stream!Frac(Stream!Total(losses), P)
      <4>2. next = [s EXCEPT !.window = w, !.gains = gains, !.losses = losses,
                             !.avgGain = G, !.avgLoss = L]
        <5>1. full
          BY <3>4, <3>5
        <5> HIDE DEF full, gains, losses, G, L
        <5> QED BY <3>2, <5>1 DEF G, L
      <4>3. s.ready \/ full
        BY <3>4, <3>5
      <4>4. G = G1 /\ L = L1
        BY <4>1
      <4> HIDE DEF next, full, G, L, gains, losses, G1, L1, n, r, P, S
      <4>5. next = [ready |-> FALSE, value |-> none, window |-> w, gains |-> gains,
                    losses |-> losses, avgGain |-> G, avgLoss |-> L]
        BY ONLY <3>1, <4>2
      <4>6. next.avgGain = G1 /\ next.avgLoss = L1
        BY ONLY <4>4, <4>5
      <4>7. new = [next EXCEPT !.ready = TRUE, !.value = v1]
        BY <2>3, <4>3, <4>6 DEF Stream!Publish, v1
      <4> HIDE DEF v1
      <4>8. new = [ready |-> TRUE, value |-> v1, window |-> w, gains |-> gains,
                   losses |-> losses, avgGain |-> G, avgLoss |-> L]
        BY ONLY <4>5, <4>7
      <4>9. new = RMIState(TRUE, v1, r, S, gains, losses, G1, L1)
        BY <1>3, <4>4, <4>8 DEF RMIState
      <4>10. Len(r) >= P + S
        BY <1>1, <3>5 DEF P, S, n, r
      <4> QED BY <4>9, <4>10 DEF KeptRMI, new, r, P, S, v1, G1, L1
    <3>6. CASE ~(n + 1 >= P + S)
      <4>1. ~full
        BY <3>4, <3>6
      <4>2. next = [s EXCEPT !.window = w, !.gains = gains, !.losses = losses,
                             !.avgGain = none, !.avgLoss = none]
        <5> HIDE DEF full, gains, losses
        <5> QED BY <3>2, <4>1
      <4>3. new = next
        <5> HIDE DEF full, next
        <5> QED BY <2>3, <3>2, <4>1 DEF Stream!Publish
      <4> HIDE DEF next, full, gains, losses, n, r, P, S
      <4>4. next = [ready |-> FALSE, value |-> none, window |-> w, gains |-> gains,
                    losses |-> losses, avgGain |-> none, avgLoss |-> none]
        BY ONLY <3>1, <4>2
      <4>5. new = RMIState(FALSE, none, r, S, g1, l1, none, none)
        BY <1>3, <3>3, <4>3, <4>4 DEF RMIState
      <4>6. ~(Len(r) >= P + S)
        BY <1>1, <3>6 DEF P, S, n, r
      <4> QED BY <4>5, <4>6 DEF KeptRMI, new, r, P, S, none, g1, l1
    <3> QED BY <3>5, <3>6
  <2> QED BY <2>4, <2>5
<1> QED BY <1>1, <1>8, <1>9

-------------------------------------------------------------------------------
(* An indicator keeps what its class keeps, bar after bar.                  *)

Kept(c, s, ps) ==
    /\ c.class = "SMA"  => KeptSMA(s, ps, c.period)
    /\ c.class = "DMA"  => KeptDMA(s, ps, c.period, c.shift)
    /\ c.class = "EMA"  => KeptEMA(s, ps, c.period)
    /\ c.class = "ROC"  => KeptROC(s, ps, c.period)
    /\ c.class = "RSI"  => KeptRSI(s, ps, c.period)
    /\ c.class = "RMI"  => KeptRMI(s, ps, c.period, c.shift)
    /\ c.class = "ATR"  => KeptATR(s, ps, c.period)
    /\ c.class = "VWAP" => KeptVWAP(s, ps, c.period)

Classes == {"SMA", "DMA", "ROC", "EMA", "RSI", "RMI", "ATR", "VWAP"}

Registered(c) ==
    /\ c.class \in Classes /\ c.period \in Nat \ {0} /\ c.shift \in Nat
    /\ c.class = "RMI" => c.shift \in Nat \ {0}

Bar == [close : Int \union {Missing}, high : Int \union {Missing},
        low : Int \union {Missing}, volume : Nat \union {Missing}]

LEMMA PayloadIsRow ==
  ASSUME NEW bar, bar \in Bar, Stream!HasPrice(bar)
  PROVE  Stream!Payload(bar) \in Row
<1>1. /\ bar.close \in Int /\ bar.high \in Int \union {Missing}
      /\ bar.low \in Int \union {Missing} /\ bar.volume \in Nat \union {Missing}
  BY DEF Bar, Stream!HasPrice
<1> QED BY <1>1 DEF Stream!Payload, Row

LEMMA NewIsKept ==
  ASSUME NEW c, Registered(c)
  PROVE  Kept(c, Stream!NewIndicator(c), <<>>)
<1> DEFINE ps == <<>>
           P == c.period
           S == c.shift
           s == Stream!NewIndicator(c)
           none == Stream!NoValue
<1>1. P \in Nat \ {0} /\ S \in Nat /\ Len(ps) = 0 /\ ps \in Seq(Row)
  BY DEF Registered
<1>2. ~(Len(ps) >= P) /\ ~(Len(ps) >= P + S) /\ ~(Len(ps) >= P + 1)
  BY <1>1
<1>3. /\ ClosesOf(ps) = <<>> /\ VolumesOf(ps) = <<>> /\ TurnoverOf(ps) = <<>>
      /\ RangesOf(ps) = <<>>
  BY DEF ClosesOf, VolumesOf, TurnoverOf, RangesOf, Mapped
<1>4. \A m \in Nat \ {0} : GainsOf(ps, m) = <<>> /\ LossesOf(ps, m) = <<>>
  BY DEF GainsOf, LossesOf, Ups, Downs, Mapped, Stream!Momenta
<1>5. \A m \in Nat : LastUpTo(<<>>, m) = <<>>
  BY DEF LastUpTo
<1>6. Stream!Total(<<>>) = 0
  BY TotalOfNone
<1>7. PreviousOf(ps) = Missing
  BY DEF PreviousOf
<1>8. P + S \in Nat /\ P + 1 \in Nat /\ P - 1 \in Nat /\ P \in Nat /\ S + 1 \in Nat
      /\ 1 \in Nat \ {0}
  BY <1>1
<1>9. c.class = "SMA" => KeptSMA(s, ps, P)
  <2> HIDE DEF ps, P, S
  <2> QED BY <1>1, <1>2, <1>3, <1>5, <1>6, <1>8 DEF Stream!NewIndicator, KeptSMA
<1>10. c.class = "DMA" => KeptDMA(s, ps, P, S)
  <2> HIDE DEF ps, P, S
  <2> QED BY <1>1, <1>2, <1>3, <1>5, <1>6, <1>8 DEF Stream!NewIndicator, KeptDMA
<1>11. c.class = "EMA" => KeptEMA(s, ps, P)
  <2> HIDE DEF ps, P, S
  <2> QED BY <1>1, <1>2, <1>3, <1>5, <1>6, <1>8 DEF Stream!NewIndicator, KeptEMA
<1>12. c.class = "ROC" => KeptROC(s, ps, P)
  <2> HIDE DEF ps, P, S
  <2> QED BY <1>1, <1>2, <1>3, <1>5, <1>6, <1>8 DEF Stream!NewIndicator, KeptROC
<1>13. c.class = "RSI" => KeptRSI(s, ps, P)
  <2>1. GainsOf(ps, 1) = <<>> /\ LossesOf(ps, 1) = <<>>
    BY <1>4
  <2>2. /\ LastUpTo(GainsOf(ps, 1), P - 1) = <<>> /\ LastUpTo(LossesOf(ps, 1), P - 1) = <<>>
    <3> HIDE DEF ps, P
    <3> QED BY <1>5, <1>8, <2>1
  <2> HIDE DEF ps, P, S
  <2> QED BY <1>1, <1>2, <1>7, <2>2 DEF Stream!NewIndicator, KeptRSI, RSIState
<1>14. c.class = "RMI" => KeptRMI(s, ps, P, S)
  <2>1. SUFFICES ASSUME c.class = "RMI" PROVE KeptRMI(s, ps, P, S)
    OBVIOUS
  <2>2. GainsOf(ps, S) = <<>> /\ LossesOf(ps, S) = <<>>
    BY <1>4, <2>1 DEF Registered
  <2>3. LastUpTo(ClosesOf(ps), S + 1) = <<>>
    <3> HIDE DEF ps, S
    <3> QED BY <1>3, <1>5, <1>8
  <2> HIDE DEF ps, P, S
  <2> QED BY <1>1, <1>2, <2>1, <2>2, <2>3 DEF Stream!NewIndicator, KeptRMI, RMIState
<1>15. c.class = "ATR" => KeptATR(s, ps, P)
  <2> HIDE DEF ps, P, S
  <2> QED BY <1>1, <1>2, <1>3, <1>5, <1>6, <1>7, <1>8 DEF Stream!NewIndicator, KeptATR
<1>16. c.class = "VWAP" => KeptVWAP(s, ps, P)
  <2> HIDE DEF ps, P, S
  <2> QED BY <1>1, <1>2, <1>3, <1>5, <1>6, <1>8 DEF Stream!NewIndicator, KeptVWAP
<1> HIDE DEF s, ps, P, S
<1>17. Kept(c, s, ps)
  BY <1>9, <1>10, <1>11, <1>12, <1>13, <1>14, <1>15, <1>16 DEF Kept, P, S
<1> QED BY <1>17 DEF s, ps

LEMMA UpdateIsKept ==
  ASSUME NEW c, Registered(c), NEW ps, ps \in Seq(Row), NEW bar, bar \in Bar,
         Stream!HasPrice(bar), NEW s, Kept(c, s, ps)
  PROVE  Kept(c, Stream!UpdateFromRow(c, s, bar), Append(ps, Stream!Payload(bar)))
<1> DEFINE p == Stream!Payload(bar)
           new == Stream!UpdateFromRow(c, s, bar)
           r == Append(ps, p)
<1>1. p \in Row
  BY PayloadIsRow
<1>2. c.period \in Nat \ {0} /\ c.shift \in Nat /\ (c.class = "RMI" => c.shift \in Nat \ {0})
  BY DEF Registered
<1>3. /\ c.class = "SMA"  => new = Stream!UpdateSMA(c, s, p)
      /\ c.class = "DMA"  => new = Stream!UpdateDMA(c, s, p)
      /\ c.class = "EMA"  => new = Stream!UpdateEMA(c, s, p)
      /\ c.class = "ROC"  => new = Stream!UpdateROC(c, s, p)
      /\ c.class = "RSI"  => new = Stream!UpdateRSI(c, s, p)
      /\ c.class = "RMI"  => new = Stream!UpdateRMI(c, s, p)
      /\ c.class = "ATR"  => new = Stream!UpdateATR(c, s, p)
      /\ c.class = "VWAP" => new = Stream!UpdateVWAP(c, s, p)
  BY DEF Stream!UpdateFromRow
<1> HIDE DEF p, new, r
<1>4. c.class = "SMA" => KeptSMA(new, r, c.period)
  BY <1>1, <1>2, <1>3, SMAStep DEF Kept, r
<1>5. c.class = "DMA" => KeptDMA(new, r, c.period, c.shift)
  BY <1>1, <1>2, <1>3, DMAStep DEF Kept, r
<1>6. c.class = "EMA" => KeptEMA(new, r, c.period)
  BY <1>1, <1>2, <1>3, EMAStep DEF Kept, r
<1>7. c.class = "ROC" => KeptROC(new, r, c.period)
  BY <1>1, <1>2, <1>3, ROCStep DEF Kept, r
<1>8. c.class = "RSI" => KeptRSI(new, r, c.period)
  BY <1>1, <1>2, <1>3, RSIStep DEF Kept, r
<1>9. c.class = "RMI" => KeptRMI(new, r, c.period, c.shift)
  BY <1>1, <1>2, <1>3, RMIStep DEF Kept, r
<1>10. c.class = "ATR" => KeptATR(new, r, c.period)
  BY <1>1, <1>2, <1>3, ATRStep DEF Kept, r
<1>11. c.class = "VWAP" => KeptVWAP(new, r, c.period)
  BY <1>1, <1>2, <1>3, VWAPStep DEF Kept, r
<1>12. Kept(c, new, r)
  BY <1>4, <1>5, <1>6, <1>7, <1>8, <1>9, <1>10, <1>11 DEF Kept
<1> QED BY <1>12 DEF new, r, p

\* The states of an indicator, bar by bar.
StatesOf(f, c, bars, n) ==
    f = [i \in 0..n |-> IF i = 0 THEN Stream!NewIndicator(c)
                        ELSE Stream!UpdateFromRow(c, f[i - 1], bars[i])]

LEMMA StatesExist ==
  ASSUME NEW c, NEW bars, NEW n, n \in Nat
  PROVE  \E f : StatesOf(f, c, bars, n)
<1> DEFINE G == {m \in 0..n : \E f : StatesOf(f, c, bars, m)}
<1>1. 0 \in G
  <2> DEFINE f == [i \in 0..0 |-> Stream!NewIndicator(c)]
  <2>1. f = [i \in 0..0 |-> IF i = 0 THEN Stream!NewIndicator(c)
                            ELSE Stream!UpdateFromRow(c, f[i - 1], bars[i])]
    <3>1. \A i \in 0..0 : i = 0
      OBVIOUS
    <3> QED BY <3>1
  <2>2. StatesOf(f, c, bars, 0)
    BY <2>1 DEF StatesOf
  <2> HIDE DEF f
  <2> QED BY <2>2
<1>2. ASSUME NEW m \in 1..n, m - 1 \in G PROVE m \in G
  <2> DEFINE l == m - 1
  <2>1. PICK f : StatesOf(f, c, bars, l)
    BY <1>2
  <2> DEFINE g == [i \in 0..m |-> IF i = m THEN Stream!UpdateFromRow(c, f[l], bars[m])
                                  ELSE f[i]]
  <2>2. m \in 0..n /\ l \in 0..l /\ m # 0 /\ l # m
    OBVIOUS
  <2>3. \A i \in 0..m : i # m => i \in 0..l
    OBVIOUS
  <2>4. \A i \in 0..m : i # 0 => i - 1 \in 0..l /\ i - 1 \in 0..m /\ i - 1 # m
    OBVIOUS
  <2>5. m - 1 = l
    OBVIOUS
  <2> HIDE DEF l
  <2>6. \A i \in 0..l : f[i] = IF i = 0 THEN Stream!NewIndicator(c)
                               ELSE Stream!UpdateFromRow(c, f[i - 1], bars[i])
    BY <2>1 DEF StatesOf
  <2>7. \A i \in 0..m : i # 0 => g[i - 1] = f[i - 1]
    BY <2>4
  <2>8. \A i \in 0..m : g[i] = IF i = 0 THEN Stream!NewIndicator(c)
                               ELSE Stream!UpdateFromRow(c, g[i - 1], bars[i])
    <3> SUFFICES ASSUME NEW i \in 0..m
                 PROVE  g[i] = IF i = 0 THEN Stream!NewIndicator(c)
                               ELSE Stream!UpdateFromRow(c, g[i - 1], bars[i])
      OBVIOUS
    <3>1. CASE i = m
      <4>1. g[i] = Stream!UpdateFromRow(c, f[l], bars[m])
        BY <3>1
      <4>2. g[i - 1] = f[l]
        BY <2>2, <2>5, <2>7, <3>1
      <4> HIDE DEF g
      <4> QED BY <2>2, <3>1, <4>1, <4>2
    <3>2. CASE i # m
      <4>1. g[i] = f[i]
        BY <3>2
      <4> HIDE DEF g
      <4> QED BY <2>3, <2>6, <2>7, <3>2, <4>1
    <3> QED BY <3>1, <3>2
  <2>9. g = [i \in 0..m |-> g[i]]
    OBVIOUS
  <2> HIDE DEF g
  <2>10. StatesOf(g, c, bars, m)
    BY <2>8, <2>9 DEF StatesOf
  <2> QED BY <2>2, <2>10
<1> HIDE DEF G
<1>3. 0..n \subseteq G
  BY <1>1, <1>2, PlaceInduction
<1>4. n \in G
  BY <1>3
<1> QED BY <1>4 DEF G

\* The rows that have reached an indicator, bar by bar.
RowsFed(q, bars, n) ==
    /\ q[0] = <<>> /\ Stream!Prices(bars) = q[n]
    /\ \A i \in 0..n : q[i] \in Seq(Row)
    /\ \A i \in 1..n : q[i] = IF Stream!HasPrice(bars[i])
                              THEN Append(q[i - 1], Stream!Payload(bars[i])) ELSE q[i - 1]

LEMMA RowsAreFed ==
  ASSUME NEW bars, bars \in Seq(Bar), NEW n, n = Len(bars)
  PROVE  \E q : RowsFed(q, bars, n)
<1> DEFINE V == Seq(Row)
           Fed(v, i) == IF Stream!HasPrice(bars[i]) THEN Append(v, Stream!Payload(bars[i]))
                        ELSE v
           F == [i \in 1..n |-> [v \in V |-> Fed(v, i)]]
           It(f) == f = [i \in 0..n |-> IF i = 0 THEN <<>>
                                        ELSE IF Stream!HasPrice(bars[i])
                                        THEN Append(f[i - 1], Stream!Payload(bars[i]))
                                        ELSE f[i - 1]]
           q == CHOOSE f : It(f)
<1>1. n \in Nat /\ \A i \in 1..n : bars[i] \in Bar
  <2>1. n \in Nat /\ DOMAIN bars = 1..n
    OBVIOUS
  <2> QED BY <2>1, ElementsOf
<1>2. Stream!Prices(bars) = q[n]
  BY DEF Stream!Prices
<1>3. <<>> \in V
  OBVIOUS
<1>4. ASSUME NEW i \in 1..n, NEW v \in V PROVE Fed(v, i) \in V
  <2>1. CASE Stream!HasPrice(bars[i])
    <3> DEFINE p == Stream!Payload(bars[i])
    <3>1. p \in Row
      BY <1>1, <2>1, PayloadIsRow
    <3> HIDE DEF p
    <3>2. Append(v, p) \in V
      BY <3>1
    <3> HIDE DEF V
    <3> QED BY <2>1, <3>2 DEF p
  <2>2. CASE ~Stream!HasPrice(bars[i])
    BY <2>2
  <2> QED BY <2>1, <2>2
<1>5. F \in [1..n -> [V -> V]] /\ \A i \in 1..n, v \in V : F[i][v] = Fed(v, i)
  <2> HIDE DEF V, Fed
  <2> QED BY <1>4
<1>6. PICK t : Traces(t, n, V, <<>>, F)
  <2> HIDE DEF V, F, Fed
  <2> QED BY <1>1, <1>3, <1>5, TraceExists
<1>7. /\ t \in [0..n -> V] /\ t[0] = <<>>
      /\ \A i \in 1..n : t[i - 1] \in V /\ t[i] = F[i][t[i - 1]]
  BY <1>6 DEF Traces
<1>8. It(t)
  <2>1. \A i \in 1..n : t[i] = Fed(t[i - 1], i)
    <3> HIDE DEF V, F, Fed
    <3> QED BY <1>5, <1>7
  <2>2. \A i \in 0..n : i # 0 => i \in 1..n
    BY <1>1
  <2> HIDE DEF V, F
  <2> QED BY <1>7, <2>1, <2>2
<1>9. It(q)
  <2> HIDE DEF It
  <2> QED BY <1>8
<1> HIDE DEF q
<1>10. /\ q[0] = <<>>
       /\ \A i \in 1..n : q[i] = Fed(q[i - 1], i)
  <2>1. 0 \in 0..n /\ \A i \in 1..n : i \in 0..n /\ i # 0
    BY <1>1
  <2> QED BY <1>9, <2>1
<1>11. \A i \in 0..n : q[i] \in V
  <2> DEFINE G == {i \in 0..n : q[i] \in V}
  <2>1. 0 \in G
    <3>1. 0 \in 0..n
      BY <1>1
    <3> HIDE DEF V
    <3> QED BY <1>3, <1>10, <3>1
  <2>2. ASSUME NEW i \in 1..n, i - 1 \in G PROVE i \in G
    <3>1. i \in 0..n /\ q[i - 1] \in V
      BY <1>1, <2>2
    <3> HIDE DEF V, Fed
    <3> QED BY <1>4, <1>10, <3>1
  <2> HIDE DEF G, V
  <2>3. 0..n \subseteq G
    BY ONLY <1>1, <2>1, <2>2, PlaceInduction
  <2> QED BY <2>3 DEF G
<1> QED BY <1>2, <1>10, <1>11 DEF RowsFed

LEMMA AfterIsKept ==
  ASSUME NEW c, Registered(c), NEW bars, bars \in Seq(Bar)
  PROVE  Stream!Prices(bars) \in Seq(Row) /\ Kept(c, Stream!After(c, bars), Stream!Prices(bars))
<1> DEFINE n == Len(bars)
           It(f) == f = [i \in 0..n |-> IF i = 0 THEN Stream!NewIndicator(c)
                                        ELSE Stream!UpdateFromRow(c, f[i - 1], bars[i])]
           s == CHOOSE f : It(f)
<1>1. n \in Nat /\ \A i \in 1..n : bars[i] \in Bar
  <2>1. n \in Nat /\ DOMAIN bars = 1..n
    OBVIOUS
  <2> QED BY <2>1, ElementsOf
<1>2. Stream!After(c, bars) = s[n]
  BY DEF Stream!After
<1>3. \E t : It(t)
  <2> DEFINE m == n
  <2>1. m \in Nat
    BY <1>1
  <2> HIDE DEF m
  <2>2. \E t : StatesOf(t, c, bars, m)
    BY <2>1, StatesExist
  <2> QED BY <2>2 DEF StatesOf, m
<1>4. It(s)
  <2> HIDE DEF It
  <2> QED BY <1>3
<1>5. PICK q : RowsFed(q, bars, n)
  BY RowsAreFed
<1> HIDE DEF n, s
<1>6. /\ s[0] = Stream!NewIndicator(c)
      /\ \A i \in 1..n : s[i] = Stream!UpdateFromRow(c, s[i - 1], bars[i])
  <2>1. 0 \in 0..n /\ \A i \in 1..n : i \in 0..n /\ i # 0
    BY <1>1
  <2> QED BY <1>4, <2>1
<1> DEFINE G == {i \in 0..n : Kept(c, s[i], q[i])}
<1>7. 0 \in G
  BY <1>1, <1>5, <1>6, NewIsKept DEF RowsFed
<1>8. ASSUME NEW i \in 1..n, i - 1 \in G PROVE i \in G
  <2>1. i \in 0..n /\ i - 1 \in 0..n /\ Kept(c, s[i - 1], q[i - 1]) /\ bars[i] \in Bar
        /\ q[i - 1] \in Seq(Row)
    BY <1>1, <1>5, <1>8 DEF RowsFed
  <2>2. Kept(c, s[i], q[i])
    <3>1. CASE Stream!HasPrice(bars[i])
      <4>1. q[i] = Append(q[i - 1], Stream!Payload(bars[i]))
        BY <1>5, <3>1 DEF RowsFed
      <4>2. s[i] = Stream!UpdateFromRow(c, s[i - 1], bars[i])
        BY <1>6
      <4> QED BY <2>1, <3>1, <4>1, <4>2, UpdateIsKept
    <3>2. CASE ~Stream!HasPrice(bars[i])
      <4>1. q[i] = q[i - 1]
        BY <1>5, <3>2 DEF RowsFed
      <4>2. s[i] = s[i - 1]
        BY <1>6, <3>2 DEF Stream!UpdateFromRow
      <4> QED BY <2>1, <4>1, <4>2
    <3> QED BY <3>1, <3>2
  <2> QED BY <2>1, <2>2
<1> HIDE DEF G
<1>9. 0..n \subseteq G
  BY <1>1, <1>7, <1>8, PlaceInduction
<1>10. n \in G
  BY <1>1, <1>9
<1>11. Kept(c, s[n], q[n]) /\ q[n] \in Seq(Row)
  BY <1>1, <1>5, <1>10 DEF G, RowsFed
<1> QED BY <1>2, <1>5, <1>11 DEF RowsFed

-------------------------------------------------------------------------------
(* What an indicator keeps is what its class defines.                       *)

LEMMA SomeRow == \E p : p \in Row
<1>1. [price |-> 0, high |-> 0, low |-> 0, volume |-> 0] \in Row
  BY DEF Row
<1> QED BY <1>1

LEMMA LastOfIsLast ==
  ASSUME NEW S, NEW q, q \in Seq(S), NEW m, m \in Nat, Len(q) >= m
  PROVE  Stream!LastOf(q, m) = LastUpTo(q, m)
<1> DEFINE n == Len(q)
<1>1. n \in Nat
  OBVIOUS
<1>2. CASE n > m
  BY <1>1, <1>2 DEF Stream!LastOf, LastUpTo
<1>3. CASE ~(n > m)
  <2>1. n = m /\ n - m + 1 = 1
    BY <1>1, <1>3
  <2>2. Stream!LastOf(q, m) = SubSeq(q, 1, n)
    BY <2>1 DEF Stream!LastOf
  <2>3. LastUpTo(q, m) = q
    BY <2>1 DEF LastUpTo
  <2>4. SubSeq(q, 1, n) = q
    <3> DEFINE a == 1
    <3>1. /\ a \in Nat \ {0} /\ a <= n + 1 /\ n <= n /\ (n - a) + 1 = n
          /\ \A j \in 1..n : (a - 1) + j = j
      BY <1>1
    <3> HIDE DEF a, n
    <3>2. /\ SubSeq(q, a, n) \in Seq(S) /\ Len(SubSeq(q, a, n)) = n
          /\ \A j \in 1..n : SubSeq(q, a, n)[j] = q[j]
      <4>1. /\ SubSeq(q, a, n) \in Seq(S) /\ Len(SubSeq(q, a, n)) = (n - a) + 1
            /\ \A j \in 1..(n - a) + 1 : SubSeq(q, a, n)[j] = q[(a - 1) + j]
        <5>1. n <= Len(q)
          BY <3>1 DEF n
        <5> QED BY <1>1, <3>1, <5>1, SubSeqView
      <4> QED BY <3>1, <4>1
    <3>3. SubSeq(q, a, n) = q
      BY <3>2, SameSequence DEF n
    <3> QED BY <3>3 DEF a
  <2> QED BY <2>2, <2>3, <2>4
<1> QED BY <1>2, <1>3

LEMMA MappedForms ==
  ASSUME NEW ps, ps \in Seq(Row)
  PROVE  /\ [i \in DOMAIN ps |-> ps[i].price] = ClosesOf(ps)
         /\ [i \in DOMAIN ps |-> ps[i].volume] = VolumesOf(ps)
         /\ [i \in DOMAIN ps |-> ps[i].price * ps[i].volume] = TurnoverOf(ps)
<1>1. \A i \in DOMAIN ps : ps[i] \in Row
  BY ElementsOf
<1> QED BY <1>1 DEF ClosesOf, VolumesOf, TurnoverOf, Mapped

LEMMA ChangeForms ==
  ASSUME NEW f, f \in Seq(Int)
  PROVE  /\ [i \in DOMAIN f |-> Stream!Positive(f[i])] = Ups(f)
         /\ [i \in DOMAIN f |-> Stream!Positive(-f[i])] = Downs(f)
<1>1. \A i \in DOMAIN f : f[i] \in Int
  BY ElementsOf
<1> QED BY <1>1 DEF Ups, Downs, Mapped

\* The totals of a VWAP are those of its last rows.
LEMMA LastMapped ==
  ASSUME NEW ps, ps \in Seq(Row), NEW m, m \in Nat
  PROVE  /\ LastUpTo(ps, m) \in Seq(Row)
         /\ VolumesOf(LastUpTo(ps, m)) = LastUpTo(VolumesOf(ps), m)
         /\ TurnoverOf(LastUpTo(ps, m)) = LastUpTo(TurnoverOf(ps), m)
<1> DEFINE n == Len(ps)
           l == LastUpTo(ps, m)
           k == IF n <= m THEN n ELSE m
           Z == Int
<1>1. n \in Nat /\ IsLast(l, Row, ps, n, m)
  <2>1. n \in Nat
    OBVIOUS
  <2> QED BY <2>1, LastView
<1>2. l \in Seq(Row) /\ Len(l) = k /\ k \in Nat
  BY <1>1 DEF IsLast
<1>3. ASSUME NEW q, NEW r, NEW w, Imaged(w, ps, q, Z), Imaged(w, l, r, Z)
      PROVE  r = LastUpTo(q, m)
  <2>0. /\ q \in Seq(Z) /\ r \in Seq(Z) /\ Len(q) = n /\ Len(r) = Len(l)
        /\ \A i \in 1..n : q[i] = w[ps[i]]
        /\ \A i \in 1..Len(l) : r[i] = w[l[i]]
    BY <1>3 DEF Imaged
  <2> DEFINE L == LastUpTo(q, m)
  <2>1. IsLast(L, Z, q, n, m)
    <3> HIDE DEF Z, n
    <3>1. IsLast(LastUpTo(q, m), Z, q, Len(q), m)
      BY <2>0, LastView
    <3> QED BY <2>0, <3>1
  <2> HIDE DEF L, Z, l
  <2>2. L \in Seq(Z) /\ Len(L) = k
    BY <2>1 DEF IsLast
  <2>3. \A i \in 1..k : r[i] = L[i]
    <3>1. CASE n <= m
      <4>1. \A i \in 1..k : l[i] = ps[i] /\ L[i] = q[i] /\ i \in 1..n
        BY <1>1, <2>1, <3>1 DEF IsLast
      <4> HIDE DEF k, n
      <4> QED BY <1>2, <2>0, <4>1
    <3>2. CASE ~(n <= m)
      <4>1. m < n /\ k = m
        BY <1>1, <3>2
      <4>2. \A i \in 1..m : (n - m) + i \in 1..n
        BY <1>1, <4>1
      <4> HIDE DEF k, n
      <4>3. \A i \in 1..k : l[i] = ps[(n - m) + i] /\ L[i] = q[(n - m) + i]
        BY <1>1, <2>1, <4>1 DEF IsLast
      <4> QED BY <1>2, <2>0, <4>1, <4>2, <4>3
    <3> QED BY <3>1, <3>2
  <2> HIDE DEF k
  <2>4. Len(r) = Len(L) /\ \A i \in 1..Len(L) : r[i] = L[i]
    BY <1>2, <2>0, <2>2, <2>3
  <2>5. r = L
    BY <2>0, <2>2, <2>4, SameSequence
  <2> QED BY <2>5 DEF L
<1>4. ASSUME NEW q, q \in Seq(Row)
      PROVE  /\ VolumesOf(q) \in Seq(Z) /\ Len(VolumesOf(q)) = Len(q)
             /\ TurnoverOf(q) \in Seq(Z) /\ Len(TurnoverOf(q)) = Len(q)
             /\ \A i \in 1..Len(q) : VolumesOf(q)[i] = [r \in Row |-> r.volume][q[i]]
             /\ \A i \in 1..Len(q) : TurnoverOf(q)[i] = [r \in Row |-> r.price * r.volume][q[i]]
  <2>1. PICK p : p \in Row
    BY SomeRow
  <2>2. VolumesOf(q) \in Seq(Nat) /\ Len(VolumesOf(q)) = Len(q)
    BY <1>4, <2>1, VolumesGrow
  <2>3. TurnoverOf(q) \in Seq(Int) /\ Len(TurnoverOf(q)) = Len(q)
    BY <1>4, <2>1, TurnoverGrows
  <2>4. VolumesOf(q) \in Seq(Int)
    BY <2>2, NaturalsAreIntegers
  <2>5. DOMAIN q = 1..Len(q)
    BY <1>4
  <2>6. /\ \A i \in 1..Len(q) : VolumesOf(q)[i] = [r \in Row |-> r.volume][q[i]]
        /\ \A i \in 1..Len(q) : TurnoverOf(q)[i] = [r \in Row |-> r.price * r.volume][q[i]]
    BY <2>5 DEF VolumesOf, TurnoverOf, Mapped
  <2> QED BY <2>2, <2>3, <2>4, <2>6
<1> HIDE DEF l, Z, k, n
<1> DEFINE v == [r \in Row |-> r.volume]
           t == [r \in Row |-> r.price * r.volume]
<1>5. Imaged(v, ps, VolumesOf(ps), Z) /\ Imaged(t, ps, TurnoverOf(ps), Z)
  BY <1>4 DEF Imaged
<1>6. Imaged(v, l, VolumesOf(l), Z) /\ Imaged(t, l, TurnoverOf(l), Z)
  BY <1>2, <1>4 DEF Imaged
<1> HIDE DEF v, t
<1>7. VolumesOf(l) = LastUpTo(VolumesOf(ps), m)
  BY <1>3, <1>5, <1>6
<1>8. TurnoverOf(l) = LastUpTo(TurnoverOf(ps), m)
  BY <1>3, <1>5, <1>6
<1> QED BY <1>2, <1>7, <1>8 DEF l

\* The formulas of the classes, over the rows.
Formulas(c, ps, n, d) ==
    LET q == ClosesOf(ps)
        P == c.period
        S == c.shift
        f == Stream!Momenta(ps, IF c.class = "RSI" THEN 1 ELSE S)
        recent == Stream!LastOf(ps, P)
        traded == Stream!Total([i \in DOMAIN recent |-> recent[i].volume])
    IN  /\ c.class = "SMA" => d = Stream!Frac(Stream!Total(Stream!LastOf(q, P)), P)
        /\ c.class = "DMA" =>
             d = Stream!Frac(Stream!Total(Stream!LastOf(SubSeq(q, 1, Len(q) - S), P)), P)
        /\ c.class = "EMA" => d = Stream!Smoothed(q, P, 2, P + 1)
        /\ c.class = "ROC" =>
             d = IF q[Len(q) - P] = 0 THEN Stream!Frac(0, 1)
                 ELSE Stream!Frac((q[Len(q)] - q[Len(q) - P]) * 100, q[Len(q) - P])
        /\ c.class \in {"RSI", "RMI"} =>
             d = Stream!Strength(WilderOf([i \in DOMAIN f |-> Stream!Positive(f[i])], P),
                                 WilderOf([i \in DOMAIN f |-> Stream!Positive(-f[i])], P))
        /\ c.class = "ATR" =>
             d = Stream!Frac(Stream!Total(
                   [i \in 1..P |->
                      Stream!TrueRange(ps[n - P + i], ps[(n - P + i) - 1].price)]), P)
        /\ c.class = "VWAP" =>
             d = IF traded = 0 THEN Stream!Frac(q[Len(q)], 1)
                 ELSE Stream!Frac(Stream!Total([i \in DOMAIN recent |->
                                    recent[i].price * recent[i].volume]), traded)

LEMMA DefinedParts ==
  ASSUME NEW c, NEW bars, NEW ps, ps = Stream!Prices(bars), ps \in Seq(Row),
         NEW n, n = Len(ps)
  PROVE  Formulas(c, ps, n, Stream!Defined(c, bars))
<1> DEFINE q == [i \in DOMAIN ps |-> ps[i].price]
           P == c.period
           S == c.shift
           d == Stream!Defined(c, bars)
<1>1. q = ClosesOf(ps)
  BY MappedForms
<1>2. c.class = "SMA" => d = Stream!Frac(Stream!Total(Stream!LastOf(q, P)), P)
  BY DEF Stream!Defined
<1>3. c.class = "DMA" =>
        d = Stream!Frac(Stream!Total(Stream!LastOf(SubSeq(q, 1, Len(q) - S), P)), P)
  BY DEF Stream!Defined
<1>4. c.class = "EMA" => d = Stream!Smoothed(q, P, 2, P + 1)
  BY DEF Stream!Defined
<1>5. c.class = "ROC" =>
        d = IF q[Len(q) - P] = 0 THEN Stream!Frac(0, 1)
            ELSE Stream!Frac((q[Len(q)] - q[Len(q) - P]) * 100, q[Len(q) - P])
  BY DEF Stream!Defined
<1> DEFINE f == Stream!Momenta(ps, IF c.class = "RSI" THEN 1 ELSE S)
           recent == Stream!LastOf(ps, P)
           traded == Stream!Total([i \in DOMAIN recent |-> recent[i].volume])
<1>6. c.class \in {"RSI", "RMI"} =>
        d = Stream!Strength(WilderOf([i \in DOMAIN f |-> Stream!Positive(f[i])], P),
                            WilderOf([i \in DOMAIN f |-> Stream!Positive(-f[i])], P))
  BY DEF Stream!Defined, WilderOf
<1>7. c.class = "ATR" =>
        d = Stream!Frac(Stream!Total([i \in 1..P |->
                          Stream!TrueRange(ps[n - P + i], ps[(n - P + i) - 1].price)]), P)
  BY DEF Stream!Defined
<1>8. c.class = "VWAP" =>
        d = IF traded = 0 THEN Stream!Frac(q[Len(q)], 1)
            ELSE Stream!Frac(Stream!Total([i \in DOMAIN recent |->
                               recent[i].price * recent[i].volume]), traded)
  BY DEF Stream!Defined
<1> HIDE DEF q, d, f, recent, traded
<1> QED BY <1>1, <1>2, <1>3, <1>4, <1>5, <1>6, <1>7, <1>8
        DEF P, S, d, f, recent, traded, Formulas

\* An answer: ready once there are enough rows, with the value then.
Answer(s, d, enough) ==
    IF enough THEN s.ready = TRUE /\ Stream!Same(s.value, d) ELSE s.ready = FALSE

LEMMA SameAsItself ==
  \A a : Stream!Same(a, a)
  BY DEF Stream!Same

LEMMA PricesView ==
  ASSUME NEW ps, ps \in Seq(Row)
  PROVE  /\ ClosesOf(ps) \in Seq(Int) /\ Len(ClosesOf(ps)) = Len(ps) /\ Len(ps) \in Nat
         /\ \A i \in 1..Len(ps) : ClosesOf(ps)[i] = ps[i].price
<1>1. PICK p : p \in Row
  BY SomeRow
<1>2. Len(ps) \in Nat
  OBVIOUS
<1> QED BY <1>1, <1>2, ClosesGrow

LEMMA SMAAnswer ==
  ASSUME NEW ps, ps \in Seq(Row), NEW P, P \in Nat \ {0}, NEW s, KeptSMA(s, ps, P),
         NEW d, d = Stream!Frac(Stream!Total(Stream!LastOf(ClosesOf(ps), P)), P)
  PROVE  Answer(s, d, Len(ps) >= P)
<1> DEFINE q == ClosesOf(ps)
           Z == Int
<1>1. q \in Seq(Z) /\ Len(q) = Len(ps) /\ P \in Nat
  BY PricesView
<1>2. CASE Len(ps) >= P
  <2>1. Stream!LastOf(q, P) = LastUpTo(q, P)
    <3> HIDE DEF q, Z
    <3> QED BY <1>1, <1>2, LastOfIsLast
  <2>2. s.ready = TRUE /\ s.value = Stream!Frac(Stream!Total(LastUpTo(q, P)), P)
    <3> DEFINE w == LastUpTo(q, P)
               t == Stream!Total(w)
               v == Stream!Frac(t, P)
    <3>1. s = [ready |-> TRUE, value |-> v, window |-> w, sum |-> t]
      BY <1>2 DEF KeptSMA
    <3> HIDE DEF w, t, v
    <3>2. s.ready = TRUE /\ s.value = v
      BY <3>1
    <3> QED BY <3>2 DEF v, t, w
  <2>3. s.value = d
    BY <2>1, <2>2
  <2> QED BY <1>2, <2>2, <2>3, SameAsItself DEF Answer
<1>3. CASE ~(Len(ps) >= P)
  <2>1. s.ready = FALSE
    BY <1>3 DEF KeptSMA
  <2> QED BY <1>3, <2>1 DEF Answer
<1> QED BY <1>2, <1>3

LEMMA DMAAnswer ==
  ASSUME NEW ps, ps \in Seq(Row), NEW P, P \in Nat \ {0}, NEW S, S \in Nat, NEW s,
         KeptDMA(s, ps, P, S),
         NEW q, q = ClosesOf(ps),
         NEW d, d = Stream!Frac(Stream!Total(Stream!LastOf(SubSeq(q, 1, Len(q) - S), P)), P)
  PROVE  Answer(s, d, Len(ps) >= P + S)
<1> DEFINE Z == Int
           n == Len(ps)
           M == P + S
           w == LastUpTo(q, M)
<1>1. q \in Seq(Z) /\ Len(q) = n /\ P \in Nat /\ n \in Nat /\ M \in Nat
  BY PricesView
<1>2. CASE n >= M
  <2>1. IsLast(w, Z, q, n, M)
    <3> HIDE DEF Z, M, n
    <3>1. IsLast(LastUpTo(q, M), Z, q, Len(q), M)
      BY <1>1, LastView
    <3> QED BY <1>1, <3>1
  <2>2. w \in Seq(Z) /\ Len(w) = M /\ \A j \in 1..M : w[j] = q[(n - M) + j]
    <3> HIDE DEF w, Z, M, n
    <3>1. CASE M < n
      <4>1. ~(n <= M)
        BY <1>1, <3>1
      <4> QED BY <2>1, <3>1, <4>1 DEF IsLast
    <3>2. CASE ~(M < n)
      <4>1. n = M /\ n <= M
        BY <1>1, <1>2, <3>2
      <4>2. \A j \in 1..M : (n - M) + j = j
        BY <1>1, <4>1
      <4>3. w \in Seq(Z) /\ Len(w) = n /\ \A j \in 1..n : w[j] = q[j]
        BY <2>1, <4>1 DEF IsLast
      <4> QED BY <4>1, <4>2, <4>3
    <3> QED BY <3>1, <3>2
  <2> HIDE DEF w
  <2> DEFINE a == Len(w) - S - P + 1
             b == Len(w) - S
             l == SubSeq(w, a, b)
  <2>3. l \in Seq(Z) /\ Len(l) = P /\ \A j \in 1..P : l[j] = q[(n - M) + j]
    <3>1. a = 1 /\ b = P
      <4>1. Len(w) = P + S
        BY <2>2
      <4> DEFINE y == Len(w)
      <4> HIDE DEF y
      <4>2. (y - S - P) + 1 = 1 /\ y - S = P
        BY <1>1, <4>1 DEF y
      <4> QED BY <4>2 DEF y
    <3> HIDE DEF a, b
    <3>2. /\ a \in Nat \ {0} /\ b \in Nat /\ a <= b + 1 /\ b <= M /\ (b - a) + 1 = P
          /\ \A j \in 1..P : (a - 1) + j = j /\ j \in 1..M
      BY <1>1, <3>1
    <3> HIDE DEF a, b, M, Z, n
    <3>3. /\ SubSeq(w, a, b) \in Seq(Z) /\ Len(SubSeq(w, a, b)) = (b - a) + 1
          /\ \A j \in 1..(b - a) + 1 : SubSeq(w, a, b)[j] = w[(a - 1) + j]
      BY <2>2, <3>2, SubSeqView
    <3> QED BY <2>2, <3>2, <3>3
  <2> DEFINE k == n - S
             u == SubSeq(q, 1, k)
             r == Stream!LastOf(u, P)
  <2>4. u \in Seq(Z) /\ Len(u) = k /\ k \in Nat /\ k >= P /\ \A j \in 1..k : u[j] = q[j]
    <3> DEFINE one == 1
    <3>1. one \in Nat \ {0} /\ k \in Nat /\ one <= k + 1 /\ k <= Len(q) /\ k >= P
          /\ (k - one) + 1 = k /\ \A j \in 1..k : (one - 1) + j = j
      BY <1>1, <1>2
    <3> HIDE DEF one, k, Z
    <3>2. /\ SubSeq(q, one, k) \in Seq(Z) /\ Len(SubSeq(q, one, k)) = (k - one) + 1
          /\ \A j \in 1..(k - one) + 1 : SubSeq(q, one, k)[j] = q[(one - 1) + j]
      BY <1>1, <3>1, SubSeqView
    <3>3. u = SubSeq(q, one, k)
      BY DEF one
    <3> HIDE DEF u
    <3> QED BY <3>1, <3>2, <3>3
  <2> HIDE DEF u
  <2>5. r \in Seq(Z) /\ Len(r) = P /\ \A j \in 1..P : r[j] = q[(n - M) + j]
    <3> DEFINE c == (k - P) + 1
    <3>1. /\ c \in Nat \ {0} /\ c <= k + 1 /\ k <= k /\ (k - c) + 1 = P
          /\ \A j \in 1..P : (c - 1) + j = (n - M) + j /\ (n - M) + j \in 1..k
      <4>1. n \in Nat /\ P \in Nat /\ k \in Nat /\ k >= P /\ k = n - S
        BY <1>1, <2>4
      <4>2. c \in Nat \ {0} /\ c <= k + 1 /\ k <= k /\ (k - c) + 1 = P
        <5> HIDE DEF k, n
        <5> QED BY <4>1
      <4>3. ASSUME NEW j \in 1..P
            PROVE  (c - 1) + j = (n - M) + j /\ (n - M) + j \in 1..k
        <5>1. c - 1 = n - M
          <6> HIDE DEF n
          <6> QED BY <4>1
        <5>2. (c - 1) + j \in 1..k
          <6> HIDE DEF k, n
          <6> QED BY <4>1
        <5> QED BY <5>1, <5>2
      <4> QED BY <4>2, <4>3
    <3>2. r = SubSeq(u, c, k)
      BY <2>4 DEF Stream!LastOf
    <3> HIDE DEF c, k, M, Z, n, r
    <3>3. /\ SubSeq(u, c, k) \in Seq(Z) /\ Len(SubSeq(u, c, k)) = (k - c) + 1
          /\ \A j \in 1..(k - c) + 1 : SubSeq(u, c, k)[j] = u[(c - 1) + j]
      BY <2>4, <3>1, SubSeqView
    <3> QED BY <2>4, <3>1, <3>2, <3>3
  <2>6. l = r
    <3> HIDE DEF l, r, Z
    <3> QED BY <2>3, <2>5, SameSequence
  <2>7. DMAOf(w, P, S) = d
    <3>1. d = Stream!Frac(Stream!Total(r), P)
      BY <1>1 DEF u
    <3> QED BY <2>6, <3>1 DEF DMAOf
  <2> DEFINE v == DMAOf(w, P, S)
  <2>8. s.ready = TRUE /\ s.value = v
    <3>1. s = [ready |-> TRUE, value |-> v, window |-> w, sum |-> 0]
      BY <1>2 DEF KeptDMA, w
    <3> HIDE DEF v
    <3> QED BY <3>1
  <2> HIDE DEF v, M
  <2>9. s.value = d
    BY <2>7, <2>8 DEF v
  <2> QED BY <1>2, <2>8, <2>9, SameAsItself DEF Answer, M
<1>3. CASE ~(n >= M)
  <2>1. s.ready = FALSE
    BY <1>3 DEF KeptDMA
  <2> QED BY <1>3, <2>1 DEF Answer
<1> QED BY <1>2, <1>3

LEMMA ROCAnswer ==
  ASSUME NEW ps, ps \in Seq(Row), NEW P, P \in Nat \ {0}, NEW s, KeptROC(s, ps, P),
         NEW q, q = ClosesOf(ps),
         NEW d, d = IF q[Len(q) - P] = 0 THEN Stream!Frac(0, 1)
                    ELSE Stream!Frac((q[Len(q)] - q[Len(q) - P]) * 100, q[Len(q) - P])
  PROVE  Answer(s, d, Len(ps) >= P + 1)
<1> DEFINE Z == Int
           n == Len(ps)
           M == P + 1
           w == LastUpTo(q, M)
<1>1. q \in Seq(Z) /\ Len(q) = n /\ P \in Nat /\ n \in Nat /\ M \in Nat
      /\ \A i \in 1..n : q[i] = ps[i].price
  BY PricesView
<1>2. CASE n >= M
  <2>1. IsLast(w, Z, q, n, M)
    <3> HIDE DEF Z, M, n
    <3>1. IsLast(LastUpTo(q, M), Z, q, Len(q), M)
      BY <1>1, LastView
    <3> QED BY <1>1, <3>1
  <2>2. w[1] = q[n - P]
    <3>1. CASE M < n
      <4>1. 1 \in 1..M /\ (n - M) + 1 = n - P
        BY <1>1, <3>1
      <4> HIDE DEF w, Z, M, n
      <4> QED BY <2>1, <3>1, <4>1 DEF IsLast
    <3>2. CASE ~(M < n)
      <4>1. n <= M /\ 1 \in 1..n /\ n - P = 1
        BY <1>1, <1>2, <3>2
      <4> HIDE DEF w, Z, M, n
      <4> QED BY <2>1, <4>1 DEF IsLast
    <3> QED BY <3>1, <3>2
  <2> DEFINE x == ps[n].price
             v == ROCOf(w, x)
  <2>3. q[n] = x
    BY <1>1, <1>2
  <2> HIDE DEF w
  <2>4. s.ready = TRUE /\ s.value = v
    <3>1. s = [ready |-> TRUE, value |-> v, window |-> w, sum |-> 0]
      BY <1>2 DEF KeptROC, w
    <3> HIDE DEF v
    <3> QED BY <3>1
  <2>5. v = d
    <3> HIDE DEF x
    <3> QED BY <1>1, <2>2, <2>3 DEF ROCOf
  <2> HIDE DEF v
  <2> QED BY <1>2, <2>4, <2>5, SameAsItself DEF Answer
<1>3. CASE ~(n >= M)
  <2>1. s.ready = FALSE
    BY <1>3 DEF KeptROC
  <2> QED BY <1>3, <2>1 DEF Answer
<1> QED BY <1>2, <1>3

LEMMA EMAAnswer ==
  ASSUME NEW ps, ps \in Seq(Row), NEW P, P \in Nat \ {0}, NEW s, KeptEMA(s, ps, P),
         NEW d, d = Stream!Smoothed(ClosesOf(ps), P, 2, P + 1)
  PROVE  Answer(s, d, Len(ps) >= P)
<1> DEFINE q == ClosesOf(ps)
<1>1. q \in Seq(Int) /\ Len(q) = Len(ps)
  BY PricesView
<1>2. CASE Len(ps) >= P
  <2>1. PICK e, t : /\ s = [ready |-> TRUE, value |-> e, ema |-> e, count |-> Len(ps), sum |-> t]
                    /\ Averaged(e, q, P)
    BY <1>2 DEF KeptEMA
  <2>2. s.ready = TRUE /\ s.value = e
    BY <2>1
  <2>3. PICK f \in Nat \ {0} : e = Stream!Frac(f * d.n, f * d.d)
    BY <2>1 DEF Averaged
  <2>4. d.n \in Int /\ d.d \in Nat \ {0}
    <3> DEFINE a == P + 1
               w == 2
               x == 0
    <3>1. a \in Nat \ {0} /\ w \in Int /\ x \in Int /\ Len(q) >= P
      BY <1>1, <1>2
    <3>2. d = Stream!Smoothed(q, P, w, a)
      OBVIOUS
    <3> HIDE DEF a, w, x, q
    <3>3. SmoothedTo(d, Stream!Smoothed(Append(q, x), P, w, a), w, a, x)
      BY <1>1, <3>1, <3>2, SmoothedStep
    <3> QED BY <3>3 DEF SmoothedTo
  <2> DEFINE m == d.n
             b == d.d
  <2>5. e.n = f * m /\ e.d = f * b
    BY <2>3 DEF Stream!Frac
  <2>6. m \in Int /\ b \in Nat \ {0}
    BY <2>4
  <2> HIDE DEF m, b
  <2>7. f * b # 0 /\ (f * m) * b = m * (f * b)
    BY <2>6
  <2>8. Stream!Same(e, d)
    <3>1. d.n = m /\ d.d = b
      BY DEF m, b
    <3> QED BY <2>5, <2>6, <2>7, <3>1 DEF Stream!Same
  <2> QED BY <1>2, <2>2, <2>8 DEF Answer
<1>3. CASE ~(Len(ps) >= P)
  <2>1. s.ready = FALSE
    BY <1>3 DEF KeptEMA
  <2> QED BY <1>3, <2>1 DEF Answer
<1> QED BY <1>2, <1>3

\* The strength of the changes over m rows.
StrengthOver(ps, P, m) ==
    Stream!Strength(WilderOf(GainsOf(ps, m), P), WilderOf(LossesOf(ps, m), P))

LEMMA StrengthForms ==
  ASSUME NEW ps, ps \in Seq(Row), NEW m, m \in Nat \ {0}, NEW P,
         NEW f, f = Stream!Momenta(ps, m)
  PROVE  Stream!Strength(WilderOf([i \in DOMAIN f |-> Stream!Positive(f[i])], P),
                         WilderOf([i \in DOMAIN f |-> Stream!Positive(-f[i])], P))
           = StrengthOver(ps, P, m)
<1>1. PICK p : p \in Row
  BY SomeRow
<1>2. f \in Seq(Int)
  BY <1>1, MomentaGrow
<1>3. /\ [i \in DOMAIN f |-> Stream!Positive(f[i])] = Ups(f)
      /\ [i \in DOMAIN f |-> Stream!Positive(-f[i])] = Downs(f)
  BY <1>2, ChangeForms
<1> QED BY <1>3 DEF StrengthOver, GainsOf, LossesOf

LEMMA RSIAnswer ==
  ASSUME NEW ps, NEW P, NEW s, KeptRSI(s, ps, P)
  PROVE  IF Len(ps) >= P + 1 THEN s.ready = TRUE /\ s.value = StrengthOver(ps, P, 1)
         ELSE s.ready = FALSE
<1>1. CASE Len(ps) >= P + 1
  <2> DEFINE gain == WilderOf(GainsOf(ps, 1), P)
             loss == WilderOf(LossesOf(ps, 1), P)
             v == StrengthOver(ps, P, 1)
  <2>1. s = RSIState(TRUE, v, ps, P, gain, loss)
    BY <1>1 DEF KeptRSI, StrengthOver
  <2> HIDE DEF gain, loss, v
  <2>2. s.ready = TRUE /\ s.value = v
    BY <2>1 DEF RSIState
  <2> QED BY <1>1, <2>2 DEF v
<1>2. CASE ~(Len(ps) >= P + 1)
  BY <1>2 DEF KeptRSI, RSIState
<1> QED BY <1>1, <1>2

LEMMA RMIAnswer ==
  ASSUME NEW ps, NEW P, NEW S, NEW s, KeptRMI(s, ps, P, S)
  PROVE  IF Len(ps) >= P + S THEN s.ready = TRUE /\ s.value = StrengthOver(ps, P, S)
         ELSE s.ready = FALSE
<1>1. CASE Len(ps) >= P + S
  <2> DEFINE gain == WilderOf(GainsOf(ps, S), P)
             loss == WilderOf(LossesOf(ps, S), P)
             v == StrengthOver(ps, P, S)
  <2>1. PICK g, l : s = RMIState(TRUE, v, ps, S, g, l, gain, loss)
    BY <1>1 DEF KeptRMI, StrengthOver
  <2> HIDE DEF gain, loss, v
  <2>2. s.ready = TRUE /\ s.value = v
    BY <2>1 DEF RMIState
  <2> QED BY <1>1, <2>2 DEF v
<1>2. CASE ~(Len(ps) >= P + S)
  BY <1>2 DEF KeptRMI, RMIState
<1> QED BY <1>1, <1>2

LEMMA ATRAnswer ==
  ASSUME NEW ps, ps \in Seq(Row), NEW P, P \in Nat \ {0}, NEW s, KeptATR(s, ps, P),
         NEW n, n = Len(ps),
         NEW d, d = Stream!Frac(Stream!Total(
                      [i \in 1..P |->
                         Stream!TrueRange(ps[n - P + i], ps[(n - P + i) - 1].price)]), P)
  PROVE  Answer(s, d, Len(ps) >= P + 1)
<1> DEFINE q == RangesOf(ps)
           w == LastUpTo(q, P)
           u == [i \in 1..P |-> Stream!TrueRange(ps[n - P + i], ps[(n - P + i) - 1].price)]
           Z == Int
<1>1. /\ q \in Seq(Z) /\ Len(q) = (IF n > 1 THEN n - 1 ELSE 0) /\ n \in Nat /\ P \in Nat
      /\ \A i \in 1..n - 1 : q[i] = Stream!TrueRange(ps[i + 1], ps[i].price)
  <2>1. PICK p : p \in Row
    BY SomeRow
  <2>2. n \in Nat
    OBVIOUS
  <2> QED BY <2>1, <2>2, RangesGrow
<1>2. CASE n >= P + 1
  <2> DEFINE k == n - 1
  <2>1. k \in Nat /\ k >= P /\ n > 1
    BY <1>1, <1>2
  <2>2. Len(q) = k
    <3> HIDE DEF q
    <3> QED BY <1>1, <2>1
  <2>3. \A i \in 1..k : q[i] = Stream!TrueRange(ps[i + 1], ps[i].price)
    BY <1>1
  <2> HIDE DEF q, Z
  <2>4. IsLast(w, Z, q, k, P)
    <3> HIDE DEF k
    <3>1. IsLast(LastUpTo(q, P), Z, q, Len(q), P)
      BY <1>1, LastView
    <3> QED BY <2>2, <3>1
  <2>5. w \in Seq(Z) /\ Len(w) = P /\ \A j \in 1..P : w[j] = q[(k - P) + j]
    <3>1. (~(P < k)) => k = P
      BY <1>1, <2>1
    <3>2. P < k => ~(k <= P)
      BY <1>1, <2>1
    <3>3. \A j \in 1..P : k = P => (k - P) + j = j
      <4>1. k \in Nat /\ P \in Nat
        BY <1>1, <2>1
      <4> HIDE DEF k
      <4> QED BY ONLY <4>1
    <3> HIDE DEF w, k
    <3>4. CASE P < k
      BY <2>4, <3>2, <3>4 DEF IsLast
    <3>5. CASE ~(P < k)
      <4>1. k = P /\ k <= P
        BY <1>1, <3>1, <3>5
      <4> QED BY <2>4, <3>3, <4>1 DEF IsLast
    <3> QED BY <3>4, <3>5
  <2>6. \A j \in 1..P : w[j] = u[j]
    <3> SUFFICES ASSUME NEW j \in 1..P PROVE w[j] = u[j]
      OBVIOUS
    <3> DEFINE i == (k - P) + j
    <3>1. i \in 1..k /\ n - P + j = i + 1 /\ (n - P + j) - 1 = i
      BY <1>1, <2>1
    <3>2. u[j] = Stream!TrueRange(ps[n - P + j], ps[(n - P + j) - 1].price)
      OBVIOUS
    <3>3. w[j] = q[i]
      BY <2>5
    <3> HIDE DEF i, u, w, k
    <3>4. u[j] = Stream!TrueRange(ps[i + 1], ps[i].price)
      BY <3>1, <3>2
    <3> QED BY <2>3, <3>1, <3>3, <3>4
  <2>7. u = [j \in 1..P |-> u[j]]
    OBVIOUS
  <2>8. w = [j \in 1..P |-> w[j]]
    <3> HIDE DEF w
    <3> QED BY <2>5
  <2>9. w = u
    <3> HIDE DEF w, u
    <3> QED BY <2>6, <2>7, <2>8
  <2> DEFINE t == Stream!Total(w)
             v == Stream!Frac(t, P)
             b == PreviousOf(ps)
  <2>10. s = [ready |-> TRUE, value |-> v, previous |-> b, window |-> w, sum |-> t]
    BY <1>2 DEF KeptATR, q
  <2>11. v = d
    <3> HIDE DEF w
    <3> QED BY <2>9
  <2> HIDE DEF t, v, b, w
  <2>12. s.ready = TRUE /\ s.value = v
    BY <2>10
  <2> QED BY <1>2, <2>11, <2>12, SameAsItself DEF Answer
<1>3. CASE ~(n >= P + 1)
  <2>1. s.ready = FALSE
    BY <1>3 DEF KeptATR
  <2> QED BY <1>3, <2>1 DEF Answer
<1> QED BY <1>2, <1>3

LEMMA VWAPAnswer ==
  ASSUME NEW ps, ps \in Seq(Row), NEW P, P \in Nat \ {0}, NEW s, KeptVWAP(s, ps, P),
         NEW q, q = ClosesOf(ps), NEW recent, recent = Stream!LastOf(ps, P),
         NEW traded, traded = Stream!Total([i \in DOMAIN recent |-> recent[i].volume]),
         NEW d, d = IF traded = 0 THEN Stream!Frac(q[Len(q)], 1)
                    ELSE Stream!Frac(Stream!Total([i \in DOMAIN recent |->
                                       recent[i].price * recent[i].volume]), traded)
  PROVE  Answer(s, d, Len(ps) >= P)
<1> DEFINE n == Len(ps)
           l == LastUpTo(ps, P)
           pv == LastUpTo(TurnoverOf(ps), P)
           vol == LastUpTo(VolumesOf(ps), P)
           tp == Stream!Total(pv)
           tv == Stream!Total(vol)
           x == ps[n].price
           v == VWAPOf(tp, tv, x)
<1>1. n \in Nat /\ Len(q) = n /\ \A i \in 1..n : q[i] = ps[i].price
  BY PricesView
<1>2. CASE n >= P
  <2>1. recent = l
    BY <1>2, LastOfIsLast
  <2>2. l \in Seq(Row) /\ VolumesOf(l) = vol /\ TurnoverOf(l) = pv
    BY LastMapped
  <2> HIDE DEF l, pv, vol
  <2>3. /\ [i \in DOMAIN recent |-> recent[i].volume] = vol
        /\ [i \in DOMAIN recent |-> recent[i].price * recent[i].volume] = pv
    BY <2>1, <2>2, MappedForms
  <2>4. vol \in Seq(Nat)
    <3>1. PICK p : p \in Row
      BY SomeRow
    <3> QED BY <2>2, <3>1, VolumesGrow
  <2>5. tv \in Nat /\ traded = tv
    BY <2>3, <2>4, TotalOfNaturals
  <2>6. q[Len(q)] = x
    BY <1>1, <1>2
  <2> HIDE DEF tp, tv, x
  <2>7. d = IF tv = 0 THEN Stream!Frac(x, 1) ELSE Stream!Frac(tp, tv)
    BY <2>3, <2>5, <2>6 DEF tp
  <2>8. tv > 0 <=> tv # 0
    BY <2>5
  <2>9. v = d
    BY <2>7, <2>8 DEF VWAPOf
  <2> HIDE DEF v
  <2>10. s = [ready |-> TRUE, value |-> v, pv |-> pv, vol |-> vol, sumPv |-> tp, sumVol |-> tv]
    BY <1>2 DEF KeptVWAP, v, x, tp, tv, pv, vol
  <2>11. s.ready = TRUE /\ s.value = v
    BY <2>10
  <2> QED BY <1>2, <2>9, <2>11, SameAsItself DEF Answer
<1>3. CASE ~(n >= P)
  <2>1. s.ready = FALSE
    BY <1>3 DEF KeptVWAP
  <2> QED BY <1>3, <2>1 DEF Answer
<1> QED BY <1>2, <1>3

LEMMA NeededParts ==
  ASSUME NEW c
  PROVE  /\ c.class \in {"SMA", "EMA", "VWAP"} => Stream!Needed(c) = c.period
         /\ c.class \in {"ROC", "RSI", "ATR"} => Stream!Needed(c) = c.period + 1
         /\ c.class \in {"DMA", "RMI"} => Stream!Needed(c) = c.period + c.shift
  BY DEF Stream!Needed

LEMMA StreamIsRegistered ==
  ASSUME NEW c, NEW bars, Stream!StreamRead(c, bars)
  PROVE  /\ Registered(c) /\ bars \in Seq(Bar)
         /\ c.class = "RMI" => LET e == [c EXCEPT !.class = "RSI"]
                               IN  Registered(e) /\ e.class = "RSI" /\ e.period = c.period
<1>1. /\ c \in [class : Classes, period : Nat \ {0}, shift : Nat]
      /\ c.class = "RMI" => c.shift # 0
      /\ bars \in Seq(Bar)
  BY DEF Stream!StreamRead, Classes, Bar
<1>2. Registered(c)
  BY <1>1 DEF Registered
<1> DEFINE e == [c EXCEPT !.class = "RSI"]
<1>3. e.class = "RSI" /\ e.period = c.period /\ e.shift = c.shift
  BY <1>1
<1> HIDE DEF e
<1>4. Registered(e)
  BY <1>2, <1>3 DEF Registered, Classes
<1> QED BY <1>1, <1>2, <1>3, <1>4 DEF e

LEMMA StreamsAreExact ==
  ASSUME NEW c, NEW bars, Stream!StreamRead(c, bars)
  PROVE  Stream!Exact(c, bars)
<1> DEFINE s == Stream!After(c, bars)
           ps == Stream!Prices(bars)
           d == Stream!Defined(c, bars)
           P == c.period
           S == c.shift
           q == ClosesOf(ps)
           enough == Len(ps) >= Stream!Needed(c)
<1>1. Registered(c) /\ bars \in Seq(Bar)
  BY StreamIsRegistered
<1>2. P \in Nat \ {0} /\ S \in Nat /\ c.class \in Classes
      /\ (c.class = "RMI" => S \in Nat \ {0})
  BY <1>1 DEF Registered
<1>3. ps \in Seq(Row) /\ Kept(c, s, ps)
  BY <1>1, AfterIsKept
<1> DEFINE n == Len(ps)
           f == Stream!Momenta(ps, IF c.class = "RSI" THEN 1 ELSE S)
           recent == Stream!LastOf(ps, P)
           traded == Stream!Total([i \in DOMAIN recent |-> recent[i].volume])
<1>4. /\ c.class = "SMA" => d = Stream!Frac(Stream!Total(Stream!LastOf(q, P)), P)
      /\ c.class = "DMA" =>
           d = Stream!Frac(Stream!Total(Stream!LastOf(SubSeq(q, 1, Len(q) - S), P)), P)
      /\ c.class = "EMA" => d = Stream!Smoothed(q, P, 2, P + 1)
      /\ c.class = "ROC" =>
           d = IF q[Len(q) - P] = 0 THEN Stream!Frac(0, 1)
               ELSE Stream!Frac((q[Len(q)] - q[Len(q) - P]) * 100, q[Len(q) - P])
      /\ c.class \in {"RSI", "RMI"} =>
           d = Stream!Strength(WilderOf([i \in DOMAIN f |-> Stream!Positive(f[i])], P),
                               WilderOf([i \in DOMAIN f |-> Stream!Positive(-f[i])], P))
      /\ c.class = "ATR" =>
           d = Stream!Frac(Stream!Total(
                 [i \in 1..P |->
                    Stream!TrueRange(ps[n - P + i], ps[(n - P + i) - 1].price)]), P)
      /\ c.class = "VWAP" =>
           d = IF traded = 0 THEN Stream!Frac(q[Len(q)], 1)
               ELSE Stream!Frac(Stream!Total([i \in DOMAIN recent |->
                                  recent[i].price * recent[i].volume]), traded)
  <2> HIDE DEF ps, n
  <2>1. ps = Stream!Prices(bars) /\ n = Len(ps)
    BY DEF ps, n
  <2>2. Formulas(c, ps, n, d)
    BY <1>3, <2>1, DefinedParts
  <2> HIDE DEF d
  <2> QED BY <2>2 DEF Formulas
<1> HIDE DEF s, ps, d
<1>5. Answer(s, d, enough)
  <2>1. CASE c.class = "SMA"
    <3>1. Answer(s, d, Len(ps) >= P)
      BY <1>2, <1>3, <1>4, <2>1, SMAAnswer DEF Kept
    <3> QED BY <2>1, <3>1, NeededParts
  <2>2. CASE c.class = "DMA"
    <3>1. Answer(s, d, Len(ps) >= P + S)
      BY <1>2, <1>3, <1>4, <2>2, DMAAnswer DEF Kept
    <3> QED BY <2>2, <3>1, NeededParts
  <2>3. CASE c.class = "EMA"
    <3>1. Answer(s, d, Len(ps) >= P)
      BY <1>2, <1>3, <1>4, <2>3, EMAAnswer DEF Kept
    <3> QED BY <2>3, <3>1, NeededParts
  <2>4. CASE c.class = "ROC"
    <3>1. Answer(s, d, Len(ps) >= P + 1)
      BY <1>2, <1>3, <1>4, <2>4, ROCAnswer DEF Kept
    <3> QED BY <2>4, <3>1, NeededParts
  <2>5. CASE c.class = "RSI"
    <3>1. d = StrengthOver(ps, P, 1)
      <4> DEFINE m == 1
      <4>1. m \in Nat \ {0} /\ f = Stream!Momenta(ps, m)
        BY <2>5
      <4> HIDE DEF m, f
      <4>2. d = StrengthOver(ps, P, m)
        BY <1>3, <1>4, <2>5, <4>1, StrengthForms
      <4> QED BY <4>2 DEF m
    <3>2. KeptRSI(s, ps, P)
      BY <1>3, <2>5 DEF Kept
    <3>3. IF Len(ps) >= P + 1 THEN s.ready = TRUE /\ s.value = StrengthOver(ps, P, 1)
          ELSE s.ready = FALSE
      <4> HIDE DEF P
      <4> QED BY <3>2, RSIAnswer
    <3>4. Stream!Needed(c) = P + 1
      BY <2>5, NeededParts
    <3> QED BY <3>1, <3>3, <3>4, SameAsItself DEF Answer
  <2>6. CASE c.class = "RMI"
    <3>1. d = StrengthOver(ps, P, S)
      <4>1. f = Stream!Momenta(ps, S)
        BY <2>6
      <4> HIDE DEF f, S
      <4> QED BY <1>2, <1>3, <1>4, <2>6, <4>1, StrengthForms
    <3>2. KeptRMI(s, ps, P, S)
      BY <1>3, <2>6 DEF Kept
    <3>3. IF Len(ps) >= P + S THEN s.ready = TRUE /\ s.value = StrengthOver(ps, P, S)
          ELSE s.ready = FALSE
      <4> HIDE DEF P, S
      <4> QED BY <3>2, RMIAnswer
    <3>4. Stream!Needed(c) = P + S
      BY <2>6, NeededParts
    <3> QED BY <3>1, <3>3, <3>4, SameAsItself DEF Answer
  <2>7. CASE c.class = "ATR"
    <3>1. Answer(s, d, Len(ps) >= P + 1)
      <4>1. n = Len(ps)
        OBVIOUS
      <4> HIDE DEF n
      <4> QED BY <1>2, <1>3, <1>4, <2>7, <4>1, ATRAnswer DEF Kept
    <3> QED BY <2>7, <3>1, NeededParts
  <2>8. CASE c.class = "VWAP"
    <3>1. Answer(s, d, Len(ps) >= P)
      <4>1. /\ q = ClosesOf(ps) /\ recent = Stream!LastOf(ps, P)
            /\ traded = Stream!Total([i \in DOMAIN recent |-> recent[i].volume])
        OBVIOUS
      <4> HIDE DEF q, recent, traded
      <4> QED BY <1>2, <1>3, <1>4, <2>8, <4>1, VWAPAnswer DEF Kept
    <3> QED BY <2>8, <3>1, NeededParts
  <2> HIDE DEF enough
  <2> QED BY <1>2, <2>1, <2>2, <2>3, <2>4, <2>5, <2>6, <2>7, <2>8 DEF Classes
<1>6. s.ready = enough /\ (enough => Stream!Same(s.value, d))
  <2>1. CASE enough
    <3> HIDE DEF enough
    <3> QED BY <1>5, <2>1 DEF Answer
  <2>2. CASE ~enough
    <3>1. enough = FALSE
      BY <2>2
    <3> HIDE DEF enough
    <3> QED BY <1>5, <3>1 DEF Answer
  <2> QED BY <2>1, <2>2
<1> DEFINE e == [c EXCEPT !.class = "RSI"]
           r == Stream!After(e, bars)
<1>7. ASSUME c.class = "RMI", c.shift = 1, enough
      PROVE  Stream!Same(s.value, r.value)
  <2>1. Registered(e) /\ e.class = "RSI" /\ e.period = P
    BY <1>7, StreamIsRegistered
  <2> HIDE DEF e
  <2>2. Kept(e, r, ps)
    BY <1>1, <2>1, AfterIsKept DEF ps
  <2>3. KeptRSI(r, ps, P)
    BY <2>1, <2>2 DEF Kept
  <2>4. KeptRMI(s, ps, P, 1)
    BY <1>3, <1>7 DEF Kept
  <2>5. Len(ps) >= P + 1
    BY <1>7, NeededParts
  <2> HIDE DEF r, P
  <2>6. r.value = StrengthOver(ps, P, 1)
    BY <2>3, <2>5, RSIAnswer
  <2>7. s.value = StrengthOver(ps, P, 1)
    BY <2>4, <2>5, RMIAnswer
  <2> QED BY <2>6, <2>7, SameAsItself
<1> HIDE DEF enough, r, e
<1>8. /\ s.ready = enough /\ (enough => Stream!Same(s.value, d))
      /\ c.class = "RMI" /\ c.shift = 1 /\ enough => Stream!Same(s.value, r.value)
  BY <1>6, <1>7
<1> QED BY <1>8 DEF Stream!Exact, s, d, r, e, enough, ps

-------------------------------------------------------------------------------
(* The theorems.                                                            *)

\* A case is one of those the run takes.
Taken ==
    /\ kind = "file" => data \in Files
    /\ kind = "draft" => data \in Drafts
    /\ kind = "stream" => data \in Streams
    /\ kind = "feed" => data \in Feeds
    /\ kind = "matrix" => data \in Matrices
    /\ kind = "request" => data \in Requests
    /\ kind = "download" => data \in Downloads
    /\ kind = "store" => data \in Stores
    /\ kind = "warmup" => data \in Warmups
    /\ kind = "frame" => data \in Frames
    /\ kind = "ledger" => data \in Ledgers
    /\ kind = "curve" => data \in Curves

LEMMA TakenHolds == Spec => []Taken
<1>1. Init => Taken
  BY DEF Init, Taken
<1>2. Taken /\ [Next]_vars => Taken'
  BY DEF Taken, Next, Case, vars
<1> QED BY <1>1, <1>2, PTL DEF Spec

\* What the API accepts runs as it was submitted: the three layers of checks agree.
THEOREM RequestsRunAsSubmitted == Spec => []RunAsSubmitted
<1>1. Taken => RunAsSubmitted
  BY AcceptedIsRun DEF Taken, RunAsSubmitted
<1> QED BY <1>1, TakenHolds, PTL

\* A file that checks clean is taken with the class that was shown, and loads as that
\* class unless its import fails or a name stands for something else than it says.
THEOREM CheckedFilesAreAccepted == Spec => []CheckedIsAccepted
<1>1. Taken => CheckedIsAccepted
  BY FilesAgree, DraftsAgree, FilesAreRead DEF Taken, CheckedIsAccepted
<1> QED BY <1>1, TakenHolds, PTL

\* What fast mode holds and books on a day is what a run that ended then would, while
\* trend_rotate would group its columns as the whole run does.
THEOREM FastModeIsCausal == Spec => []NoLookAhead
<1>1. Taken => NoLookAhead
  BY FastIsCausal, MatricesAreRead DEF Taken, NoLookAhead
<1> QED BY <1>1, TakenHolds, PTL

\* A run on intraday bars gets every day of its windows, warms up on enough of them and
\* reads no bar before it is over, whatever the sizes, the days and the rows.
THEOREM IntradayRunsAreWhole == Spec => []IntradayIsWhole
<1>1. Taken => IntradayIsWhole
  BY EveryDayIsServed, StoresDoNotLookAhead, WarmupsCover, DownloadsAreRead, StoresAreRead,
     WarmupsAreRead
     DEF Taken, IntradayIsWhole
<1> QED BY <1>1, TakenHolds, PTL

\* The indicators lose no bar, get none out of order and none but the first poll's
\* twice, and are never behind the context the strategy sees.
THEOREM FeedsAreFaithful == Spec => []FeedIsFaithful
<1>1. Taken => FeedIsFaithful
  BY FeedIsKept, FeedsAreRead DEF Taken, FeedIsFaithful
<1> QED BY <1>1, TakenHolds, PTL

\* An indicator is ready after as many priced bars as its class needs, and its running
\* value is then the one the class defines over the whole history: the bounded windows,
\* the running sums and the smoothed averages lose nothing, whatever bars are missing.
THEOREM IndicatorsAreExactAlways == Spec => []IndicatorsAreExact
<1>1. Taken => IndicatorsAreExact
  BY StreamsAreExact, StreamsAreRead DEF Taken, IndicatorsAreExact
<1> QED BY <1>1, TakenHolds, PTL

\* A report says what the run did: its benchmark holds what it bought, its replay is the
\* account at every minute whose last row prices what is held, and its curve shows every
\* sample in order and its worst loss.
THEOREM ReportsAreExact == Spec => []ReportIsExact
<1>1. Taken => ReportIsExact
  BY BenchmarkHolds, ReplaysAgree, CurveShowsTheRun, ReportsAreRead DEF Taken, ReportIsExact
<1> QED BY <1>1, TakenHolds, PTL
===============================================================================

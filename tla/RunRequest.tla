------------------------------ MODULE RunRequest ------------------------------
(***************************************************************************)
(* From the form to the engine: what the API makes of a submitted run      *)
(* (services/backtests.py, services/run_controls.py), what is stored, what *)
(* the worker builds from it (workers/run_job.py) and what the engine      *)
(* refuses (engine/run_single.py).  The same rules stand in three layers,  *)
(* each written for itself.                                                *)
(*                                                                         *)
(* A request is a record; a field the client left out is Absent and one of *)
(* the wrong type Malformed.  Days are numbers, weights and thresholds     *)
(* integers in units of 1 / Unit, a parameter value a kind and a number of *)
(* tenths.  Registry maps a strategy key to its row: [enabled, packaged,   *)
(* universe, specs, class, config], config being its config.json.           *)
(***************************************************************************)
EXTENDS Integers, Sequences, FiniteSets, Functions

CONSTANTS
    Absent, Malformed,
    Symbols,         \* what the ticker pattern matches
    Registry,
    Coverage,        \* ticker -> <<first, last>> day with prices
    Day0,            \* the weekday of day 0 is a Monday when 0
    NameLimit, MaxWindow, MaxBars, MaxTickers, Unit,
    ValidationDays,  \* VALIDATION_WINDOW_DAYS
    RunModes,        \* what the API accepts
    NewsConfigured,  \* settings.news_database_configured
    Adapted         \* the classes with a vectorised adapter

I == INSTANCE Intraday

DailyBar == 86400

BarSeconds == {60, 300, 900, 1800, 3600, DailyBar}

(* is_intraday, for a supported size.                                      *)
IsIntraday(seconds) == seconds \div 60 < I!SessionMinutes

WeightSum(w, tickers) == SumFunctionOnSet(w, tickers)

InRange(v, low, high) == v # Malformed /\ low <= v /\ v <= high

Min1(S) == CHOOSE x \in S : \A y \in S : x <= y
Max1(S) == CHOOSE x \in S : \A y \in S : y <= x

----------------------------------------------------------------------------
(* split_controls: the controls of a request, each checked by itself.      *)

(* The tickers, in the order of the form; the strategy's when left out.    *)
Universe(r) ==
    IF r.universe = Absent THEN Registry[r.strategy].universe ELSE r.universe

UniverseAccepted(r) ==
    r.universe # Absent =>
        /\ r.universe # Malformed /\ Len(r.universe) \in 1..MaxTickers
        /\ Range(r.universe) \subseteq Symbols /\ IsInjective(r.universe)

(* Every ticker once, nothing negative, something, and no leverage.        *)
WeightsAccepted(r) ==
    r.weights # Absent =>
        /\ r.weights # Malformed
        /\ \A t \in DOMAIN r.weights : r.weights[t] # Malformed /\ r.weights[t] >= 0
        /\ DOMAIN r.weights = Range(Universe(r))
        /\ WeightSum(r.weights, DOMAIN r.weights) \in 1..Unit

CostsAccepted(r) ==
    /\ r.slippageBps # Absent => InRange(r.slippageBps, 0, 1000)
    /\ r.commission # Absent => InRange(r.commission, 0, 100)
    /\ r.mode = "fast" => r.commission \in {Absent, 0}

IntervalAccepted(r) ==
    r.interval # Absent =>
        /\ r.interval # Malformed /\ r.interval \in BarSeconds
        /\ IsIntraday(r.interval) => r.mode # "fast"

GateAccepted(r) ==
    r.gate # Absent =>
        /\ r.gate # Malformed
        /\ r.gate.enabled => /\ InRange(r.gate.threshold, -Unit, 0)
                             /\ r.mode # "fast" /\ NewsConfigured

ControlsAccepted(r) ==
    /\ UniverseAccepted(r) /\ WeightsAccepted(r) /\ CostsAccepted(r)
    /\ IntervalAccepted(r) /\ ~r.signals /\ GateAccepted(r)

(* Mutant of Overlay: the weights of the form only.                        *)
Overlay_FormWeights(r) ==
    LET intraday == r.interval # Absent /\ IsIntraday(r.interval)
    IN  [ tickers |-> Universe(r), weights |-> r.weights,
          bar |-> IF intraday THEN r.interval ELSE Absent,
          poll |-> IF intraday THEN 0 ELSE Absent, lookback |-> Absent ]

(* The keys laid over config.json, the controls over the parameters.  Equal*)
(* weights when the universe is another one, the strategy's own when it is *)
(* the same set; every bar of an intraday run is decided on.               *)
Param(r, k) == IF k \in DOMAIN r.params THEN r.params[k].tenths \div 10 ELSE Absent

EqualWeights(u) == [t \in Range(u) |-> Unit \div Len(u)]

Overlay(r) ==
    LET u == Universe(r)
        changed == Range(u) # Range(Registry[r.strategy].universe)
        intraday == r.interval # Absent /\ IsIntraday(r.interval)
    IN  [ tickers  |-> IF r.weights # Absent \/ changed THEN u ELSE Absent,
          weights  |-> IF r.weights # Absent THEN r.weights
                       ELSE IF changed THEN EqualWeights(u) ELSE Absent,
          bar      |-> IF intraday THEN r.interval ELSE Absent,
          poll     |-> IF intraday THEN 0 ELSE Param(r, "INTERVAL"),
          lookback |-> Param(r, "LOOKBACK_DAYS") ]

----------------------------------------------------------------------------
(* submit_backtest_run: the other checks.                                  *)

NameAccepted(r) == r.name \in 1..NameLimit   \* its length without spaces around

StrategyAccepted(r) ==
    /\ r.strategy \in DOMAIN Registry
    /\ Registry[r.strategy].enabled /\ Registry[r.strategy].packaged

WindowAccepted(r) ==
    /\ r.start # Malformed /\ r.end # Malformed
    /\ r.start < r.end /\ r.end - r.start <= MaxWindow

CapitalAccepted(r) == r.capital # Malformed /\ r.capital > 0

ModeAccepted(r) == r.mode \in RunModes

(* The parameters, LOOKBACK_DAYS of an upload and INTERVAL too of a        *)
(* built-in one, against the specs of the row: first its type, then its    *)
(* range.                                                                  *)
ParamAccepted(v, spec) ==
    /\ spec.type = "boolean" => v.kind = "boolean"
    /\ spec.type # "boolean" =>
          /\ v.kind = "number"
          /\ spec.type = "integer" => v.tenths % 10 = 0
          /\ spec.min # Absent => v.tenths >= 10 * spec.min
          /\ spec.max # Absent => v.tenths <= 10 * spec.max

ParamsAccepted(r) ==
    \A k \in DOMAIN r.params :
        /\ k \in DOMAIN Registry[r.strategy].specs
        /\ ParamAccepted(r.params[k], Registry[r.strategy].specs[k])

(* The engine's estimate, without the lookback it will add.                *)
Bars(tickers, first, last, seconds) ==
    I!EstimateBars(tickers, first + Day0, last + Day0, seconds \div 60)

SizeAccepted(r) ==
    Overlay(r).bar # Absent =>
        Bars(Len(Universe(r)), r.start, r.end, Overlay(r).bar) <= MaxBars

(* coverage_for: the days that all tickers have prices for, when each has  *)
(* some and they overlap.                                                  *)
Shared(tickers) ==
    {w \in {Coverage[t][1] : t \in tickers \intersect DOMAIN Coverage}
             \X {Coverage[t][2] : t \in tickers \intersect DOMAIN Coverage} :
        /\ tickers \subseteq DOMAIN Coverage /\ w[1] <= w[2]
        /\ \A t \in tickers : Coverage[t][1] <= w[1] /\ w[2] <= Coverage[t][2]}

CoverageAccepted(r) ==
    LET u == Range(Universe(r))
    IN  u # {} => \E w \in Shared(u) : w[1] <= r.start /\ r.end <= w[2]

(* latest_market_data_date: the earliest of the tickers' last days.        *)
LatestDate(tickers) == Min1({Coverage[t][2] : t \in tickers})

(* validation_window, of an upload's tickers, all of which have prices.    *)
ValidationWindow(tickers, source) ==
    LET last == LatestDate(tickers)
        first == last - ValidationDays
    IN  IF source = "fmp"
        THEN <<Max1({first} \union {Coverage[t][1] : t \in tickers}), last>>
        ELSE <<first, last>>

Accepted(r) ==
    /\ NameAccepted(r) /\ StrategyAccepted(r) /\ WindowAccepted(r)
    /\ CapitalAccepted(r) /\ ModeAccepted(r) /\ ControlsAccepted(r)
    /\ ParamsAccepted(r) /\ SizeAccepted(r) /\ CoverageAccepted(r)

----------------------------------------------------------------------------
(* The row and the run built from it.                                      *)

(* stored_timeframe, of the row: daily for a run that names no bar size.   *)
Timeframe(r) == IF r.interval = Absent THEN DailyBar ELSE r.interval

(* _build_request: the engine's units, and the gate only when it is on.    *)
Built(r) ==
    [ class      |-> Registry[r.strategy].class,
      config     |-> Registry[r.strategy].config,
      start      |-> r.start,
      end        |-> r.end,
      capital    |-> r.capital,
      mode       |-> r.mode,
      slippage   |-> IF r.slippageBps = Absent THEN 0 ELSE r.slippageBps,  \* of 10000
      commission |-> IF r.commission = Absent THEN 0 ELSE r.commission,
      gate       |-> IF r.gate # Absent /\ r.gate.enabled
                     THEN [threshold |-> r.gate.threshold, tickers |-> Range(Universe(r))]
                     ELSE Absent,
      overlay    |-> Overlay(r) ]

(* _strategy_config: config.json with the overlay laid over it.            *)
Or(a, b) == IF a = Absent THEN b ELSE a

Merged(run) == [k \in DOMAIN run.config |-> Or(run.overlay[k], run.config[k])]

(* What BasePortfolio reads for a key that is in neither.                  *)
Config(run) ==
    LET c == Merged(run)
    IN  [c EXCEPT !.bar = Or(@, DailyBar), !.poll = Or(@, 60), !.lookback = Or(@, 30)]

(* benchmark_weights of a mapping: what is not named stays in cash, what   *)
(* is not in the universe is ignored, equal shares when there are none.    *)
BenchmarkWeights(config) ==
    LET u == Range(config.tickers)
    IN  IF config.weights = Absent THEN EqualWeights(config.tickers)
        ELSE [t \in u |-> IF t \in DOMAIN config.weights THEN config.weights[t] ELSE 0]

(* _reject_unsupported_bar_interval: the overlay's bar size and the mode.  *)
IntervalRefused(run) ==
    /\ run.overlay.bar # Absent
    /\ run.overlay.bar \in BarSeconds => IsIntraday(run.overlay.bar) /\ run.mode = "fast"

(* _reject_oversized_intraday_window: the lookback counts here.            *)
SizeRefused(run) ==
    LET c == Config(run)
    IN  /\ IsIntraday(c.bar)
        /\ Bars(Len(c.tickers), run.start - c.lookback, run.end, c.bar) > MaxBars

(* _reject_unsupported_fast_mode.                                          *)
FastRefused(run) == run.mode = "fast" /\ run.class \notin Adapted

(* run_single's refusals, in the order it looks.                           *)
Refusal(run) ==
    IF run.mode \notin {"event", "fast"} THEN "mode"
    ELSE IF run.slippage < 0 \/ run.slippage >= 10000 THEN "slippage"
    ELSE IF run.commission < 0 \/ (run.mode = "fast" /\ run.commission # 0) THEN "commission"
    ELSE IF run.mode = "fast" /\ run.gate # Absent THEN "gate"
    ELSE IF IntervalRefused(run) \/ Config(run).bar \notin BarSeconds THEN "interval"
    ELSE IF SizeRefused(run) THEN "size"
    ELSE IF FastRefused(run) THEN "adapter"
    ELSE "none"

(* _market_data_resolution, as a bar size.                                 *)
Resolution(run) ==
    IF run.mode = "fast" \/ ~IsIntraday(Config(run).bar) THEN DailyBar ELSE Config(run).bar

----------------------------------------------------------------------------
(* What registering a strategy leaves in its row: the universe is the      *)
(* tickers of its config.json, each once; config.json gives weights of     *)
(* those tickers, or none, and never a bar size.                           *)
Registered(row) ==
    /\ row.universe # Absent /\ row.universe \in Seq(Range(row.universe))
    /\ IsInjective(row.universe)
    /\ DOMAIN row.config = {"tickers", "weights", "bar", "poll", "lookback"}
    /\ row.config.tickers = row.universe /\ row.config.bar = Absent
    /\ row.config.weights # Absent =>
          /\ row.config.weights \in [DOMAIN row.config.weights -> Nat]
          /\ DOMAIN row.config.weights \subseteq Range(row.universe)
          /\ WeightSum(row.config.weights, DOMAIN row.config.weights) \in 0..Unit

(* What the schema of a request makes of its fields.                       *)
Parsed(r) ==
    /\ r.start \in Int \union {Malformed} /\ r.end \in Int \union {Malformed}
    /\ {r.slippageBps, r.commission} \subseteq Int \union {Absent, Malformed}
    /\ r.universe \notin {Absent, Malformed} => r.universe \in Seq(Range(r.universe))
    /\ r.weights \notin {Absent, Malformed} =>
          r.weights \in [DOMAIN r.weights -> Int \union {Malformed}]

----------------------------------------------------------------------------
(* What the API accepts, the engine runs: it refuses nothing but an        *)
(* intraday window that only the strategy's lookback makes too large.  It  *)
(* trades the tickers and the window the prices were looked up for, with   *)
(* weights that name no other ticker and add up to no more than the        *)
(* capital, and the gate reads the news of every ticker it may refuse; a   *)
(* run whose bar size was chosen is reported at that bar size; and a       *)
(* validation run of the same tickers ends on the last day they share.     *)
RunAsSubmitted(r) ==
    Accepted(r) =>
        LET run == Built(r)
            c == Config(run)
            w == BenchmarkWeights(c)
        IN  /\ \/ Refusal(run) = "none"
               \/ /\ Refusal(run) = "size"
                  /\ Bars(Len(c.tickers), r.start, r.end, c.bar) <= MaxBars
            /\ Range(c.tickers) = Range(Universe(r)) /\ IsInjective(c.tickers)
            /\ \A t \in Range(c.tickers) :
                  Coverage[t][1] <= run.start /\ run.end <= Coverage[t][2]
            /\ \A t \in DOMAIN w : w[t] >= 0
            /\ WeightSum(w, DOMAIN w) <= Unit
            /\ r.weights # Absent => w = r.weights
            /\ c.weights # run.config.weights => \A t \in DOMAIN w : w[t] > 0 \/ r.weights # Absent
            /\ c.weights # Absent => DOMAIN c.weights \subseteq Range(c.tickers)
            /\ run.gate # Absent => run.gate.tickers = Range(c.tickers)
            /\ r.interval # Absent => Resolution(run) = Timeframe(r)
            /\ IsIntraday(c.bar) /\ r.interval # Absent => c.poll = 0
            /\ \A shared \in Shared(Range(c.tickers)), source \in {"fmp", "database"} :
                  LET v == ValidationWindow(Range(c.tickers), source)
                  IN  v[2] = shared[2] /\ (source = "fmp" => shared[1] <= v[1] /\ v[1] <= v[2])
=============================================================================

------------------------------- MODULE Backtest -------------------------------
(***************************************************************************)
(* One event-mode backtest: the runner's loop over bars (engine/core/      *)
(* runner.py), the orders a strategy places through its StrategyContext    *)
(* (engine/strategies/order_interface.py), the sentiment gate (engine/     *)
(* core/sentiment_gate.py), the account of Executor, and the report built  *)
(* from its fills and samples (run_single.py, workers/report_job.py,       *)
(* services/trade_pairing.py).                                             *)
(*                                                                         *)
(* The strategy is arbitrary: in OnData it may place any order of Orders,  *)
(* any number of times up to MaxOrders, or raise.  It sees the equity of   *)
(* the start of the bar for all its orders (StrategyContext.Portfolio).    *)
(***************************************************************************)
EXTENDS Executor, TradePairing

CONSTANTS
    Prices,        \* the closes a bar may carry
    Gaps,          \* the distances between two bars
    PollInterval,  \* portfolio.poll_interval
    DayLength,
    EndTime,       \* the last moment of the run's last date; its first is 0
    MaxBars,       \* bound: bars in the run
    MaxOrders,     \* bound: orders placed in one OnData
    Allocation,    \* the configured WEIGHTS, numerators over WDen
    TargetWeights, \* the weights a strategy asks for, numerators over WDen
    Confidences,   \* numerators over CDen
    Articles,      \* the scored news: [ticker, published, score]
    Threshold,     \* the gate's threshold, at most 0
    Window, Embargo, \* SENTIMENT_WINDOW, VENDOR_TIMEZONE_EMBARGO
    UtcOffset      \* exchange time to UTC, at most the embargo

ASSUME RunAssumption ==
    /\ Prices \subseteq Nat \ {0} /\ Gaps \subseteq Nat \ {0}
    /\ PollInterval \in Nat /\ DayLength \in Nat \ {0} /\ EndTime \in Nat
    /\ MaxBars \in Nat /\ MaxOrders \in Nat
    /\ Allocation \in [Tickers -> Nat] /\ TargetWeights \subseteq Int
    /\ Confidences \subseteq 0..CDen
    /\ Articles \subseteq [ticker : Tickers, published : Int, score : Int]
    /\ Threshold \in Int /\ Threshold <= 0
    /\ Window \in Nat /\ Embargo \in Nat /\ UtcOffset \in 0..Embargo

VARIABLES
    closes,       \* the last close in the strategy's history, 0 for none
    now,          \* the bar's timestamp
    bars,         \* how many bars the loop has taken
    last_poll,    \* last_poll_time, -1 before the first poll
    phase,        \* "loop", "OnData", or how run_single ended
    port,         \* Portfolio.total_value of the current StrategyContext
    placed,       \* orders of this OnData
    perf_records, \* [time, value]
    final_prices

vars == <<account, closes, now, bars, last_poll, phase, port, placed, perf_records, final_prices>>

loopVars == <<closes, now, bars, last_poll>>

TypeOK ==
    /\ AccountTypeOK
    /\ closes \in [Tickers -> Nat]
    /\ now \in Nat /\ bars \in Nat /\ last_poll \in Nat \union {-1}
    /\ phase \in {"loop", "OnData", "completed", "cancelled", "failed"}
    /\ port \in Int /\ placed \in Nat
    /\ perf_records \in Seq([time : Nat, value : Int])
    /\ final_prices \in [Tickers -> Nat]

-------------------------------------------------------------------------------
(* The sentiment gate.                                                      *)

\* Mutant: the query starts at the window's own length.
Loaded_NoEmbargo == {a \in Articles : -Window <= a.published /\ a.published <= EndTime + Embargo}

\* load_sentiment_gate: the articles the worker reads before the run.
Loaded ==
    {a \in Articles : -(Window + Embargo) <= a.published /\ a.published <= EndTime + Embargo}

\* The articles that count at a moment of exchange time.
Available(articles, t, moment) ==
    LET utc == moment + UtcOffset
    IN  {a \in articles : /\ a.ticker = t
                          /\ utc - Window <= a.published + Embargo
                          /\ a.published + Embargo < utc}

\* score_at is below the threshold: the mean of the scores, and 0, which is not
\* below it, for no article.
MeanBelow(articles) ==
    SumFunction([a \in articles |-> a.score]) < Threshold * Cardinality(articles)

\* blocks_long_entry
Blocks(articles, t, moment) == MeanBelow(Available(articles, t, moment))

Shut(moment) == {t \in Tickers : Blocks(Loaded, t, moment)}

-------------------------------------------------------------------------------
(* The event loop.                                                          *)

\* _record_performance
Record(time, prices) ==
    /\ perf_records' = Append(perf_records, [time |-> time, value |-> Equity(prices)])
    /\ final_prices' = prices

\* One timestamp group: the closes it carries, then the poll gate.
Bar ==
    /\ phase = "loop" /\ bars < MaxBars
    /\ \E gap \in Gaps, chunk \in (SUBSET Tickers) \ {{}} : \E close \in [chunk -> Prices] :
        LET time   == IF bars = 0 THEN 0 ELSE now + gap
            prices == [t \in Tickers |-> IF t \in chunk THEN close[t] ELSE latest_prices[t]]
            skip   == last_poll # -1 /\ time - last_poll < PollInterval
        IN  /\ time <= EndTime
            /\ now' = time /\ bars' = bars + 1
            /\ latest_prices' = prices
            /\ closes' = [t \in Tickers |-> IF t \in chunk THEN close[t] ELSE closes[t]]
            /\ last_poll' = IF skip THEN last_poll ELSE time
            /\ phase' = IF skip THEN "loop" ELSE "OnData"
            /\ port' = IF skip THEN port ELSE Equity(prices)
            /\ placed' = 0
    /\ UNCHANGED <<cash, positions, trade_log, blocked_entry_count, perf_records, final_prices>>

\* _place: no close, no order.  A close that has left the strategy's lookback
\* window is an order the strategy does not place.
Place(t, weight, confidence, explicit) ==
    /\ phase = "OnData" /\ placed < MaxOrders
    /\ closes[t] > 0
    /\ ExecuteTrade([ticker |-> t, weight |-> weight, confidence |-> confidence,
                     explicit |-> explicit, arrival |-> closes[t]], port, Shut(now))
    /\ placed' = placed + 1
    /\ UNCHANGED <<loopVars, phase, port, perf_records, final_prices>>

buy(t, confidence) == Place(t, Allocation[t], confidence, TRUE)

sell(t, confidence) == positions[t] > 0 /\ Place(t, 0, confidence, TRUE)

target_weight(t, weight, confidence) == Place(t, weight, confidence, TRUE)

close_position(t, confidence) == Place(t, 0, confidence, TRUE)

execute(t, side, weight, confidence) ==
    Place(t, LegacyWeight(side, weight), confidence, FALSE)

\* OnData returned.
Sampled ==
    /\ phase = "OnData"
    /\ Record(now, latest_prices)
    /\ phase' = "loop"
    /\ UNCHANGED <<account, loopVars, port, placed>>

\* The strategy raises, which strict mode re-raises: the run has failed.
StrategyRaises ==
    /\ phase = "OnData"
    /\ phase' = "failed"
    /\ UNCHANGED <<account, loopVars, port, placed, perf_records, final_prices>>

\* should_cancel answers TRUE, before a bar or before the data load.
Cancelled ==
    /\ phase = "loop"
    /\ phase' = "cancelled"
    /\ UNCHANGED <<account, loopVars, port, placed, perf_records, final_prices>>

\* Mutant: the curve is not closed on the last bar.
Finish_OpenCurve ==
    /\ phase = "loop" /\ bars > 0
    /\ phase' = "completed"
    /\ UNCHANGED <<account, loopVars, port, placed, perf_records, final_prices>>

\* The data ends: the curve is closed on the last bar, and run_single returns.
Finish ==
    /\ phase = "loop" /\ bars > 0
    /\ IF perf_records[Len(perf_records)].time # now THEN Record(now, latest_prices)
       ELSE UNCHANGED <<perf_records, final_prices>>
    /\ phase' = "completed"
    /\ UNCHANGED <<account, loopVars, port, placed>>

\* No bar on or after the start date.
NoMarketData ==
    /\ phase = "loop" /\ bars = 0
    /\ phase' = "failed"
    /\ UNCHANGED <<account, loopVars, port, placed, perf_records, final_prices>>

\* The bars before the first date fill the strategy's history, not the account.
Init ==
    /\ InitAccount
    /\ closes \in [Tickers -> Prices \union {0}]
    /\ now = 0 /\ bars = 0 /\ last_poll = -1 /\ phase = "loop"
    /\ port = 0 /\ placed = 0 /\ perf_records = <<>>
    /\ final_prices = [t \in Tickers |-> 0]

OnData ==
    \E t \in Tickers, c \in Confidences :
        \/ buy(t, c) \/ sell(t, c) \/ close_position(t, c)
        \/ \E w \in TargetWeights : target_weight(t, w, c)
        \/ \E w \in TargetWeights, side \in {"BUY", "SELL"} : execute(t, side, w, c)

Next == Bar \/ OnData \/ Sampled \/ StrategyRaises \/ Cancelled \/ Finish \/ NoMarketData

Spec == Init /\ [][Next]_vars

-------------------------------------------------------------------------------
(* The report (build_report, _equity_rows, open_positions).                 *)

Day(time) == time \div DayLength

\* _equity_curve: the capital before trading, on the date of the first sample.
Curve == <<[time |-> perf_records[1].time, value |-> Capital]>> \o perf_records

\* One row per day, the day's last sample.
EquityRows ==
    [d \in {Day(Curve[i].time) : i \in DOMAIN Curve} |->
        Curve[Max({i \in DOMAIN Curve : Day(Curve[i].time) = d})].value]

Trades == pair_fills(trade_log)

\* open_positions for one open lot: no mark, no unrealised profit.
UnrealizedPnl(row) ==
    IF row.closed \/ final_prices[row.ticker] = 0 THEN 0
    ELSE row.direction * (final_prices[row.ticker] - row.entry) * row.quantity

-------------------------------------------------------------------------------
(* Properties.                                                              *)

\* An order never takes the cash below zero, whatever it costs in slippage and
\* fees and although the strategy sizes from the equity it was shown at the start
\* of the bar (default_trade_size, _commission_quantity_limit).
CashNonNegative == cash >= 0

\* The trade table and the account tell the same story: the open lots are the
\* positions, and capital, realised and unrealised profit less fees is the equity
\* (pair_fills against execute_trade).  Lots of a ticker close in the order they
\* opened.
EquityExplained ==
    LET Unrealised(row) ==
            IF row.closed THEN 0
            ELSE row.direction * (latest_prices[row.ticker] - row.entry) * row.quantity
        rows == Trades
        Sum(Value(_)) == SumFunction([i \in DOMAIN rows |-> Value(rows[i])])
    IN  /\ \A t \in Tickers :
             positions[t] = Sum(LAMBDA r : IF r.ticker = t /\ ~r.closed
                                           THEN r.direction * r.quantity ELSE 0)
        /\ Equity(latest_prices) =
             Capital + Sum(LAMBDA r : r.pnl) + Sum(Unrealised) - Sum(LAMBDA r : r.fees)
        /\ \A i, k \in DOMAIN rows :
             i < k /\ rows[i].ticker = rows[k].ticker => rows[i].opened <= rows[k].opened

\* The stored daily curve ends at the final equity the engine reports, so a
\* completed run is never refused by the report's own consistency check; and that is
\* the equity at the marks of the last bar, whether it was a poll or not.
ReportConsistent ==
    phase = "completed" =>
        /\ EquityRows[Max(DOMAIN EquityRows)] = Equity(final_prices)
        /\ Equity(final_prices) = Equity(latest_prices)

\* The gate decides from the articles the worker loaded as it would from all.
GateSeesEveryArticle ==
    \A t \in Tickers : Blocks(Loaded, t, now) = Blocks(Articles, t, now)

\* "a gated ticker can never end the trade longer than it started": no order
\* raises a gated ticker above its long, and a short is at most covered.
GateHolds ==
    [][\A t \in Shut(now) : positions'[t] <= Larger(positions[t], 0)]_vars

\* The fees of the order that is placed, if it filled.
OrderFees == IF trade_log' = trade_log THEN 0 ELSE trade_log'[Len(trade_log')].fees

\* However many orders are sized from the equity of the start of the bar, no order
\* takes the gross exposure above the leverage on that equity less what it pays in
\* fees, save by its own slippage; not even one that closes a holding whose margin
\* is less than the fees (_calculate_buying_power, _commission_quantity_limit), when
\* every ticker is marked at the close the strategy saw.
MarginRespected ==
    [][phase = "OnData" /\ phase' = "OnData" /\ closes = latest_prices =>
         LET slippage == Equity(latest_prices) - Equity(latest_prices)' - OrderFees
         IN  GrossExposure' + Leverage * OrderFees
               <= Larger(GrossExposure, Leverage * port) + slippage]_vars

\* "final equity = capital + realized P&L + open-position P&L - fees"
\* (docs/VERIFICATION.md).
ReportAddsUp ==
    phase = "completed" =>
        LET rows == Trades
            Sum(Value(_)) == SumFunction([i \in DOMAIN rows |-> Value(rows[i])])
        IN  perf_records[Len(perf_records)].value =
              Capital + Sum(LAMBDA r : r.pnl) + Sum(UnrealizedPnl) - Sum(LAMBDA r : r.fees)
===============================================================================

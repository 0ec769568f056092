------------------------------- MODULE Executor -------------------------------
(***************************************************************************)
(* The simulated broker of a backtest (engine/core/executor.py): one       *)
(* margin account over all tickers, the sizing of an order and its         *)
(* settlement.  Money is integral.  A weight is a numerator over WDen and  *)
(* a confidence one over CDen, so a notional that was multiplied by both   *)
(* is held in units of 1/(WDen * CDen), and math.floor is \div.            *)
(*                                                                         *)
(* An order names the exposure to end at: its weight is signed, and when   *)
(* explicit is FALSE (StrategyContext.execute) it came from LegacyWeight.  *)
(* Its arrival price is the close the strategy saw, which differs from the *)
(* executor's own mark while the ticker has had no bar inside the run.     *)
(***************************************************************************)
EXTENDS Integers, Sequences, FiniteSets, FiniteSetsExt

CONSTANTS
    Tickers,
    Capital,            \* initial_capital
    Leverage,           \* 2 in the code
    SlipNum, SlipDen,   \* slippage = SlipNum / SlipDen, below 1
    Fee,                \* commission_per_share
    WDen, CDen

ASSUME AccountAssumption ==
    /\ IsFiniteSet(Tickers) /\ Capital \in Nat /\ Fee \in Nat
    /\ Leverage \in Nat \ {0} /\ WDen \in Nat \ {0} /\ CDen \in Nat \ {0}
    /\ SlipDen \in Nat \ {0} /\ SlipNum \in 0..SlipDen - 1
    /\ Tickers # {} /\ WDen % Cardinality(Tickers) = 0

VARIABLES
    cash, positions, latest_prices,
    trade_log,          \* the fills, in the order they settled
    blocked_entry_count \* sizing calls the sentiment gate reduced

account == <<cash, positions, latest_prices, trade_log, blocked_entry_count>>

Fills  == [ticker : Tickers, side : {"BUY", "SELL"}, shares : Nat, price : Nat, fees : Nat]

AccountTypeOK ==
    /\ cash \in Int
    /\ positions \in [Tickers -> Int]
    /\ latest_prices \in [Tickers -> Nat]
    /\ trade_log \in Seq(Fills)
    /\ blocked_entry_count \in Nat

InitAccount ==
    /\ cash = Capital
    /\ positions = [t \in Tickers |-> 0]
    /\ latest_prices = [t \in Tickers |-> 0]
    /\ trade_log = <<>>
    /\ blocked_entry_count = 0

-------------------------------------------------------------------------------
Larger(a, b)  == IF a > b THEN a ELSE b
Smaller(a, b) == IF a < b THEN a ELSE b
Magnitude(a)  == IF a < 0 THEN -a ELSE a

\* get_port_notional
Equity(prices) == cash + SumFunction([t \in Tickers |-> positions[t] * prices[t]])

GrossExposure == SumFunction([t \in Tickers |-> Magnitude(positions[t] * latest_prices[t])])

\* _calculate_buying_power
BuyingPower(equity) == Larger(0, equity * Leverage - GrossExposure)

\* _apply_slippage; run_single never configures a cost model.
ExecPrice(price, side) ==
    (price * (IF side = "BUY" THEN SlipDen + SlipNum ELSE SlipDen - SlipNum)) \div SlipDen

\* Mutant: the fee of the shares that are bought is not reserved in cash.
QuantityLimit_CashWithoutFee(price, side, equity, held) ==
    LET closing == Larger(0, IF side = "BUY" THEN -held ELSE held)
        power   == BuyingPower(equity)
        margin  == (power + 2 * closing * price) \div (price + Leverage * Fee)
    IN  IF side = "BUY" THEN Smaller(margin, Larger(0, cash) \div price) ELSE margin

\* Mutant: closing is taken to release margin even when its fees cost more.
QuantityLimit_ClosingIsFree(price, side, equity, held) ==
    LET closing == Larger(0, IF side = "BUY" THEN -held ELSE held)
        margin  == (BuyingPower(equity) + 2 * closing * price) \div (price + Leverage * Fee)
    IN  CASE side = "BUY" -> Smaller(margin, Larger(0, cash) \div (price + Fee))
          [] side = "SELL" /\ Fee > price -> Smaller(margin, Larger(0, cash) \div (Fee - price))
          [] OTHER -> margin

\* _commission_quantity_limit: closing exposure releases margin, and a fee costs
\* its leverage in buying power.
QuantityLimit(price, side, equity, held) ==
    LET closing == Larger(0, IF side = "BUY" THEN -held ELSE held)
        power   == BuyingPower(equity)
        closingCost == Leverage * Fee - price
        margin  == IF closingCost > 0 /\ closing * closingCost > power
                   THEN power \div closingCost
                   ELSE (power + 2 * closing * price) \div (price + Leverage * Fee)
    IN  CASE side = "BUY" -> Smaller(margin, Larger(0, cash) \div (price + Fee))
          [] side = "SELL" /\ Fee > price -> Smaller(margin, Larger(0, cash) \div (Fee - price))
          [] OTHER -> margin

\* The equal-weight fallback of default_trade_size, and the sign of a SELL.
LegacyWeight(side, ticker_weight) ==
    LET weight == IF ticker_weight = 0 THEN WDen \div Cardinality(Tickers) ELSE ticker_weight
    IN  IF side = "BUY" THEN weight ELSE -weight

Holding(t, price) == positions[t] * price * WDen

Wanted(o, port) == port * o.weight

\* Mutant: the gate lets a cover run on into a long.
GateCeiling_Uncapped(o) == Magnitude(Holding(o.ticker, o.arrival))

\* The ceiling of a gated ticker: the current long, or flat when short.
GateCeiling(o) == Larger(Holding(o.ticker, o.arrival), 0)

Gated(o, port, shut) == o.ticker \in shut /\ Wanted(o, port) > GateCeiling(o)

\* _apply_sentiment_gate
TargetNotional(o, port, shut) == IF Gated(o, port, shut) THEN GateCeiling(o) ELSE Wanted(o, port)

\* The shares of an order whose target is more than the spread away.
Shares(o, port, side, price, desired) ==
    LET unit  == WDen * CDen
        held  == positions[o.ticker]
        spend == Smaller(Magnitude(desired), BuyingPower(port) * unit)
        tradable == IF side = "BUY" THEN Smaller(spend, cash * unit) ELSE spend
        legacy == IF tradable < unit THEN 0 ELSE tradable \div (price * unit)
    IN  IF o.explicit
        THEN Smaller(Magnitude(desired) \div (price * unit), QuantityLimit(price, side, port, held))
        ELSE IF Fee # 0 THEN Smaller(legacy, QuantityLimit(price, side, port, 0)) ELSE legacy

\* default_trade_size: port is the equity the strategy was shown, which may be
\* older than earlier fills of the same bar.
Sizing(o, port, shut) ==
    LET t      == o.ticker
        target == TargetNotional(o, port, shut)
        side   == IF target > Holding(t, o.arrival) THEN "BUY" ELSE "SELL"
        price  == ExecPrice(o.arrival, side)
        desired == (target - Holding(t, price)) * o.confidence
        inSpread == (desired > 0) # (side = "BUY")
        small  == Magnitude(desired) < WDen * CDen /\ ~(o.explicit /\ o.weight = 0)
    IN  [side |-> side, price |-> price,
         shares |-> IF price <= 0 \/ inSpread \/ small THEN 0
                    ELSE Shares(o, port, side, price, desired)]

\* Mutant: the fee of a sale is logged and not taken from cash.
Settle_SellWithoutFee(t, side, shares, price) ==
    /\ cash' = IF side = "BUY" THEN cash - shares * price - shares * Fee ELSE cash + shares * price
    /\ positions' = [positions EXCEPT ![t] = IF side = "BUY" THEN @ + shares ELSE @ - shares]
    /\ trade_log' = Append(trade_log, [ticker |-> t, side |-> side, shares |-> shares,
                                       price |-> price, fees |-> shares * Fee])

\* execute_trade after sizing.
Settle(t, side, shares, price) ==
    /\ cash' = (IF side = "BUY" THEN cash - shares * price ELSE cash + shares * price)
                 - shares * Fee
    /\ positions' = [positions EXCEPT ![t] = IF side = "BUY" THEN @ + shares ELSE @ - shares]
    /\ trade_log' = Append(trade_log, [ticker |-> t, side |-> side, shares |-> shares,
                                       price |-> price, fees |-> shares * Fee])

\* execute_trade.  HOLD or a zero confidence never reaches the gate.
ExecuteTrade(o, port, shut) ==
    LET s == Sizing(o, port, shut)
    IN  /\ o.confidence > 0
        /\ blocked_entry_count' = blocked_entry_count + (IF Gated(o, port, shut) THEN 1 ELSE 0)
        /\ IF s.shares > 0 THEN Settle(o.ticker, s.side, s.shares, s.price)
           ELSE UNCHANGED <<cash, positions, trade_log>>
        /\ UNCHANGED latest_prices
===============================================================================

---------------------------- MODULE BacktestProofs ----------------------------
(***************************************************************************)
(* Proofs about Backtest, for every set of tickers, prices, weights and    *)
(* articles and every order a strategy may place: the account stays        *)
(* solvent and within its margin, the gate sees every article and holds,   *)
(* the report ends at the equity the engine reports, and the trade table   *)
(* explains it.                                                            *)
(***************************************************************************)
EXTENDS Backtest, FoldTheorems, TLAPS

-------------------------------------------------------------------------------
(* Arithmetic.                                                              *)

LEMMA ProductOrder ==
  ASSUME NEW x \in Int, NEW y \in Int, NEW b \in Nat, x <= y
  PROVE  b * x <= b * y
  OBVIOUS

LEMMA ProductCancel ==
  ASSUME NEW x \in Int, NEW y \in Int, NEW b \in Nat \ {0}, b * x <= b * y
  PROVE  x <= y
<1> SUFFICES ASSUME y + 1 <= x PROVE FALSE
  OBVIOUS
<1>1. b * (y + 1) <= b * x
  BY ProductOrder
<1> QED BY <1>1

LEMMA NatProduct ==
  ASSUME NEW x \in Nat, NEW y \in Nat
  PROVE  x * y \in Nat
  OBVIOUS

\* What math.floor of a quotient bounds.
LEMMA QuotientBound ==
  ASSUME NEW a \in Int, NEW b \in Nat \ {0}, NEW q \in Int, q <= a \div b
  PROVE  b * q <= a
<1>1. a \div b \in Int /\ b * (a \div b) <= a
  OBVIOUS
<1>2. b * q <= b * (a \div b)
  BY <1>1, ProductOrder
<1>3. b * q \in Int /\ b * (a \div b) \in Int
  BY <1>1
<1> QED BY <1>1, <1>2, <1>3

LEMMA QuotientOrder ==
  ASSUME NEW a \in Int, NEW c \in Int, NEW b \in Nat \ {0}, a <= c
  PROVE  a \div b \in Int /\ a \div b <= c \div b
  OBVIOUS

LEMMA MaxIs ==
  ASSUME NEW S, S \subseteq Int, NEW m \in S, \A y \in S : y <= m
  PROVE  Max(S) = m
<1>1. Max(S) \in S /\ Max(S) >= m
  BY DEF Max
<1>2. Max(S) \in Int /\ m \in Int /\ Max(S) <= m
  BY <1>1
<1> QED BY <1>1, <1>2

-------------------------------------------------------------------------------
(* The account's totals.                                                    *)

LEMMA EquityType ==
  ASSUME AccountTypeOK, NEW prices \in [Tickers -> Int]
  PROVE  Equity(prices) \in Int
<1> DEFINE f == [t \in Tickers |-> positions[t] * prices[t]]
<1>1. f \in [Tickers -> Int] /\ DOMAIN f = Tickers
  BY DEF AccountTypeOK
<1>2. SumFunctionOnSet(f, Tickers) \in Int
  <2> HIDE DEF f
  <2> QED BY <1>1, SumType, AccountAssumption
<1> HIDE DEF f
<1>3. SumFunction(f) \in Int
  BY <1>1, <1>2 DEF SumFunction
<1> QED BY <1>3 DEF Equity, AccountTypeOK, f

LEMMA ExposureType ==
  ASSUME AccountTypeOK
  PROVE  GrossExposure \in Nat /\ \A equity \in Int : BuyingPower(equity) \in Nat
<1> DEFINE f == [t \in Tickers |-> Magnitude(positions[t] * latest_prices[t])]
<1>1. f \in [Tickers -> Nat] /\ DOMAIN f = Tickers
  BY DEF AccountTypeOK, Magnitude
<1>2. SumFunctionOnSet(f, Tickers) \in Nat
  <2> HIDE DEF f
  <2> QED BY <1>1, SumOfNaturals, AccountAssumption
<1>3. GrossExposure \in Nat
  <2> HIDE DEF f
  <2>1. SumFunction(f) \in Nat
    BY <1>1, <1>2 DEF SumFunction
  <2> QED BY <2>1 DEF GrossExposure, f
<1> QED BY <1>3, AccountAssumption DEF BuyingPower, Larger

-------------------------------------------------------------------------------
(* The sizing of an order.                                                  *)

Sides  == {"BUY", "SELL"}
Orders == [ticker : Tickers, weight : Int, confidence : 0..CDen, explicit : BOOLEAN,
           arrival : Nat]
Unit   == WDen * CDen

LEMMA UnitType == Unit \in Nat \ {0}
  BY AccountAssumption DEF Unit

LEMMA PriceType ==
  ASSUME NEW price \in Nat, NEW side \in Sides
  PROVE  ExecPrice(price, side) \in Nat
<1> DEFINE d == IF side = "BUY" THEN SlipDen + SlipNum ELSE SlipDen - SlipNum
<1>1. d \in Nat
  BY AccountAssumption
<1>2. price * d \in Nat
  <2> HIDE DEF d
  <2> QED BY <1>1
<1>3. (price * d) \div SlipDen \in Nat
  <2> HIDE DEF d
  <2> QED BY <1>2, AccountAssumption
<1> QED BY <1>3 DEF ExecPrice

\* What the commission limit keeps back in cash.
LEMMA LimitView ==
  ASSUME AccountTypeOK, NEW price \in Nat \ {0}, NEW side \in Sides, NEW equity \in Int,
         NEW held \in Int
  PROVE  LET limit == QuantityLimit(price, side, equity, held)
         IN  /\ limit \in Int
             /\ side = "BUY" => (price + Fee) * limit <= Larger(0, cash)
             /\ side = "SELL" /\ Fee > price => (Fee - price) * limit <= Larger(0, cash)
<1> DEFINE closing == Larger(0, IF side = "BUY" THEN -held ELSE held)
           power   == BuyingPower(equity)
           closingCost == Leverage * Fee - price
           margin  == IF closingCost > 0 /\ closing * closingCost > power
                      THEN power \div closingCost
                      ELSE (power + 2 * closing * price) \div (price + Leverage * Fee)
           limit == QuantityLimit(price, side, equity, held)
<1>1. closing \in Int /\ power \in Int /\ closingCost \in Int
  BY ExposureType, AccountAssumption DEF Larger
<1>2. margin \in Int
  <2>1. price + Leverage * Fee \in Nat \ {0}
    BY AccountAssumption
  <2>2. power + 2 * closing * price \in Int
    <3> HIDE DEF closing, power
    <3> QED BY <1>1
  <2> HIDE DEF closing, power, closingCost
  <2> QED BY <1>1, <2>1, <2>2
<1> DEFINE purse == Larger(0, cash)
<1>3. purse \in Int
  BY DEF Larger, AccountTypeOK
<1>4. limit = CASE side = "BUY" -> Smaller(margin, purse \div (price + Fee))
                [] side = "SELL" /\ Fee > price -> Smaller(margin, purse \div (Fee - price))
                [] OTHER -> margin
  BY DEF QuantityLimit
<1> HIDE DEF limit, margin, purse, closing, power, closingCost
<1>5. CASE side = "BUY"
  <2>1. price + Fee \in Nat \ {0}
    BY AccountAssumption
  <2>2. purse \div (price + Fee) \in Int
    BY <1>3, <2>1
  <2>3. limit \in Int /\ limit <= purse \div (price + Fee)
    BY <1>2, <1>4, <1>5, <2>2 DEF Smaller
  <2>4. (price + Fee) * limit <= purse
    BY <1>3, <2>1, <2>3, QuotientBound
  <2> QED BY <1>5, <2>3, <2>4 DEF limit, purse
<1>6. CASE side = "SELL" /\ Fee > price
  <2>1. Fee - price \in Nat \ {0}
    BY <1>6, AccountAssumption
  <2>2. purse \div (Fee - price) \in Int
    BY <1>3, <2>1
  <2>3. limit \in Int /\ limit <= purse \div (Fee - price)
    BY <1>2, <1>4, <1>6, <2>2 DEF Smaller
  <2>4. (Fee - price) * limit <= purse
    BY <1>3, <2>1, <2>3, QuotientBound
  <2> QED BY <1>6, <2>3, <2>4 DEF limit, purse
<1>7. CASE side = "SELL" /\ ~(Fee > price)
  BY <1>2, <1>4, <1>7 DEF limit
<1> QED BY <1>5, <1>6, <1>7 DEF Sides

\* The shares of an order cost no more than the cash, and come to no more than the
\* notional that is wanted.
LEMMA SharesView ==
  ASSUME AccountTypeOK, cash >= 0, NEW o \in Orders, NEW shown \in Int, NEW side \in Sides,
         NEW price \in Nat \ {0}, NEW desired \in Int
  PROVE  LET n == Shares(o, shown, side, price, desired)
         IN  /\ n \in Int
             /\ side = "BUY"  => (price + Fee) * n <= cash
             /\ side = "SELL" /\ Fee > price => (Fee - price) * n <= cash
             /\ (price * Unit) * n <= Magnitude(desired)
<1> DEFINE held  == positions[o.ticker]
           spend == Smaller(Magnitude(desired), BuyingPower(shown) * Unit)
           tradable == IF side = "BUY" THEN Smaller(spend, cash * Unit) ELSE spend
           legacy == IF tradable < Unit THEN 0 ELSE tradable \div (price * Unit)
           whole == Magnitude(desired) \div (price * Unit)
           limit == QuantityLimit(price, side, shown, held)
           limit0 == QuantityLimit(price, side, shown, 0)
           n == Shares(o, shown, side, price, desired)
<1>1. /\ Unit \in Nat \ {0} /\ price * Unit \in Nat \ {0}
      /\ cash \in Nat /\ held \in Int /\ Fee \in Nat /\ BuyingPower(shown) * Unit \in Nat
  <2>1. Unit \in Nat \ {0} /\ BuyingPower(shown) \in Nat
    BY UnitType, ExposureType
  <2>2. held \in Int /\ cash \in Nat
    BY DEF AccountTypeOK, Orders
  <2> QED BY <2>1, <2>2, AccountAssumption
<1>2. Magnitude(desired) \in Nat
  BY DEF Magnitude
<1>3. /\ spend \in Int /\ tradable \in Int
      /\ tradable <= Magnitude(desired)
      /\ side = "BUY" => tradable <= cash * Unit
  <2>1. cash * Unit \in Nat
    BY <1>1
  <2> QED BY <1>1, <1>2, <2>1 DEF Smaller
<1>4. n = IF o.explicit THEN Smaller(whole, limit)
          ELSE IF Fee # 0 THEN Smaller(legacy, limit0) ELSE legacy
  BY DEF Shares, Unit
<1>5. /\ limit \in Int /\ limit0 \in Int
      /\ side = "BUY" => (price + Fee) * limit <= cash /\ (price + Fee) * limit0 <= cash
      /\ side = "SELL" /\ Fee > price =>
            (Fee - price) * limit <= cash /\ (Fee - price) * limit0 <= cash
  <2>1. Larger(0, cash) = cash
    BY <1>1 DEF Larger
  <2> QED BY <1>1, <2>1, LimitView
<1> HIDE DEF held, spend, tradable, limit, limit0, n
<1>6. whole \in Int /\ (price * Unit) * whole <= Magnitude(desired)
  BY <1>1, <1>2, QuotientBound
<1>7. /\ legacy \in Int /\ (price * Unit) * legacy <= Magnitude(desired)
      /\ side = "BUY" => price * legacy <= cash
  <2>1. CASE tradable < Unit
    BY <1>1, <1>2, <2>1
  <2>2. CASE ~(tradable < Unit)
    <3>1. legacy = tradable \div (price * Unit) /\ legacy \in Int
      BY <1>1, <1>3, <2>2
    <3>2. (price * Unit) * legacy <= tradable
      BY <1>1, <1>3, <3>1, QuotientBound
    <3> HIDE DEF legacy
    <3>3. (price * Unit) * legacy \in Int
      BY <1>1, <3>1
    <3>4. (price * Unit) * legacy <= Magnitude(desired)
      BY <1>2, <1>3, <3>2, <3>3
    <3>5. side = "BUY" => Unit * (price * legacy) <= Unit * cash
      <4>1. (price * Unit) * legacy = Unit * (price * legacy) /\ cash * Unit = Unit * cash
        BY <1>1, <3>1
      <4>2. cash * Unit \in Int
        BY <1>1
      <4> QED BY <1>3, <3>2, <3>3, <4>1, <4>2
    <3>6. side = "BUY" => price * legacy <= cash
      BY <1>1, <3>1, <3>5, ProductCancel
    <3> QED BY <3>1, <3>4, <3>6
  <2> QED BY <2>1, <2>2
<1> HIDE DEF whole, legacy
<1>8. n \in Int
  BY <1>4, <1>5, <1>6, <1>7 DEF Smaller
<1>9. (price * Unit) * n <= Magnitude(desired)
  <2>1. n <= whole \/ n <= legacy
    BY <1>4, <1>5, <1>6, <1>7 DEF Smaller
  <2>2. \/ (price * Unit) * n <= (price * Unit) * whole
        \/ (price * Unit) * n <= (price * Unit) * legacy
    BY <1>1, <1>6, <1>7, <1>8, <2>1, ProductOrder
  <2>3. /\ (price * Unit) * n \in Int /\ (price * Unit) * whole \in Int
        /\ (price * Unit) * legacy \in Int
    BY <1>1, <1>6, <1>7, <1>8
  <2> QED BY <1>2, <1>6, <1>7, <2>2, <2>3
<1>10. ASSUME NEW q \in Nat \ {0}, q * limit <= cash, q * limit0 <= cash, n <= limit \/ n <= limit0
       PROVE  q * n <= cash
  <2>1. q * n <= q * limit \/ q * n <= q * limit0
    BY <1>5, <1>8, <1>10, ProductOrder
  <2>2. q * n \in Int /\ q * limit \in Int /\ q * limit0 \in Int
    BY <1>5, <1>8
  <2> QED BY <1>1, <1>10, <2>1, <2>2
<1>11. side = "BUY" => (price + Fee) * n <= cash
  <2> SUFFICES ASSUME side = "BUY" PROVE (price + Fee) * n <= cash
    OBVIOUS
  <2>1. price + Fee \in Nat \ {0}
    BY <1>1
  <2>2. CASE o.explicit \/ Fee # 0
    <3>1. n <= limit \/ n <= limit0
      BY <1>4, <1>5, <1>6, <1>7, <2>2 DEF Smaller
    <3> QED BY <1>5, <1>10, <2>1, <3>1
  <2>3. CASE ~o.explicit /\ Fee = 0
    BY <1>4, <1>7, <2>3
  <2> QED BY <2>2, <2>3
<1>12. side = "SELL" /\ Fee > price => (Fee - price) * n <= cash
  <2> SUFFICES ASSUME side = "SELL", Fee > price PROVE (Fee - price) * n <= cash
    OBVIOUS
  <2>1. Fee - price \in Nat \ {0} /\ Fee # 0
    BY <1>1
  <2>2. n <= limit \/ n <= limit0
    BY <1>4, <1>5, <1>6, <1>7, <2>1 DEF Smaller
  <2> QED BY <1>5, <1>10, <2>1, <2>2
<1> QED BY <1>8, <1>9, <1>11, <1>12 DEF n

\* An order's notional, whatever the gate makes of it.
LEMMA TargetType ==
  ASSUME AccountTypeOK, NEW o \in Orders, NEW shown \in Int, NEW shut, NEW price \in Nat
  PROVE  Holding(o.ticker, price) \in Int /\ TargetNotional(o, shown, shut) \in Int
<1>1. positions[o.ticker] \in Int /\ WDen \in Int /\ o.weight \in Int /\ o.arrival \in Int
  BY AccountAssumption DEF AccountTypeOK, Orders
<1>2. \A p \in Int : Holding(o.ticker, p) \in Int
  BY <1>1 DEF Holding
<1> QED BY <1>1, <1>2 DEF TargetNotional, GateCeiling, Wanted, Larger

\* What the sizing of an order that settles shares guarantees.
LEMMA SizingView ==
  ASSUME AccountTypeOK, cash >= 0, NEW o \in Orders, NEW shown \in Int, NEW shut
  PROVE  LET s == Sizing(o, shown, shut)
             target == TargetNotional(o, shown, shut)
             desired == (target - Holding(o.ticker, s.price)) * o.confidence
         IN  /\ s.side \in Sides /\ s.price \in Nat /\ s.shares \in Int /\ desired \in Int
             /\ s.side = "BUY" => target > Holding(o.ticker, o.arrival)
             /\ s.shares > 0 =>
                   /\ s.price > 0
                   /\ s.side = "BUY" <=> desired > 0
                   /\ s.side = "BUY"  => (s.price + Fee) * s.shares <= cash
                   /\ s.side = "SELL" /\ Fee > s.price => (Fee - s.price) * s.shares <= cash
                   /\ (s.price * Unit) * s.shares <= Magnitude(desired)
<1> DEFINE s == Sizing(o, shown, shut)
           target == TargetNotional(o, shown, shut)
           side == IF target > Holding(o.ticker, o.arrival) THEN "BUY" ELSE "SELL"
           price == ExecPrice(o.arrival, side)
           desired == (target - Holding(o.ticker, price)) * o.confidence
           inSpread == (desired > 0) # (side = "BUY")
           small == Magnitude(desired) < WDen * CDen /\ ~(o.explicit /\ o.weight = 0)
           shares == IF price <= 0 \/ inSpread \/ small THEN 0
                     ELSE Shares(o, shown, side, price, desired)
<1>1. s = [side |-> side, price |-> price, shares |-> shares]
  BY DEF Sizing
<1>2. s.side = side /\ s.price = price /\ s.shares = shares
  <2> HIDE DEF side, price, shares, s
  <2> QED BY <1>1
<1>3. side \in Sides /\ (side = "BUY" => target > Holding(o.ticker, o.arrival))
  BY DEF Sides
<1>4. price \in Nat
  <2> HIDE DEF side
  <2> QED BY <1>3, PriceType DEF Orders
<1>5. desired \in Int
  <2>1. target \in Int /\ Holding(o.ticker, price) \in Int /\ o.confidence \in Int
    <3> HIDE DEF price, target
    <3> QED BY <1>4, TargetType DEF Orders, target
  <2> HIDE DEF price, target
  <2> QED BY <2>1
<1>6. ASSUME ~(price <= 0 \/ inSpread \/ small)
      PROVE  /\ shares \in Int
             /\ side = "BUY"  => (price + Fee) * shares <= cash
             /\ side = "SELL" /\ Fee > price => (Fee - price) * shares <= cash
             /\ (price * Unit) * shares <= Magnitude(desired)
             /\ price > 0 /\ (side = "BUY" <=> desired > 0)
  <2>1. shares = Shares(o, shown, side, price, desired) /\ ~(price <= 0) /\ ~inSpread
    BY <1>6
  <2>2. side = "BUY" <=> desired > 0
    <3> HIDE DEF side, desired
    <3> QED BY <2>1
  <2> HIDE DEF side, price, desired, shares, small, inSpread
  <2>3. price \in Nat \ {0}
    BY <1>4, <2>1
  <2>4. /\ Shares(o, shown, side, price, desired) \in Int
        /\ side = "BUY"  => (price + Fee) * Shares(o, shown, side, price, desired) <= cash
        /\ side = "SELL" /\ Fee > price =>
              (Fee - price) * Shares(o, shown, side, price, desired) <= cash
        /\ (price * Unit) * Shares(o, shown, side, price, desired) <= Magnitude(desired)
    BY <1>3, <1>5, <2>3, SharesView
  <2> QED BY <2>1, <2>2, <2>3, <2>4
<1>7. ASSUME price <= 0 \/ inSpread \/ small
      PROVE  shares = 0
  BY <1>7
<1> HIDE DEF s, side, price, desired, shares, small, inSpread, target
<1>8. /\ s.side \in Sides /\ s.price \in Nat /\ s.shares \in Int
      /\ (target - Holding(o.ticker, s.price)) * o.confidence = desired
  BY <1>2, <1>3, <1>4, <1>6, <1>7 DEF desired
<1>9. s.shares > 0 =>
         /\ s.price > 0
         /\ s.side = "BUY" <=> desired > 0
         /\ s.side = "BUY"  => (s.price + Fee) * s.shares <= cash
         /\ s.side = "SELL" /\ Fee > s.price => (Fee - s.price) * s.shares <= cash
         /\ (s.price * Unit) * s.shares <= Magnitude(desired)
  BY <1>2, <1>6, <1>7
<1> QED BY <1>2, <1>3, <1>5, <1>8, <1>9 DEF s, target

\* A trade leaves the account well-typed and solvent.
LEMMA TradeView ==
  ASSUME AccountTypeOK, cash >= 0, NEW o \in Orders, NEW shown \in Int, NEW shut,
         ExecuteTrade(o, shown, shut)
  PROVE  AccountTypeOK' /\ cash' >= 0
<1> DEFINE s == Sizing(o, shown, shut)
           desired == (TargetNotional(o, shown, shut) - Holding(o.ticker, s.price)) * o.confidence
<1>1. /\ s.side \in Sides /\ s.price \in Nat /\ s.shares \in Int
      /\ s.shares > 0 =>
            /\ s.price > 0
            /\ s.side = "BUY"  => (s.price + Fee) * s.shares <= cash
            /\ s.side = "SELL" /\ Fee > s.price => (Fee - s.price) * s.shares <= cash
  BY SizingView
<1>2. /\ blocked_entry_count' \in Nat /\ latest_prices' = latest_prices
      /\ IF s.shares > 0 THEN Settle(o.ticker, s.side, s.shares, s.price)
         ELSE UNCHANGED <<cash, positions, trade_log>>
  BY DEF ExecuteTrade, AccountTypeOK
<1> HIDE DEF s
<1>3. CASE ~(s.shares > 0)
  BY <1>2, <1>3 DEF AccountTypeOK
<1>4. CASE s.shares > 0
  <2> DEFINE n == s.shares
             p == s.price
  <2>1. /\ n \in Nat /\ p \in Nat /\ Fee \in Nat /\ n * p \in Nat /\ n * Fee \in Nat
        /\ cash \in Int /\ o.ticker \in Tickers
    <3>1. n \in Nat /\ p \in Nat /\ Fee \in Nat /\ cash \in Int /\ o.ticker \in Tickers
      BY <1>1, <1>4, AccountAssumption DEF AccountTypeOK, Orders
    <3> HIDE DEF n, p
    <3> QED BY <3>1, NatProduct
  <2>2. /\ cash' = (IF s.side = "BUY" THEN cash - n * p ELSE cash + n * p) - n * Fee
        /\ positions' = [positions EXCEPT ![o.ticker] =
                           IF s.side = "BUY" THEN @ + n ELSE @ - n]
        /\ trade_log' = Append(trade_log, [ticker |-> o.ticker, side |-> s.side, shares |-> n,
                                           price |-> p, fees |-> n * Fee])
    BY <1>2, <1>4 DEF Settle
  <2>3. cash' >= 0 /\ cash' \in Int
    <3>1. CASE s.side = "BUY"
      <4>1. (p + Fee) * n <= cash /\ (p + Fee) * n = n * p + n * Fee
        BY <1>1, <1>4, <2>1, <3>1
      <4> HIDE DEF n, p
      <4> QED BY <2>1, <2>2, <3>1, <4>1
    <3>2. CASE s.side = "SELL" /\ Fee > p
      <4>1. (Fee - p) * n <= cash /\ (Fee - p) * n = n * Fee - n * p
        BY <1>1, <1>4, <2>1, <3>2
      <4> HIDE DEF n, p
      <4> QED BY <2>1, <2>2, <3>2, <4>1
    <3>3. CASE s.side = "SELL" /\ ~(Fee > p)
      <4>1. n * Fee <= n * p
        BY <2>1, <3>3, ProductOrder
      <4> HIDE DEF n, p
      <4> QED BY <2>1, <2>2, <3>3, <4>1
    <3> QED BY <1>1, <3>1, <3>2, <3>3 DEF Sides
  <2>4. positions' \in [Tickers -> Int]
    <3>1. /\ positions \in [Tickers -> Int]
          /\ positions[o.ticker] \in Int /\ n \in Int
      <4> HIDE DEF n
      <4> QED BY <2>1 DEF AccountTypeOK
    <3> DEFINE v == IF s.side = "BUY" THEN positions[o.ticker] + n ELSE positions[o.ticker] - n
    <3>2. positions' = [positions EXCEPT ![o.ticker] = v]
      BY <2>2
    <3>3. v \in Int
      <4> HIDE DEF n
      <4> QED BY <3>1
    <3> HIDE DEF n, v
    <3> QED BY <3>1, <3>2, <3>3
  <2>5. trade_log' \in Seq(Fills)
    <3>1. [ticker |-> o.ticker, side |-> s.side, shares |-> n, price |-> p, fees |-> n * Fee]
             \in Fills
      BY <1>1, <2>1 DEF Fills, Sides
    <3> HIDE DEF n, p
    <3> QED BY <2>2, <3>1 DEF AccountTypeOK
  <2> QED BY <1>2, <2>3, <2>4, <2>5 DEF AccountTypeOK
<1> QED BY <1>3, <1>4

-------------------------------------------------------------------------------
(* The run.                                                                 *)

\* Whatever the strategy asks for in OnData is one order of the account.
LEMMA OrderView ==
  ASSUME TypeOK, OnData
  PROVE  \E o \in Orders :
            /\ phase = "OnData" /\ o.confidence > 0 /\ o.arrival = closes[o.ticker]
            /\ ExecuteTrade(o, port, Shut(now)) /\ placed' = placed + 1
            /\ UNCHANGED <<loopVars, phase, port, perf_records, final_prices>>
<1>1. \A side \in Sides, w \in Int : LegacyWeight(side, w) \in Int
  <2>1. Cardinality(Tickers) \in Nat \ {0}
    BY FS_CardinalityType, FS_EmptySet, AccountAssumption
  <2>2. WDen \div Cardinality(Tickers) \in Int
    BY <2>1, AccountAssumption
  <2> QED BY <2>2 DEF LegacyWeight
<1>2. PICK t \in Tickers, c \in Confidences :
         \/ buy(t, c) \/ sell(t, c) \/ close_position(t, c)
         \/ \E w \in TargetWeights : target_weight(t, w, c)
         \/ \E w \in TargetWeights, side \in {"BUY", "SELL"} : execute(t, side, w, c)
  BY DEF OnData
<1>3. \E w \in Int, e \in BOOLEAN : Place(t, w, c, e)
  <2>1. Allocation[t] \in Int /\ TargetWeights \subseteq Int
    BY RunAssumption
  <2>2. CASE buy(t, c)
    BY <2>1, <2>2 DEF buy
  <2>3. CASE sell(t, c) \/ close_position(t, c)
    <3>1. Place(t, 0, c, TRUE)
      BY <2>3 DEF sell, close_position
    <3>2. 0 \in Int /\ TRUE \in BOOLEAN
      OBVIOUS
    <3> QED BY <3>1, <3>2, Zenon
  <2>4. CASE \E v \in TargetWeights : target_weight(t, v, c)
    BY <2>1, <2>4 DEF target_weight
  <2>5. CASE \E v \in TargetWeights, side \in {"BUY", "SELL"} : execute(t, side, v, c)
    <3>1. PICK v \in TargetWeights, side \in {"BUY", "SELL"} : execute(t, side, v, c)
      BY <2>5
    <3>2. LegacyWeight(side, v) \in Int
      BY <1>1, <2>1 DEF Sides
    <3>3. Place(t, LegacyWeight(side, v), c, FALSE)
      BY <3>1 DEF execute
    <3> QED BY <3>2, <3>3
  <2> QED BY <1>2, <2>2, <2>3, <2>4, <2>5
<1>4. PICK w \in Int, e \in BOOLEAN : Place(t, w, c, e)
  BY <1>3
<1> DEFINE o == [ticker |-> t, weight |-> w, confidence |-> c, explicit |-> e,
                 arrival |-> closes[t]]
<1>5. o \in Orders
  BY RunAssumption DEF Orders, TypeOK
<1>6. /\ phase = "OnData" /\ ExecuteTrade(o, port, Shut(now)) /\ placed' = placed + 1
      /\ UNCHANGED <<loopVars, phase, port, perf_records, final_prices>>
  BY <1>4 DEF Place
<1>7. o.confidence > 0 /\ o.arrival = closes[o.ticker]
  BY <1>6 DEF ExecuteTrade
<1> QED BY <1>5, <1>6, <1>7

\* The type of what a bar and a sample write.
LEMMA BarView ==
  ASSUME TypeOK, Bar
  PROVE  \E time \in Nat, prices \in [Tickers -> Nat] :
            /\ time <= EndTime /\ (bars > 0 => time > now)
            /\ now' = time /\ latest_prices' = prices /\ bars' = bars + 1 /\ phase = "loop"
            /\ closes' \in [Tickers -> Nat]
            /\ \/ last_poll # -1 /\ last_poll' = last_poll /\ phase' = "loop" /\ port' = port
               \/ last_poll' = time /\ phase' = "OnData" /\ port' = Equity(prices)
            /\ placed' = 0
            /\ UNCHANGED <<cash, positions, trade_log, blocked_entry_count, perf_records,
                           final_prices>>
<1>1. PICK gap \in Gaps, chunk \in (SUBSET Tickers) \ {{}} : \E close \in [chunk -> Prices] :
        LET time   == IF bars = 0 THEN 0 ELSE now + gap
            prices == [t \in Tickers |-> IF t \in chunk THEN close[t] ELSE latest_prices[t]]
            skip   == last_poll # -1 /\ time - last_poll < PollInterval
        IN  /\ time <= EndTime
            /\ now' = time /\ bars' = bars + 1
            /\ latest_prices' = prices
            /\ closes' = [t \in Tickers |-> IF t \in chunk THEN close[t] ELSE closes[t]]
            /\ last_poll' = IF skip THEN last_poll ELSE time
            /\ phase' = IF skip THEN "loop" ELSE "OnData"
            /\ port' = IF skip THEN port ELSE Equity(prices)
            /\ placed' = 0
  BY DEF Bar
<1>2. PICK close \in [chunk -> Prices] :
        LET time   == IF bars = 0 THEN 0 ELSE now + gap
            prices == [t \in Tickers |-> IF t \in chunk THEN close[t] ELSE latest_prices[t]]
            skip   == last_poll # -1 /\ time - last_poll < PollInterval
        IN  /\ time <= EndTime
            /\ now' = time /\ bars' = bars + 1
            /\ latest_prices' = prices
            /\ closes' = [t \in Tickers |-> IF t \in chunk THEN close[t] ELSE closes[t]]
            /\ last_poll' = IF skip THEN last_poll ELSE time
            /\ phase' = IF skip THEN "loop" ELSE "OnData"
            /\ port' = IF skip THEN port ELSE Equity(prices)
            /\ placed' = 0
  BY <1>1
<1> DEFINE time   == IF bars = 0 THEN 0 ELSE now + gap
           prices == [t \in Tickers |-> IF t \in chunk THEN close[t] ELSE latest_prices[t]]
<1>3. time \in Nat /\ (bars > 0 => time > now)
  BY RunAssumption DEF TypeOK
<1>4. /\ prices \in [Tickers -> Nat]
      /\ [t \in Tickers |-> IF t \in chunk THEN close[t] ELSE closes[t]] \in [Tickers -> Nat]
  BY RunAssumption DEF TypeOK, AccountTypeOK
<1>5. /\ phase = "loop"
      /\ UNCHANGED <<cash, positions, trade_log, blocked_entry_count, perf_records, final_prices>>
  BY DEF Bar
<1>6. /\ time <= EndTime
      /\ now' = time /\ latest_prices' = prices /\ bars' = bars + 1
      /\ closes' \in [Tickers -> Nat]
      /\ \/ last_poll # -1 /\ last_poll' = last_poll /\ phase' = "loop" /\ port' = port
         \/ last_poll' = time /\ phase' = "OnData" /\ port' = Equity(prices)
      /\ placed' = 0
  BY <1>2, <1>4
<1> HIDE DEF time, prices
<1> QED BY <1>3, <1>4, <1>5, <1>6

\* What closing the equity curve on a sample writes.
LEMMA RecordView ==
  ASSUME TypeOK, NEW time \in Nat, Record(time, latest_prices)
  PROVE  /\ perf_records' = Append(perf_records, [time |-> time, value |-> Equity(latest_prices)])
         /\ Equity(latest_prices) \in Int /\ final_prices' = latest_prices
         /\ perf_records' \in Seq([time : Nat, value : Int])
         /\ final_prices' \in [Tickers -> Nat]
<1>1. latest_prices \in [Tickers -> Nat] /\ latest_prices \in [Tickers -> Int]
  BY DEF TypeOK, AccountTypeOK
<1>2. Equity(latest_prices) \in Int
  BY <1>1, EquityType DEF TypeOK
<1> QED BY <1>1, <1>2 DEF Record, TypeOK

Solvent == TypeOK /\ cash >= 0

LEMMA SolventInit == Init => Solvent
<1> SUFFICES ASSUME Init PROVE Solvent
  OBVIOUS
<1>1. AccountTypeOK /\ cash >= 0
  BY AccountAssumption DEF Init, InitAccount, AccountTypeOK
<1>2. closes \in [Tickers -> Nat]
  <2>1. closes \in [Tickers -> Prices \union {0}] /\ Prices \union {0} \subseteq Nat
    BY RunAssumption DEF Init
  <2> QED BY <2>1
<1> QED BY <1>1, <1>2 DEF Init, Solvent, TypeOK

LEMMA SolventNext ==
  ASSUME Solvent, [Next]_vars
  PROVE  Solvent'
<1> USE DEF Solvent
<1>1. CASE Bar
  <2>1. PICK time \in Nat, prices \in [Tickers -> Nat] :
            /\ time <= EndTime /\ (bars > 0 => time > now)
            /\ now' = time /\ latest_prices' = prices /\ bars' = bars + 1 /\ phase = "loop"
            /\ closes' \in [Tickers -> Nat]
            /\ \/ last_poll # -1 /\ last_poll' = last_poll /\ phase' = "loop" /\ port' = port
               \/ last_poll' = time /\ phase' = "OnData" /\ port' = Equity(prices)
            /\ placed' = 0
            /\ UNCHANGED <<cash, positions, trade_log, blocked_entry_count, perf_records,
                           final_prices>>
    BY <1>1, BarView
  <2>2. Equity(prices) \in Int
    BY EquityType DEF TypeOK
  <2>3. AccountTypeOK' /\ cash' >= 0
    BY <2>1 DEF TypeOK, AccountTypeOK
  <2> QED BY <2>1, <2>2, <2>3 DEF TypeOK
<1>2. CASE OnData
  <2>1. PICK o \in Orders :
            /\ phase = "OnData" /\ o.confidence > 0 /\ o.arrival = closes[o.ticker]
            /\ ExecuteTrade(o, port, Shut(now)) /\ placed' = placed + 1
            /\ UNCHANGED <<loopVars, phase, port, perf_records, final_prices>>
    BY <1>2, OrderView
  <2>2. port \in Int /\ AccountTypeOK
    BY DEF TypeOK
  <2>3. AccountTypeOK' /\ cash' >= 0
    BY <2>1, <2>2, TradeView
  <2> QED BY <2>1, <2>3 DEF TypeOK, loopVars
<1>3. CASE Sampled
  <2>1. now \in Nat
    BY DEF TypeOK
  <2>2. Record(now, latest_prices)
    BY <1>3 DEF Sampled
  <2>3. /\ perf_records' \in Seq([time : Nat, value : Int])
        /\ final_prices' \in [Tickers -> Nat]
    BY <2>1, <2>2, RecordView
  <2> QED BY <1>3, <2>3 DEF Sampled, TypeOK, AccountTypeOK, account, loopVars
<1>4. CASE StrategyRaises \/ Cancelled \/ NoMarketData
  BY <1>4 DEF StrategyRaises, Cancelled, NoMarketData, TypeOK, AccountTypeOK, account, loopVars
<1>5. CASE Finish
  <2>1. now \in Nat
    BY DEF TypeOK
  <2>2. Record(now, latest_prices) \/ UNCHANGED <<perf_records, final_prices>>
    BY <1>5 DEF Finish
  <2>3. /\ perf_records' \in Seq([time : Nat, value : Int])
        /\ final_prices' \in [Tickers -> Nat]
    BY <2>1, <2>2, RecordView DEF TypeOK
  <2> QED BY <1>5, <2>3 DEF Finish, TypeOK, AccountTypeOK, account, loopVars
<1>6. CASE UNCHANGED vars
  BY <1>6 DEF vars, account, TypeOK, AccountTypeOK
<1> QED BY <1>1, <1>2, <1>3, <1>4, <1>5, <1>6 DEF Next

\* Every order a strategy may place, and every bar, leaves the account, the loop
\* and the recorded curve well-typed: the sizing of execute_trade never divides by
\* a zero price and never settles a fraction or a negative number of shares.
THEOREM TypeCorrect == Spec => []TypeOK
<1>1. Solvent => TypeOK
  BY DEF Solvent
<1> QED BY SolventInit, SolventNext, <1>1, PTL DEF Spec

\* No order takes the cash below zero, whatever it costs in slippage and fees and
\* whatever the equity it was sized from (default_trade_size,
\* _commission_quantity_limit, execute_trade).
THEOREM CashStaysNonNegative == Spec => []CashNonNegative
<1>1. Solvent => CashNonNegative
  BY DEF Solvent, CashNonNegative
<1> QED BY SolventInit, SolventNext, <1>1, PTL DEF Spec

-------------------------------------------------------------------------------
(* The sentiment gate.                                                      *)

\* What a target no higher than flat asks a short to buy is at most the short.
LEMMA CoverBound ==
  ASSUME NEW target \in Int, target <= 0, NEW position \in Int, position < 0,
         NEW price \in Nat \ {0},
         NEW confidence \in 0..CDen, NEW n \in Int,
         (price * Unit) * n <= (target - position * price * WDen) * confidence
  PROVE  n <= -position
<1> DEFINE short == -position
           hold  == short * price * WDen
<1>1. /\ WDen \in Nat \ {0} /\ CDen \in Nat \ {0} /\ short \in Nat /\ Unit \in Nat \ {0}
      /\ confidence \in Nat /\ confidence <= CDen
  BY AccountAssumption, UnitType
<1>2. hold \in Nat /\ target - position * price * WDen = target + hold
  <2>1. position * price * WDen = -hold /\ short * price \in Nat
    BY <1>1
  <2>2. hold \in Nat
    <3> HIDE DEF short
    <3> QED BY <1>1, <2>1
  <2>3. position * price * WDen \in Int
    BY <1>1
  <2> QED BY <2>1, <2>2, <2>3
<1> HIDE DEF hold
<1>3. (target + hold) * confidence <= hold * confidence
  <2>1. target + hold \in Int /\ target + hold <= hold
    BY <1>2
  <2>2. confidence * (target + hold) <= confidence * hold
    BY <1>1, <1>2, <2>1, ProductOrder
  <2> QED BY <1>1, <1>2, <2>1, <2>2
<1>4. hold * confidence <= hold * CDen
  BY <1>1, <1>2, ProductOrder
<1>5. hold * CDen = (price * Unit) * short
  BY <1>1 DEF hold, Unit
<1>6. /\ (price * Unit) * n \in Int /\ (target + hold) * confidence \in Int
      /\ hold * confidence \in Int /\ hold * CDen \in Int /\ price * Unit \in Nat \ {0}
  BY <1>1, <1>2
<1>7. (price * Unit) * n <= (price * Unit) * short
  BY <1>2, <1>3, <1>4, <1>5, <1>6
<1>8. n <= short
  BY <1>1, <1>6, <1>7, ProductCancel
<1> QED BY <1>8

LEMMA GateStep ==
  ASSUME Solvent, OnData, NEW t \in Shut(now)
  PROVE  positions'[t] <= Larger(positions[t], 0)
<1>1. PICK o \in Orders :
         /\ phase = "OnData" /\ o.confidence > 0
         /\ ExecuteTrade(o, port, Shut(now)) /\ placed' = placed + 1
         /\ UNCHANGED <<loopVars, phase, port, perf_records, final_prices>>
  BY OrderView DEF Solvent
<1> DEFINE shut == Shut(now)
           s == Sizing(o, port, shut)
           target == TargetNotional(o, port, shut)
           desired == (target - Holding(o.ticker, s.price)) * o.confidence
<1>2. /\ AccountTypeOK /\ cash >= 0 /\ port \in Int /\ t \in Tickers
      /\ positions \in [Tickers -> Int] /\ positions[t] \in Int
      /\ positions[t] <= Larger(positions[t], 0)
  BY DEF Solvent, TypeOK, AccountTypeOK, Shut, Larger
<1>3. /\ s.side \in Sides /\ s.price \in Nat /\ s.shares \in Int /\ desired \in Int
      /\ s.side = "BUY" => target > Holding(o.ticker, o.arrival)
      /\ s.shares > 0 =>
            /\ s.price > 0
            /\ s.side = "BUY" <=> desired > 0
            /\ (s.price * Unit) * s.shares <= Magnitude(desired)
  BY <1>2, SizingView
<1>4. IF s.shares > 0 THEN Settle(o.ticker, s.side, s.shares, s.price)
      ELSE UNCHANGED <<cash, positions, trade_log>>
  BY <1>1 DEF ExecuteTrade
<1>5. target \in Int /\ \A p \in Nat : Holding(o.ticker, p) \in Int
  BY <1>2, TargetType
<1>6. o.ticker \in shut => target <= GateCeiling(o)
  <2>1. GateCeiling(o) \in Int /\ Wanted(o, port) \in Int
    <3>1. Holding(o.ticker, o.arrival) \in Int /\ port * o.weight \in Int
      BY <1>2, <1>5 DEF Orders
    <3> QED BY <3>1 DEF GateCeiling, Wanted, Larger
  <2> QED BY <2>1 DEF TargetNotional, Gated
<1> HIDE DEF s, target, desired, shut
<1>7. CASE ~(s.shares > 0) \/ o.ticker # t
  BY <1>2, <1>4, <1>7 DEF Settle
<1>8. CASE s.shares > 0 /\ o.ticker = t /\ s.side = "SELL"
  <2>1. positions'[t] = positions[t] - s.shares
    BY <1>2, <1>4, <1>8 DEF Settle
  <2> QED BY <1>2, <1>3, <1>8, <2>1 DEF Larger
<1>9. CASE s.shares > 0 /\ o.ticker = t /\ s.side = "BUY"
  <2> DEFINE position == positions[t]
  <2>1. positions'[t] = position + s.shares
    BY <1>2, <1>4, <1>9 DEF Settle
  <2>2. target > Holding(t, o.arrival) /\ target <= Larger(Holding(t, o.arrival), 0)
    BY <1>3, <1>6, <1>9 DEF GateCeiling, shut
  <2>3. target <= 0 /\ Holding(t, o.arrival) < 0
    <3>1. Holding(t, o.arrival) \in Int
      BY <1>5, <1>9 DEF Orders
    <3> QED BY <1>5, <2>2, <3>1 DEF Larger
  <2>4. position \in Int /\ position < 0
    <3>1. position \in Int /\ o.arrival \in Nat /\ WDen \in Nat
      BY <1>2, AccountAssumption DEF Orders
    <3>2. position >= 0 => position * o.arrival * WDen >= 0
      BY <3>1, NatProduct
    <3> QED BY <2>3, <3>1, <3>2 DEF Holding
  <2>5. /\ (s.price * Unit) * s.shares <= (target - position * s.price * WDen) * o.confidence
        /\ s.price \in Nat \ {0} /\ s.shares \in Int
    BY <1>3, <1>9 DEF Magnitude, desired, Holding
  <2>6. o.confidence \in 0..CDen
    BY DEF Orders
  <2>7. s.shares <= -position
    <3> HIDE DEF position
    <3> QED BY <1>5, <2>3, <2>4, <2>5, <2>6, CoverBound
  <2> HIDE DEF position
  <2>8. positions'[t] \in Int /\ positions'[t] <= 0
    BY <2>1, <2>4, <2>5, <2>7
  <2>9. position = positions[t]
    BY DEF position
  <2> QED BY <2>4, <2>8, <2>9 DEF Larger
<1> QED BY <1>3, <1>7, <1>8, <1>9 DEF Sides

\* "a gated ticker can never end the trade longer than it started": whatever a
\* strategy orders, no step raises a gated ticker above its long, and a short is at
\* most covered (_apply_sentiment_gate, default_trade_size).
THEOREM GateIsNeverPassed == Spec => GateHolds
<1>1. Solvent /\ [Next]_vars => \A t \in Shut(now) : positions'[t] <= Larger(positions[t], 0)
  <2> SUFFICES ASSUME Solvent, [Next]_vars, NEW t \in Shut(now)
               PROVE  positions'[t] <= Larger(positions[t], 0)
    OBVIOUS
  <2>1. CASE OnData
    BY <2>1, GateStep
  <2>2. CASE ~OnData
    <3>1. positions' = positions
      BY <2>2 DEF Next, vars, Bar, Sampled, StrategyRaises, Cancelled, Finish, NoMarketData, account
    <3>2. positions[t] \in Int
      BY DEF Solvent, TypeOK, AccountTypeOK, Shut
    <3> QED BY <3>1, <3>2 DEF Larger
  <2> QED BY <2>1, <2>2
<1> QED BY SolventInit, SolventNext, <1>1, PTL DEF Spec, GateHolds

-------------------------------------------------------------------------------
(* The articles the worker loads.                                           *)

InDates == Solvent /\ now <= EndTime

LEMMA InDatesInit == Init => InDates
  BY SolventInit, RunAssumption DEF Init, InDates

LEMMA InDatesNext ==
  ASSUME InDates, [Next]_vars
  PROVE  InDates'
<1>1. Solvent' /\ Solvent
  BY SolventNext DEF InDates
<1>2. CASE Bar
  <2>1. \E time \in Nat : now' = time /\ time <= EndTime
    BY <1>1, <1>2, BarView DEF Solvent
  <2> QED BY <1>1, <2>1 DEF InDates
<1>3. CASE ~Bar
  <2>1. CASE OnData
    BY <1>1, <2>1, OrderView DEF InDates, Solvent, loopVars
  <2>2. CASE ~OnData
    BY <1>1, <1>3, <2>2
       DEF Next, vars, Sampled, StrategyRaises, Cancelled, Finish, NoMarketData, loopVars, InDates
  <2> QED BY <2>1, <2>2
<1> QED BY <1>2, <1>3

Counts(a, t, utc) ==
    a.ticker = t /\ utc - Window <= a.published + Embargo /\ a.published + Embargo < utc

LEMMA AvailableIs ==
  ASSUME NEW articles, NEW t, NEW moment, NEW a
  PROVE  a \in Available(articles, t, moment) <=> a \in articles /\ Counts(a, t, moment + UtcOffset)
  BY DEF Available, Counts

LEMMA LoadedSuffices ==
  ASSUME NEW moment \in Nat, moment <= EndTime, NEW t \in Tickers
  PROVE  Available(Loaded, t, moment) = Available(Articles, t, moment)
<1>1. ASSUME NEW a \in Articles, Counts(a, t, moment + UtcOffset)
      PROVE  a \in Loaded
  <2>1. /\ a.published \in Int /\ Window \in Nat /\ Embargo \in Nat /\ EndTime \in Nat
        /\ UtcOffset \in Nat /\ UtcOffset <= Embargo
    BY RunAssumption
  <2>2. -(Window + Embargo) <= a.published /\ a.published <= EndTime + Embargo
    BY <1>1, <2>1 DEF Counts
  <2> QED BY <2>2 DEF Loaded
<1>2. Loaded \subseteq Articles
  BY DEF Loaded
<1>3. \A a : a \in Available(Loaded, t, moment) <=> a \in Available(Articles, t, moment)
  BY <1>1, <1>2, AvailableIs
<1> QED BY <1>3 DEF Available

\* The query of load_sentiment_gate starts a window and an embargo before the run
\* and ends an embargo after it, and nothing that blocks_long_entry would count at
\* a moment of the run is outside of it: the gate decides as with every article.
THEOREM GateMissesNothing == Spec => []GateSeesEveryArticle
<1>1. InDates => GateSeesEveryArticle
  BY LoadedSuffices DEF InDates, Solvent, TypeOK, GateSeesEveryArticle, Blocks
<1> QED BY InDatesInit, InDatesNext, <1>1, PTL DEF Spec

-------------------------------------------------------------------------------
(* The report.                                                              *)

LastRow == perf_records[Len(perf_records)]

\* What the recorded curve says of the run: its times never fall, none is later
\* than the bar, and a row of the current bar exists only once OnData returned and
\* values the account as it still is.
RecordsOK ==
    /\ \A i \in DOMAIN perf_records :
         /\ perf_records[i].time <= now
         /\ phase = "OnData" => perf_records[i].time < now
         /\ \A k \in DOMAIN perf_records : i <= k => perf_records[i].time <= perf_records[k].time
    /\ last_poll # -1 \/ phase = "OnData" => bars > 0
    /\ bars = 0 => perf_records = <<>>
    /\ phase = "loop" /\ bars > 0 => perf_records # <<>>
    /\ phase = "loop" /\ perf_records # <<>> /\ LastRow.time = now =>
         LastRow.value = Equity(final_prices) /\ final_prices = latest_prices
    /\ phase = "completed" => /\ perf_records # <<>> /\ LastRow.value = Equity(final_prices)
                              /\ final_prices = latest_prices

LEMMA RecordsType ==
  ASSUME TypeOK
  PROVE  /\ Len(perf_records) \in Nat /\ DOMAIN perf_records = 1..Len(perf_records)
         /\ perf_records # <<>> <=> Len(perf_records) > 0
         /\ \A i \in DOMAIN perf_records :
              perf_records[i].time \in Nat /\ perf_records[i].value \in Int
         /\ now \in Nat /\ bars \in Nat
<1>1. perf_records \in Seq([time : Nat, value : Int]) /\ now \in Nat /\ bars \in Nat
  BY DEF TypeOK
<1> DEFINE Rows == [time : Nat, value : Int]
<1>2. \A row \in Rows : row.time \in Nat /\ row.value \in Int
  OBVIOUS
<1>3. perf_records \in Seq(Rows)
  BY <1>1
<1> HIDE DEF Rows
<1>4. /\ Len(perf_records) \in Nat /\ DOMAIN perf_records = 1..Len(perf_records)
      /\ \A i \in 1..Len(perf_records) : perf_records[i] \in Rows
  BY <1>3
<1>5. perf_records # <<>> <=> Len(perf_records) > 0
  BY <1>3, <1>4
<1> QED BY <1>1, <1>2, <1>4, <1>5

\* A sample joins the curve at the end, and values the account as it is.
LEMMA RecordStep ==
  ASSUME TypeOK, RecordsOK, Record(now, latest_prices), UNCHANGED <<account, loopVars>>
  PROVE  /\ perf_records' # <<>> /\ LastRow'.time = now /\ LastRow'.value = Equity(final_prices)'
         /\ final_prices' = latest_prices'
         /\ \A i \in DOMAIN perf_records' :
              /\ perf_records'[i].time <= now'
              /\ \A k \in DOMAIN perf_records' :
                    i <= k => perf_records'[i].time <= perf_records'[k].time
<1> DEFINE n == Len(perf_records)
           r == [time |-> now, value |-> Equity(latest_prices)]
<1>1. /\ n \in Nat /\ DOMAIN perf_records = 1..n /\ now \in Nat
      /\ \A i \in DOMAIN perf_records : perf_records[i].time \in Nat
  BY RecordsType
<1>2. perf_records' = Append(perf_records, r) /\ final_prices' = latest_prices
  BY DEF Record
<1>3. /\ perf_records \in Seq([time : Nat, value : Int]) /\ r.time = now
      /\ r.value = Equity(latest_prices)
  BY DEF TypeOK
<1> HIDE DEF r
<1>4. /\ Len(perf_records') = n + 1 /\ DOMAIN perf_records' = 1..n + 1
      /\ perf_records'[n + 1] = r
      /\ \A i \in 1..n : perf_records'[i] = perf_records[i]
  BY <1>1, <1>2, <1>3
<1>5. Equity(final_prices)' = Equity(latest_prices)
  BY <1>2 DEF Equity, account
<1>6. LastRow' = r
  BY <1>4 DEF LastRow
<1>7. now' = now /\ final_prices' = latest_prices'
  BY <1>2 DEF loopVars, account
<1>8. /\ \A i \in 1..n : perf_records[i].time <= now
      /\ \A i, k \in 1..n : i <= k => perf_records[i].time <= perf_records[k].time
  BY <1>1 DEF RecordsOK
<1> HIDE DEF n
<1>9. ASSUME NEW i \in 1..n + 1
      PROVE  /\ perf_records'[i].time <= now
             /\ \A k \in 1..n + 1 : i <= k => perf_records'[i].time <= perf_records'[k].time
  <2>1. CASE i = n + 1
    BY <1>1, <1>3, <1>4, <2>1
  <2>2. CASE i \in 1..n
    <3>1. perf_records'[i] = perf_records[i] /\ perf_records[i].time <= now
      BY <1>4, <1>8, <2>2
    <3>2. ASSUME NEW k \in 1..n + 1, i <= k
          PROVE  perf_records'[i].time <= perf_records'[k].time
      <4>1. CASE k = n + 1
        BY <1>3, <1>4, <3>1, <4>1
      <4>2. CASE k \in 1..n
        BY <1>4, <1>8, <2>2, <3>1, <3>2, <4>2
      <4> QED BY <1>1, <4>1, <4>2
    <3> QED BY <3>1, <3>2
  <2> QED BY <1>1, <2>1, <2>2
<1>10. perf_records' # <<>>
  BY <1>1, <1>4
<1> QED BY <1>3, <1>4, <1>5, <1>6, <1>7, <1>9, <1>10

Reported == Solvent /\ RecordsOK

LEMMA ReportedInit == Init => Reported
  BY SolventInit DEF Init, Reported, RecordsOK

LEMMA ReportedNext ==
  ASSUME Reported, [Next]_vars
  PROVE  Reported'
<1>1. Solvent /\ Solvent' /\ TypeOK /\ RecordsOK
  BY SolventNext DEF Reported, Solvent
<1>2. /\ Len(perf_records) \in Nat /\ DOMAIN perf_records = 1..Len(perf_records)
      /\ perf_records # <<>> <=> Len(perf_records) > 0
      /\ \A i \in DOMAIN perf_records :
           perf_records[i].time \in Nat /\ perf_records[i].value \in Int
      /\ now \in Nat /\ bars \in Nat
  BY <1>1, RecordsType
<1> SUFFICES RecordsOK'
  BY <1>1 DEF Reported
<1>3. CASE Bar
  <2>1. PICK time \in Nat, prices \in [Tickers -> Nat] :
            /\ time <= EndTime /\ (bars > 0 => time > now)
            /\ now' = time /\ latest_prices' = prices /\ bars' = bars + 1 /\ phase = "loop"
            /\ closes' \in [Tickers -> Nat]
            /\ \/ last_poll # -1 /\ last_poll' = last_poll /\ phase' = "loop" /\ port' = port
               \/ last_poll' = time /\ phase' = "OnData" /\ port' = Equity(prices)
            /\ placed' = 0
            /\ UNCHANGED <<cash, positions, trade_log, blocked_entry_count, perf_records,
                           final_prices>>
    BY <1>1, <1>3, BarView
  <2>2. bars' > 0 /\ perf_records' = perf_records /\ phase' \in {"loop", "OnData"}
    BY <1>2, <2>1
  <2>3. \A i \in DOMAIN perf_records :
           /\ perf_records[i].time < now'
           /\ \A k \in DOMAIN perf_records : i <= k => perf_records[i].time <= perf_records[k].time
    <3>1. CASE bars = 0
      BY <1>1, <3>1 DEF RecordsOK
    <3>2. CASE bars > 0
      BY <1>1, <1>2, <2>1, <3>2 DEF RecordsOK
    <3> QED BY <1>2, <3>1, <3>2
  <2>4. phase' = "loop" => perf_records # <<>>
    BY <1>1, <2>1 DEF RecordsOK
  <2>5. perf_records # <<>> => LastRow.time < now' /\ LastRow' = LastRow
    BY <1>2, <2>2, <2>3 DEF LastRow
  <2>6. now' \in Nat
    BY <2>1
  <2> QED BY <1>2, <2>2, <2>3, <2>4, <2>5, <2>6 DEF RecordsOK, LastRow
<1>4. CASE OnData
  <2>1. /\ UNCHANGED <<now, bars, last_poll, perf_records>> /\ phase = "OnData" /\ phase' = "OnData"
    BY <1>1, <1>4, OrderView DEF loopVars
  <2> QED BY <1>1, <2>1 DEF RecordsOK
<1>5. CASE Sampled
  <2>1. /\ Record(now, latest_prices) /\ UNCHANGED <<account, loopVars>> /\ phase' = "loop"
        /\ now' = now /\ bars' = bars /\ last_poll' = last_poll /\ phase = "OnData"
    BY <1>5 DEF Sampled, loopVars
  <2>2. /\ perf_records' # <<>> /\ LastRow'.time = now /\ LastRow'.value = Equity(final_prices)'
        /\ final_prices' = latest_prices'
        /\ \A i \in DOMAIN perf_records' :
              /\ perf_records'[i].time <= now'
              /\ \A k \in DOMAIN perf_records' :
                    i <= k => perf_records'[i].time <= perf_records'[k].time
    BY <1>1, <2>1, RecordStep
  <2> QED BY <1>1, <2>1, <2>2 DEF RecordsOK
<1>6. CASE StrategyRaises \/ Cancelled \/ NoMarketData
  <2>1. UNCHANGED <<now, bars, last_poll, perf_records>> /\ phase' \in {"failed", "cancelled"}
    BY <1>6 DEF StrategyRaises, Cancelled, NoMarketData, loopVars
  <2> QED BY <1>1, <2>1 DEF RecordsOK
<1>7. CASE Finish
  <2>1. /\ phase = "loop" /\ bars > 0 /\ phase' = "completed"
        /\ UNCHANGED <<now, bars, last_poll, cash, positions>>
        /\ UNCHANGED <<account, loopVars>>
        /\ IF LastRow.time # now THEN Record(now, latest_prices)
           ELSE UNCHANGED <<perf_records, final_prices>>
    BY <1>7 DEF Finish, loopVars, account, LastRow
  <2>2. CASE LastRow.time # now
    <3>1. /\ perf_records' # <<>> /\ LastRow'.time = now /\ LastRow'.value = Equity(final_prices)'
          /\ final_prices' = latest_prices'
          /\ \A i \in DOMAIN perf_records' :
                /\ perf_records'[i].time <= now'
                /\ \A k \in DOMAIN perf_records' :
                      i <= k => perf_records'[i].time <= perf_records'[k].time
      BY <1>1, <2>1, <2>2, RecordStep
    <3> QED BY <1>1, <2>1, <3>1 DEF RecordsOK
  <2>3. CASE LastRow.time = now
    <3>1. perf_records' = perf_records /\ Equity(final_prices)' = Equity(final_prices)
      BY <2>1, <2>3 DEF Equity
    <3>2. perf_records # <<>> /\ LastRow.value = Equity(final_prices)
          /\ final_prices' = latest_prices'
      BY <1>1, <2>1, <2>3 DEF RecordsOK, account
    <3>3. LastRow' = LastRow
      BY <3>1 DEF LastRow
    <3> QED BY <1>1, <2>1, <3>1, <3>2, <3>3 DEF RecordsOK
  <2> QED BY <2>2, <2>3
<1>8. CASE UNCHANGED vars
  <2>1. UNCHANGED <<now, bars, last_poll, perf_records, phase>>
        /\ Equity(final_prices)' = Equity(final_prices)
        /\ final_prices' = final_prices /\ latest_prices' = latest_prices
    BY <1>8 DEF vars, account, Equity
  <2>2. LastRow' = LastRow
    BY <2>1 DEF LastRow
  <2> QED BY <1>1, <2>1, <2>2 DEF RecordsOK
<1> QED BY <1>3, <1>4, <1>5, <1>6, <1>7, <1>8 DEF Next

\* The last day of the curve is the day of the last sample, and its row the sample.
LEMMA LastDay ==
  ASSUME TypeOK, RecordsOK, perf_records # <<>>
  PROVE  EquityRows[Max(DOMAIN EquityRows)] = LastRow.value
<1> DEFINE n == Len(perf_records)
           first == [time |-> perf_records[1].time, value |-> Capital]
           At(i) == Day(Curve[i].time)
           days == {At(i) : i \in DOMAIN Curve}
           last == At(n + 1)
           rows == {i \in DOMAIN Curve : At(i) = last}
<1>1. /\ n \in Nat /\ n > 0 /\ DOMAIN perf_records = 1..n
      /\ \A i \in 1..n : perf_records[i].time \in Nat
      /\ \A i, k \in 1..n : i <= k => perf_records[i].time <= perf_records[k].time
  BY RecordsType DEF RecordsOK
<1>2. /\ perf_records \in Seq([time : Nat, value : Int])
      /\ Len(<<first>>) = 1 /\ <<first>>[1] = first /\ <<first>> \in Seq([time : Nat, value : Int])
  BY <1>1, AccountAssumption DEF TypeOK
<1>3. /\ DOMAIN Curve = 1..n + 1 /\ Curve[1] = first
      /\ \A i \in 2..n + 1 : Curve[i] = perf_records[i - 1]
  <2>1. Curve = <<first>> \o perf_records
    BY DEF Curve
  <2> HIDE DEF first
  <2> QED BY <1>1, <1>2, <2>1
<1>4. \A i \in 1..n + 1 : Curve[i].time \in Nat /\ Curve[i].time <= Curve[n + 1].time
  <2>1. Curve[n + 1] = perf_records[n]
    BY <1>1, <1>3
  <2> SUFFICES ASSUME NEW i \in 1..n + 1
               PROVE  Curve[i].time \in Nat /\ Curve[i].time <= perf_records[n].time
    BY <2>1
  <2>2. CASE i = 1
    BY <1>1, <1>3, <2>2
  <2>3. CASE i \in 2..n + 1
    <3>1. Curve[i] = perf_records[i - 1] /\ i - 1 \in 1..n /\ i - 1 <= n /\ n \in 1..n
      BY <1>1, <1>3, <2>3
    <3> QED BY <1>1, <3>1
  <2> QED BY <1>1, <2>2, <2>3
<1> HIDE DEF n, first
<1>5. \A i \in 1..n + 1 : At(i) \in Int /\ At(i) <= last
  <2> SUFFICES ASSUME NEW i \in 1..n + 1
               PROVE  At(i) \in Int /\ At(i) <= last
    OBVIOUS
  <2>1. Curve[i].time \in Int /\ Curve[n + 1].time \in Int /\ Curve[i].time <= Curve[n + 1].time
    BY <1>1, <1>4
  <2> QED BY <2>1, QuotientOrder, RunAssumption DEF Day
<1> HIDE DEF At
<1>6. n + 1 \in rows /\ \A i \in rows : i <= n + 1
  BY <1>1, <1>3
<1>7. Max(rows) = n + 1
  <2>1. rows \subseteq Int
    BY <1>1, <1>3
  <2> HIDE DEF rows
  <2> QED BY <1>6, <2>1, MaxIs
<1>8. Max(days) = last
  <2>1. days \subseteq Int /\ last \in days /\ \A d \in days : d <= last
    BY <1>1, <1>3, <1>5
  <2> HIDE DEF days
  <2> QED BY <2>1, MaxIs
<1>9. last \in days
  BY <1>1, <1>3
<1>10. DOMAIN EquityRows = days /\ EquityRows[last] = Curve[Max(rows)].value
  <2>1. EquityRows = [d \in days |-> Curve[Max({i \in DOMAIN Curve : At(i) = d})].value]
    BY DEF EquityRows, At
  <2> HIDE DEF days
  <2> QED BY <1>9, <2>1
<1>11. Curve[n + 1] = LastRow
  BY <1>1, <1>3 DEF LastRow, n
<1> QED BY <1>7, <1>8, <1>10, <1>11

\* The stored daily curve of a completed run ends at the final equity the engine
\* reports, at the marks of the last bar: the last sample of the last day values the
\* account that is reported, whether OnData ran on the last bar or the curve was
\* closed on it (_equity_rows, _record_performance, run_single).
THEOREM ReportEndsAtEquity == Spec => []ReportConsistent
<1>1. Reported => ReportConsistent
  <2> SUFFICES ASSUME Reported, phase = "completed"
               PROVE  /\ EquityRows[Max(DOMAIN EquityRows)] = Equity(final_prices)
                      /\ Equity(final_prices) = Equity(latest_prices)
    BY DEF ReportConsistent
  <2>1. /\ TypeOK /\ RecordsOK /\ perf_records # <<>> /\ LastRow.value = Equity(final_prices)
        /\ final_prices = latest_prices
    BY DEF Reported, Solvent, RecordsOK
  <2> QED BY <2>1, LastDay
<1> QED BY ReportedInit, ReportedNext, <1>1, PTL DEF Spec

-------------------------------------------------------------------------------
(* The margin.                                                              *)

\* The shares of a holding that an order on a side would close.
Closing(side, held) == Larger(0, IF side = "BUY" THEN -held ELSE held)

LEMMA NothingCloses ==
  ASSUME NEW side \in Sides
  PROVE  Closing(side, 0) = 0
<1>1. CASE side = "BUY"
  <2> DEFINE none == -0
  <2>1. none \in Int /\ none + 0 = 0
    OBVIOUS
  <2>2. Closing(side, 0) = Larger(0, none)
    BY <1>1 DEF Closing
  <2> HIDE DEF none
  <2> QED BY <2>1, <2>2 DEF Larger
<1>2. CASE side = "SELL"
  BY <1>2 DEF Closing, Larger
<1> QED BY <1>1, <1>2 DEF Sides

\* What an order of n shares adds to the magnitude of a holding.
Gain(n, side, held) ==
    IF n <= Closing(side, held) THEN -n ELSE n - 2 * Closing(side, held)

\* The commission limit leaves room for the fees at their leverage beside what the
\* order adds to the exposure, which may be less than nothing.
LEMMA MarginLimit ==
  ASSUME AccountTypeOK, NEW price \in Nat \ {0}, NEW side \in Sides, NEW equity \in Int,
         NEW held \in Int, NEW n \in Nat, n <= QuantityLimit(price, side, equity, held)
  PROVE  \/ Gain(n, side, held) * price + (Leverage * Fee) * n <= BuyingPower(equity)
         \/ n <= Closing(side, held) /\ Leverage * Fee <= price
<1> DEFINE closing == Larger(0, IF side = "BUY" THEN -held ELSE held)
           power   == BuyingPower(equity)
           closingCost == Leverage * Fee - price
           margin  == IF closingCost > 0 /\ closing * closingCost > power
                      THEN power \div closingCost
                      ELSE (power + 2 * closing * price) \div (price + Leverage * Fee)
           purse == Larger(0, cash)
           limit == QuantityLimit(price, side, equity, held)
           fees == Leverage * Fee
           gain == Gain(n, side, held)
<1>1. /\ closing \in Nat /\ power \in Nat /\ closingCost \in Int /\ fees \in Nat
      /\ purse \in Nat /\ Fee \in Nat
  <2>1. Fee \in Nat /\ Leverage \in Nat /\ Leverage * Fee \in Nat
    BY AccountAssumption, NatProduct
  <2>2. power \in Nat
    BY ExposureType
  <2> QED BY <2>1, <2>2 DEF Larger, AccountTypeOK
<1>2. limit = CASE side = "BUY" -> Smaller(margin, purse \div (price + Fee))
                [] side = "SELL" /\ Fee > price -> Smaller(margin, purse \div (Fee - price))
                [] OTHER -> margin
  BY DEF QuantityLimit
<1>3. closing = Closing(side, held) /\ n <= limit
  BY DEF Closing
<1>0. gain = IF n <= closing THEN -n ELSE n - 2 * closing
  BY <1>3 DEF Gain
<1>a. /\ closingCost = fees - price
      /\ margin = IF closingCost > 0 /\ closing * closingCost > power
                  THEN power \div closingCost
                  ELSE (power + 2 * closing * price) \div (price + fees)
  OBVIOUS
<1> HIDE DEF limit, purse, closing, power, fees, gain, closingCost, margin
<1>4. margin \in Int
  <2>1. price + fees \in Nat \ {0} /\ power + 2 * closing * price \in Int
    BY <1>1
  <2> QED BY <1>1, <1>a, <2>1
<1>5. n <= margin
  <2>1. CASE side = "BUY"
    <3>1. purse \div (price + Fee) \in Int
      BY <1>1
    <3> QED BY <1>2, <1>3, <1>4, <2>1, <3>1 DEF Smaller
  <2>2. CASE side = "SELL" /\ Fee > price
    <3>1. purse \div (Fee - price) \in Int
      BY <1>1, <2>2
    <3> QED BY <1>2, <1>3, <1>4, <2>2, <3>1 DEF Smaller
  <2>3. CASE side = "SELL" /\ ~(Fee > price)
    BY <1>2, <1>3, <2>3
  <2> QED BY <2>1, <2>2, <2>3 DEF Sides
<1>6. /\ fees * n \in Nat /\ price * n \in Nat /\ price * closing \in Nat /\ fees * closing \in Nat
      /\ n * price = price * n /\ closing * price = price * closing
      /\ (price + fees) * n = price * n + fees * n
      /\ closingCost * n = fees * n - price * n
      /\ closing * closingCost = fees * closing - price * closing
      /\ (-n) * price = -(price * n) /\ (n - 2 * closing) * price = price * n - 2 * (price * closing)
      /\ 2 * closing * price = 2 * (price * closing)
  BY <1>1, <1>a, NatProduct
<1>7. CASE closingCost > 0 /\ closing * closingCost > power
  <2>1. closingCost \in Nat \ {0} /\ margin = power \div closingCost
    BY <1>1, <1>7, <1>a
  <2>2. closingCost * n <= power
    BY <1>1, <1>5, <2>1, QuotientBound
  <2>3. closingCost * n <= closingCost * closing /\ closingCost * closing \in Int
    BY <1>1, <1>7, <2>1, <2>2
  <2>4. n <= closing
    BY <1>1, <2>1, <2>3, ProductCancel
  <2>5. gain * price = -(price * n)
    BY <1>0, <1>6, <2>4
  <2>6. gain * price + fees * n <= power
    BY <1>1, <1>6, <2>2, <2>5
  <2> QED BY <2>6 DEF gain, fees, power
<1>8. CASE ~(closingCost > 0 /\ closing * closingCost > power)
  <2>1. /\ margin = (power + 2 * closing * price) \div (price + fees)
        /\ price + fees \in Nat \ {0} /\ power + 2 * closing * price \in Int
    BY <1>1, <1>8, <1>a
  <2>2. (price + fees) * n <= power + 2 * closing * price
    BY <1>5, <2>1, QuotientBound
  <2>3. CASE n > closing
    <3>1. gain * price = price * n - 2 * (price * closing)
      <4>1. gain = n - 2 * closing
        BY <1>0, <1>1, <2>3
      <4> QED BY <1>6, <4>1
    <3>2. gain * price + fees * n <= power
      BY <1>1, <1>6, <2>2, <3>1
    <3> QED BY <3>2 DEF gain, fees, power
  <2>4. CASE n <= closing /\ closingCost > 0
    <3>1. closing * closingCost <= power
      BY <1>1, <1>6, <1>8, <2>4
    <3>2. closingCost * n <= closingCost * closing
      BY <1>1, <2>4, ProductOrder
    <3>3. closingCost * closing = closing * closingCost
      BY <1>1
    <3>4. gain * price = -(price * n)
      BY <1>0, <1>6, <2>4
    <3>5. gain * price + fees * n <= power
      BY <1>1, <1>6, <3>1, <3>2, <3>3, <3>4
    <3> QED BY <3>5 DEF gain, fees, power
  <2>5. CASE n <= closing /\ ~(closingCost > 0)
    <3>1. fees <= price
      BY <1>1, <1>a, <2>5
    <3> QED BY <1>3, <2>5, <3>1 DEF fees
  <2> QED BY <1>1, <2>3, <2>4, <2>5
<1> QED BY <1>7, <1>8

\* What an order settles leaves that room, with an explicit target or without.
LEMMA SharesMargin ==
  ASSUME AccountTypeOK, cash >= 0, NEW o \in Orders, NEW shown \in Int, NEW side \in Sides,
         NEW price \in Nat \ {0}, NEW desired \in Int,
         Shares(o, shown, side, price, desired) > 0
  PROVE  LET n == Shares(o, shown, side, price, desired)
             held == positions[o.ticker]
         IN  \/ Gain(n, side, held) * price + (Leverage * Fee) * n <= BuyingPower(shown)
             \/ n <= Closing(side, held) /\ Leverage * Fee <= price
<1> DEFINE held  == positions[o.ticker]
           power == BuyingPower(shown)
           spend == Smaller(Magnitude(desired), power * Unit)
           tradable == IF side = "BUY" THEN Smaller(spend, cash * Unit) ELSE spend
           legacy == IF tradable < Unit THEN 0 ELSE tradable \div (price * Unit)
           whole == Magnitude(desired) \div (price * Unit)
           limit == QuantityLimit(price, side, shown, held)
           limit0 == QuantityLimit(price, side, shown, 0)
           n == Shares(o, shown, side, price, desired)
           fees == Leverage * Fee
<1>1. /\ Unit \in Nat \ {0} /\ price * Unit \in Nat \ {0} /\ cash \in Nat /\ held \in Int
      /\ power \in Nat /\ fees \in Nat /\ (Fee = 0 => fees = 0)
  <2>1. Unit \in Nat \ {0} /\ BuyingPower(shown) \in Nat
    BY UnitType, ExposureType
  <2>2. held \in Int /\ cash \in Nat
    BY DEF AccountTypeOK, Orders
  <2>3. fees \in Nat /\ (Fee = 0 => fees = 0)
    BY AccountAssumption, NatProduct
  <2> QED BY <2>1, <2>2, <2>3
<1>2. n \in Nat /\ n > 0
  BY SharesView
<1>4. n = IF o.explicit THEN Smaller(whole, limit)
          ELSE IF Fee # 0 THEN Smaller(legacy, limit0) ELSE legacy
  BY DEF Shares, Unit
<1>5. limit \in Int /\ limit0 \in Int
  BY <1>1, LimitView
<1>6. CASE o.explicit
  <2>1. whole \in Int
    BY <1>1 DEF Magnitude
  <2>2. n <= limit
    <3> HIDE DEF n, whole, limit
    <3> QED BY <1>2, <1>4, <1>5, <1>6, <2>1 DEF Smaller
  <2> HIDE DEF n
  <2> QED BY <1>1, <1>2, <2>2, MarginLimit DEF n
<1>7. CASE ~o.explicit
  <2>1. spend \in Int /\ tradable \in Int /\ tradable <= power * Unit
    <3>1. Magnitude(desired) \in Nat /\ power * Unit \in Nat /\ cash * Unit \in Nat
      BY <1>1 DEF Magnitude
    <3> HIDE DEF power
    <3> QED BY <3>1 DEF Smaller
  <2> HIDE DEF tradable, n, limit0, power, fees
  <2>2. legacy \in Int
    BY <1>1, <2>1
  <2>3. n <= legacy /\ (Fee # 0 => n <= limit0)
    BY <1>2, <1>4, <1>5, <1>7, <2>2 DEF Smaller
  <2>4. legacy = tradable \div (price * Unit)
    BY <1>2, <2>3
  <2> HIDE DEF legacy
  <2>5. (price * Unit) * n <= tradable
    <3>1. n <= tradable \div (price * Unit) /\ n \in Int /\ tradable \in Int
      BY <1>2, <2>1, <2>3, <2>4
    <3> QED BY <1>1, <3>1, QuotientBound
  <2>6. Unit * (n * price) <= Unit * power
    <3>1. (price * Unit) * n = Unit * (n * price) /\ power * Unit = Unit * power
      BY <1>1, <1>2
    <3>2. Unit * (n * price) \in Int /\ Unit * power \in Int
      BY <1>1, <1>2
    <3> QED BY <2>1, <2>5, <3>1, <3>2
  <2>7. n * price <= power
    BY <1>1, <1>2, <2>6, ProductCancel
  <2>8. n * price + fees * n <= power
    <3>1. CASE Fee = 0
      <4>1. fees * n = 0
        BY <1>1, <1>2, <3>1
      <4> QED BY <1>1, <1>2, <2>7, <4>1
    <3>2. CASE Fee # 0
      <4>1. /\ \/ Gain(n, side, 0) * price + (Leverage * Fee) * n <= BuyingPower(shown)
               \/ n <= Closing(side, 0) /\ Leverage * Fee <= price
            /\ Closing(side, 0) = 0
        <5>1. n <= QuantityLimit(price, side, shown, 0)
          BY <2>3, <3>2 DEF limit0
        <5>2. Closing(side, 0) = 0
          BY NothingCloses
        <5> QED BY <1>2, <5>1, <5>2, MarginLimit
      <4>2. Gain(n, side, 0) = n
        BY <1>2, <4>1 DEF Gain
      <4> QED BY <1>2, <4>1, <4>2 DEF fees, power
    <3> QED BY <3>1, <3>2
  <2>9. Gain(n, side, held) \in Int /\ Gain(n, side, held) <= n
    <3>1. Closing(side, held) \in Nat
      BY <1>1 DEF Closing, Larger
    <3> QED BY <1>2, <3>1 DEF Gain
  <2>10. Gain(n, side, held) * price <= n * price
    <3>1. price * Gain(n, side, held) <= price * n
      BY <1>2, <2>9, ProductOrder
    <3> QED BY <1>2, <2>9, <3>1
  <2>11. Gain(n, side, held) * price + fees * n <= power
    <3>1. Gain(n, side, held) * price \in Int /\ n * price \in Int /\ fees * n \in Int
      BY <1>1, <1>2, <2>9
    <3> QED BY <1>1, <2>8, <2>10, <3>1
  <2> QED BY <2>11 DEF n, power, fees
<1> QED BY <1>6, <1>7

\* What one settled order changes in the two totals of the account.
LEMMA TotalsChange ==
  ASSUME AccountTypeOK, NEW t \in Tickers, NEW v \in Int,
         positions' = [positions EXCEPT ![t] = v], latest_prices' = latest_prices, cash' \in Int
  PROVE  /\ GrossExposure' =
              GrossExposure + (Magnitude(v) - Magnitude(positions[t])) * latest_prices[t]
         /\ Equity(latest_prices)' - cash' =
              Equity(latest_prices) - cash + (v - positions[t]) * latest_prices[t]
<1> DEFINE e == [x \in Tickers |-> Magnitude(positions[x] * latest_prices[x])]
           d == [x \in Tickers |-> Magnitude(positions'[x] * latest_prices[x])]
           f == [x \in Tickers |-> positions[x] * latest_prices[x]]
           g == [x \in Tickers |-> positions'[x] * latest_prices[x]]
           p == latest_prices[t]
<1>1. /\ positions \in [Tickers -> Int] /\ positions' \in [Tickers -> Int]
      /\ latest_prices \in [Tickers -> Int] /\ p \in Nat /\ positions[t] \in Int
      /\ positions'[t] = v /\ \A x \in Tickers \ {t} : positions'[x] = positions[x]
  BY DEF AccountTypeOK
<1>2. /\ e \in [Tickers -> Int] /\ d \in [Tickers -> Int]
      /\ f \in [Tickers -> Int] /\ g \in [Tickers -> Int]
  BY <1>1 DEF Magnitude
<1>3. \A x \in Tickers \ {t} : d[x] = e[x] /\ g[x] = f[x]
  BY <1>1
<1>4. \A m \in Int : Magnitude(m * p) = Magnitude(m) * p
  <2> SUFFICES ASSUME NEW m \in Int PROVE Magnitude(m * p) = Magnitude(m) * p
    OBVIOUS
  <2> HIDE DEF p
  <2>1. CASE m < 0
    <3>1. m * p <= 0 /\ (-m) * p = -(m * p) /\ m * p \in Int
      BY <1>1, <2>1, NatProduct
    <3> QED BY <2>1, <3>1 DEF Magnitude
  <2>2. CASE m >= 0
    <3>1. m * p \in Nat
      BY <1>1, <2>2, NatProduct
    <3> QED BY <2>2, <3>1 DEF Magnitude
  <2> QED BY <2>1, <2>2
<1>5. /\ e[t] = Magnitude(positions[t]) * p /\ d[t] = Magnitude(v) * p
      /\ f[t] = positions[t] * p /\ g[t] = v * p
  BY <1>1, <1>4
<1>6. /\ DOMAIN e = Tickers /\ DOMAIN d = Tickers /\ DOMAIN f = Tickers /\ DOMAIN g = Tickers
      /\ GrossExposure = SumFunction(e) /\ GrossExposure' = SumFunction(d)
      /\ Equity(latest_prices) = cash + SumFunction(f)
      /\ Equity(latest_prices)' = cash' + SumFunction(g)
  BY DEF GrossExposure, Equity
<1> HIDE DEF d, e, f, g, p
<1>7. /\ SumFunction(d) = SumFunction(e) + (d[t] - e[t])
      /\ SumFunction(g) = SumFunction(f) + (g[t] - f[t])
      /\ SumFunction(d) \in Int /\ SumFunction(e) \in Int
      /\ SumFunction(f) \in Int /\ SumFunction(g) \in Int
  <2>1. /\ SumFunctionOnSet(d, Tickers) = SumFunctionOnSet(e, Tickers) + (d[t] - e[t])
        /\ SumFunctionOnSet(g, Tickers) = SumFunctionOnSet(f, Tickers) + (g[t] - f[t])
    BY <1>2, <1>3, SumChange, AccountAssumption
  <2>2. /\ SumFunctionOnSet(d, Tickers) \in Int /\ SumFunctionOnSet(e, Tickers) \in Int
        /\ SumFunctionOnSet(f, Tickers) \in Int /\ SumFunctionOnSet(g, Tickers) \in Int
    BY <1>2, SumType, AccountAssumption
  <2> QED BY <1>6, <2>1, <2>2 DEF SumFunction
<1>8. /\ d[t] - e[t] = (Magnitude(v) - Magnitude(positions[t])) * p
      /\ g[t] - f[t] = (v - positions[t]) * p
  <2>1. Magnitude(v) \in Int /\ Magnitude(positions[t]) \in Int
    BY <1>1 DEF Magnitude
  <2> QED BY <1>1, <1>5, <2>1
<1>9. cash \in Int /\ (v - positions[t]) * p \in Int
  BY <1>1 DEF AccountTypeOK
<1> QED BY <1>6, <1>7, <1>8, <1>9 DEF p

\* Slippage never favours the order.
LEMMA SlippageView ==
  ASSUME NEW price \in Nat
  PROVE  ExecPrice(price, "BUY") >= price /\ ExecPrice(price, "SELL") <= price
<1>1. SlipNum \in Nat /\ SlipDen \in Nat \ {0} /\ SlipDen - SlipNum \in Nat
  BY AccountAssumption
<1>2. (price * SlipDen) \div SlipDen = price
  BY <1>1
<1>3. /\ price * SlipDen <= price * (SlipDen + SlipNum)
      /\ price * (SlipDen - SlipNum) <= price * SlipDen
  BY <1>1, ProductOrder
<1>4. /\ price * SlipDen \in Int /\ price * (SlipDen + SlipNum) \in Int
      /\ price * (SlipDen - SlipNum) \in Int
  BY <1>1
<1>5. /\ (price * SlipDen) \div SlipDen <= (price * (SlipDen + SlipNum)) \div SlipDen
      /\ (price * (SlipDen - SlipNum)) \div SlipDen <= (price * SlipDen) \div SlipDen
      /\ (price * (SlipDen + SlipNum)) \div SlipDen \in Int
      /\ (price * (SlipDen - SlipNum)) \div SlipDen \in Int
  BY <1>1, <1>3, <1>4, QuotientOrder
<1> QED BY <1>2, <1>5 DEF ExecPrice

\* The sizing of an order that settles shares is within the margin.
LEMMA SizingMargin ==
  ASSUME AccountTypeOK, cash >= 0, NEW o \in Orders, NEW shown \in Int, NEW shut,
         Sizing(o, shown, shut).shares > 0
  PROVE  LET s == Sizing(o, shown, shut)
             held == positions[o.ticker]
         IN  /\ s.price = ExecPrice(o.arrival, s.side)
             /\ \/ Gain(s.shares, s.side, held) * s.price + (Leverage * Fee) * s.shares
                      <= BuyingPower(shown)
                \/ s.shares <= Closing(s.side, held) /\ Leverage * Fee <= s.price
<1> DEFINE s == Sizing(o, shown, shut)
           target == TargetNotional(o, shown, shut)
           side == IF target > Holding(o.ticker, o.arrival) THEN "BUY" ELSE "SELL"
           price == ExecPrice(o.arrival, side)
           desired == (target - Holding(o.ticker, price)) * o.confidence
           inSpread == (desired > 0) # (side = "BUY")
           small == Magnitude(desired) < WDen * CDen /\ ~(o.explicit /\ o.weight = 0)
           shares == IF price <= 0 \/ inSpread \/ small THEN 0
                     ELSE Shares(o, shown, side, price, desired)
<1>1. s = [side |-> side, price |-> price, shares |-> shares]
  BY DEF Sizing
<1>2. s.side = side /\ s.price = price /\ s.shares = shares
  <2> HIDE DEF side, price, shares, s
  <2> QED BY <1>1
<1>3. side \in Sides
  BY DEF Sides
<1>4. price \in Nat
  <2> HIDE DEF side
  <2> QED BY <1>3, PriceType DEF Orders
<1>5. desired \in Int
  <2>1. target \in Int /\ Holding(o.ticker, price) \in Int /\ o.confidence \in Int
    <3> HIDE DEF price, target
    <3> QED BY <1>4, TargetType DEF Orders, target
  <2> HIDE DEF price, target
  <2> QED BY <2>1
<1>6. /\ ~(price <= 0) /\ shares = Shares(o, shown, side, price, desired)
      /\ Shares(o, shown, side, price, desired) > 0
  <2>1. shares > 0
    BY <1>2
  <2> HIDE DEF side, price, desired, small, inSpread
  <2> QED BY <2>1
<1>7. price = ExecPrice(o.arrival, side)
  OBVIOUS
<1> HIDE DEF s, side, price, desired, shares, small, inSpread, target
<1>8. price \in Nat \ {0}
  BY <1>4, <1>6
<1>9. LET n == Shares(o, shown, side, price, desired)
          held == positions[o.ticker]
      IN  \/ Gain(n, side, held) * price + (Leverage * Fee) * n <= BuyingPower(shown)
          \/ n <= Closing(side, held) /\ Leverage * Fee <= price
  BY <1>3, <1>5, <1>6, <1>8, SharesMargin
<1> QED BY <1>2, <1>6, <1>7, <1>9 DEF s

\* The exposure after a step of d shares (d is what the magnitude of the holding
\* gains) and what its fees cost at their leverage, against the slippage of the step.
LEMMA MarginArithmetic ==
  ASSUME NEW p \in Nat, NEW e \in Nat \ {0}, NEW n \in Nat, NEW lf \in Nat, NEW d \in Int,
         d <= n, -n <= d, NEW gross \in Int, NEW backed \in Int, NEW power \in Int,
         power = Larger(0, backed - gross),
         d * e + lf * n <= power \/ (d = -n /\ lf <= e),
         NEW slip \in Int, \/ e >= p /\ slip = n * (e - p)
                           \/ e <= p /\ slip = n * (p - e)
  PROVE  gross + d * p + lf * n <= Larger(gross, backed) + slip
<1>1. /\ d * p \in Int /\ d * e \in Int /\ n * e \in Int /\ n * p \in Int /\ lf * n \in Int
      /\ n * (e - p) = n * e - n * p /\ n * (p - e) = n * p - n * e
  OBVIOUS
<1>2. d * p <= d * e + slip
  <2>1. CASE e >= p /\ slip = n * (e - p)
    <3>1. e - p \in Nat
      BY <2>1
    <3>2. (e - p) * (-d) <= (e - p) * n
      BY <3>1, ProductOrder
    <3>3. (e - p) * (-d) = d * p - d * e /\ (e - p) * n = n * e - n * p
      OBVIOUS
    <3> QED BY <1>1, <2>1, <3>2, <3>3
  <2>2. CASE e <= p /\ slip = n * (p - e)
    <3>1. p - e \in Nat
      BY <2>2
    <3>2. (p - e) * d <= (p - e) * n
      BY <3>1, ProductOrder
    <3>3. (p - e) * d = d * p - d * e /\ (p - e) * n = n * p - n * e
      OBVIOUS
    <3> QED BY <1>1, <2>2, <3>2, <3>3
  <2> QED BY <2>1, <2>2
<1>3. Larger(gross, backed) = gross + power /\ gross <= Larger(gross, backed)
  BY DEF Larger
<1>4. CASE d * e + lf * n <= power
  BY <1>1, <1>2, <1>3, <1>4
<1>5. CASE d = -n /\ lf <= e
  <2>1. n * lf <= n * e
    BY <1>5, ProductOrder
  <2>2. d * e = -(n * e) /\ lf * n = n * lf
    BY <1>5
  <2>3. Larger(gross, backed) \in Int /\ n * lf \in Int
    BY DEF Larger
  <2> QED BY <1>1, <1>2, <1>3, <2>1, <2>2, <2>3
<1> QED BY <1>4, <1>5

LEMMA MarginStep ==
  ASSUME Solvent, OnData, closes = latest_prices
  PROVE  LET slippage == Equity(latest_prices) - Equity(latest_prices)' - OrderFees
         IN  GrossExposure' + Leverage * OrderFees
               <= Larger(GrossExposure, Leverage * port) + slippage
<1>1. PICK o \in Orders :
         /\ phase = "OnData" /\ o.confidence > 0 /\ o.arrival = closes[o.ticker]
         /\ ExecuteTrade(o, port, Shut(now)) /\ placed' = placed + 1
         /\ UNCHANGED <<loopVars, phase, port, perf_records, final_prices>>
  BY OrderView DEF Solvent
<1> DEFINE s == Sizing(o, port, Shut(now))
           t == o.ticker
           p == latest_prices[t]
           h == positions[t]
           n == s.shares
           e == s.price
           loss == Equity(latest_prices) - Equity(latest_prices)'
           backed == Leverage * port
           desired ==
             (TargetNotional(o, port, Shut(now)) - Holding(o.ticker, s.price)) * o.confidence
<1>2. /\ AccountTypeOK /\ cash >= 0 /\ port \in Int /\ t \in Tickers
      /\ positions \in [Tickers -> Int] /\ h \in Int /\ p \in Nat /\ Fee \in Nat /\ cash \in Int
      /\ latest_prices \in [Tickers -> Int]
  BY AccountAssumption DEF Solvent, TypeOK, AccountTypeOK, Orders
<1>3. /\ s.side \in Sides /\ s.price \in Nat /\ s.shares \in Int
      /\ s.shares > 0 => s.price > 0
  BY <1>2, SizingView
<1>4. /\ latest_prices' = latest_prices
      /\ IF s.shares > 0 THEN Settle(o.ticker, s.side, s.shares, s.price)
         ELSE UNCHANGED <<cash, positions, trade_log>>
  BY <1>1 DEF ExecuteTrade
<1>5. /\ GrossExposure \in Int /\ Equity(latest_prices) \in Int /\ backed \in Int
      /\ BuyingPower(port) = Larger(0, backed - GrossExposure)
  <2>1. GrossExposure \in Int /\ Equity(latest_prices) \in Int
    BY <1>2, ExposureType, EquityType
  <2>2. Leverage * port \in Int /\ port * Leverage = Leverage * port
    BY <1>2, AccountAssumption
  <2> QED BY <2>1, <2>2 DEF BuyingPower
<1>6. AccountTypeOK'
  BY <1>1, <1>2, TradeView
<1>7. cash' \in Int
  BY <1>6 DEF AccountTypeOK
<1>8. n > 0 => /\ e = ExecPrice(p, s.side)
               /\ \/ Gain(n, s.side, h) * e + (Leverage * Fee) * n <= BuyingPower(port)
                  \/ n <= Closing(s.side, h) /\ Leverage * Fee <= e
  <2>1. o.arrival = p
    BY <1>1
  <2> QED BY <1>2, <2>1, SizingMargin
<1> HIDE DEF s
<1>9. CASE ~(n > 0)
  <2>1. GrossExposure' = GrossExposure /\ Equity(latest_prices)' = Equity(latest_prices)
    BY <1>4, <1>9 DEF GrossExposure, Equity
  <2>2. OrderFees = 0 /\ Leverage * 0 = 0
    BY <1>4, <1>9, AccountAssumption DEF OrderFees
  <2>3. GrossExposure <= Larger(GrossExposure, backed) /\ Larger(GrossExposure, backed) \in Int
    BY <1>5 DEF Larger
  <2> HIDE DEF backed
  <2>4. /\ Equity(latest_prices) - Equity(latest_prices)' - OrderFees = 0
        /\ GrossExposure' + Leverage * OrderFees = GrossExposure
    BY <1>5, <2>1, <2>2
  <2> QED BY <2>3, <2>4 DEF backed
<1>10. CASE n > 0
  <2> DEFINE v == IF s.side = "BUY" THEN h + n ELSE h - n
             d == Magnitude(v) - Magnitude(h)
             fees == n * Fee
             lf == Leverage * Fee
             slip == loss - fees
  <2>1. /\ n \in Nat /\ e \in Nat \ {0} /\ v \in Int /\ d \in Int /\ fees \in Nat
        /\ n * e \in Int /\ n * p \in Int
    <3>1. n \in Nat /\ e \in Nat \ {0}
      BY <1>3, <1>10
    <3> HIDE DEF n, e, h, p
    <3> QED BY <1>2, <3>1, NatProduct DEF Magnitude
  <2>2. /\ cash' = (IF s.side = "BUY" THEN cash - n * e ELSE cash + n * e) - fees
        /\ positions' = [positions EXCEPT ![t] = v]
    BY <1>4, <1>10 DEF Settle
  <2>b. trade_log' = Append(trade_log, [ticker |-> t, side |-> s.side, shares |-> n,
                                        price |-> e, fees |-> fees])
    BY <1>4, <1>10 DEF Settle
  <2>a. OrderFees = fees /\ Leverage * fees = lf * n /\ lf \in Nat
    <3>1. trade_log \in Seq(Fills)
      BY <1>2 DEF AccountTypeOK
    <3>2. trade_log' # trade_log /\ trade_log'[Len(trade_log')].fees = fees
      <4> HIDE DEF v, n, e, t, fees
      <4> DEFINE fill == [ticker |-> t, side |-> s.side, shares |-> n, price |-> e, fees |-> fees]
      <4>1. trade_log' = Append(trade_log, fill) /\ fill.fees = fees
        BY <2>b
      <4> HIDE DEF fill
      <4>2. Len(trade_log') = Len(trade_log) + 1 /\ trade_log'[Len(trade_log) + 1] = fill
            /\ Len(trade_log) \in Nat
        BY <3>1, <4>1
      <4> QED BY <4>1, <4>2
    <3>3. Leverage * (n * Fee) = (Leverage * Fee) * n /\ Leverage * Fee \in Nat
      <4> HIDE DEF n
      <4>1. Leverage \in Nat /\ Fee \in Nat /\ n \in Nat
        BY <2>1, AccountAssumption
      <4> QED BY <4>1, NatProduct
    <3> QED BY <3>2, <3>3 DEF OrderFees
  <2>3. /\ GrossExposure' = GrossExposure + d * p
        /\ Equity(latest_prices)' - cash' = Equity(latest_prices) - cash + (v - h) * p
    <3> HIDE DEF v, t
    <3> QED BY <1>2, <1>4, <1>7, <2>1, <2>2, TotalsChange
  <2>4. Equity(latest_prices)' \in Int
    <3>1. Equity(latest_prices)' =
            cash' + SumFunction([x \in Tickers |-> positions'[x] * latest_prices[x]])
      BY <1>4 DEF Equity
    <3> DEFINE f == [x \in Tickers |-> positions'[x] * latest_prices[x]]
    <3>2. f \in [Tickers -> Int] /\ DOMAIN f = Tickers
      BY <1>2, <1>6 DEF AccountTypeOK
    <3> HIDE DEF f
    <3>3. SumFunction(f) \in Int
      BY <3>2, SumType, AccountAssumption DEF SumFunction
    <3> QED BY <1>7, <3>1, <3>3 DEF f
  <2>5. d <= n /\ -n <= d /\ d = Gain(n, s.side, h)
    <3> HIDE DEF n, h
    <3> QED BY <1>2, <1>3, <2>1 DEF Gain, Closing, Larger, Magnitude, Sides
  <2>6. d * e + lf * n <= Larger(0, backed - GrossExposure) \/ (d = -n /\ lf <= e)
    <3>1. n <= Closing(s.side, h) => d = -n
      BY <2>5 DEF Gain
    <3> QED BY <1>5, <1>8, <1>10, <2>5, <3>1
  <2>7. \/ e >= p /\ loss = n * (e - p) + fees
        \/ e <= p /\ loss = n * (p - e) + fees
    <3> DEFINE E0 == Equity(latest_prices)
               E1 == Equity(latest_prices)'
               rise == (v - h) * p
    <3>0. /\ loss = E0 - E1 /\ E1 - cash' = E0 - cash + rise /\ E0 \in Int /\ E1 \in Int
          /\ cash \in Int /\ cash' \in Int /\ fees \in Int /\ n * e \in Int /\ n * p \in Int
      BY <1>2, <1>5, <1>7, <2>1, <2>3, <2>4
    <3> HIDE DEF E0, E1, loss
    <3>1. CASE s.side = "BUY"
      <4>1. e >= p
        BY <1>2, <1>8, <1>10, <3>1, SlippageView
      <4>2. v - h = n /\ cash' = cash - n * e - fees
        BY <1>2, <2>1, <2>2, <3>1
      <4>3. n * (e - p) = n * e - n * p
        BY <1>2, <2>1
      <4>5. rise = n * p
        BY <4>2
      <4> HIDE DEF v, n, e, p, fees, h, rise
      <4>4. loss = n * e - n * p + fees
        BY <3>0, <4>2, <4>5
      <4> QED BY <4>1, <4>3, <4>4
    <3>2. CASE s.side = "SELL"
      <4>1. e <= p
        BY <1>2, <1>8, <1>10, <3>2, SlippageView
      <4>2. v - h = -n /\ cash' = cash + n * e - fees
        BY <1>2, <2>1, <2>2, <3>2
      <4>3. n * (p - e) = n * p - n * e /\ (-n) * p = -(n * p)
        BY <1>2, <2>1
      <4>5. rise = -(n * p)
        BY <4>2, <4>3
      <4> HIDE DEF v, n, e, p, fees, h, rise
      <4> DEFINE paid == n * e
                 mark == n * p
      <4>6. rise = -mark /\ cash' = cash + paid - fees /\ paid \in Int /\ mark \in Int
        BY <3>0, <4>2, <4>5
      <4> HIDE DEF paid, mark
      <4>7. loss = mark - paid + fees
        BY <3>0, <4>6
      <4>4. loss = n * p - n * e + fees
        BY <4>7 DEF paid, mark
      <4> QED BY <4>1, <4>3, <4>4
    <3> QED BY <1>3, <3>1, <3>2 DEF Sides
  <2>8. loss \in Int
    BY <1>5, <2>4
  <2>9. slip \in Int /\ (\/ e >= p /\ slip = n * (e - p)
                         \/ e <= p /\ slip = n * (p - e))
    <3> DEFINE a == n * (e - p)
               c == n * (p - e)
    <3>1. a \in Int /\ c \in Int /\ fees \in Int
      BY <1>2, <2>1
    <3> HIDE DEF loss, fees, a, c, n, e, p
    <3>2. \/ e >= p /\ loss = a + fees
          \/ e <= p /\ loss = c + fees
      BY <2>7 DEF a, c
    <3>3. slip \in Int /\ ((e >= p /\ slip = a) \/ (e <= p /\ slip = c))
      BY <2>8, <3>1, <3>2
    <3> QED BY <3>3 DEF a, c
  <2>10. Larger(0, backed - GrossExposure) \in Int
    BY <1>5 DEF Larger
  <2>11. slip = Equity(latest_prices) - Equity(latest_prices)' - OrderFees
    BY <2>a DEF loss
  <2> HIDE DEF v, d, fees, loss, backed, n, e, p, lf, slip
  <2>12. GrossExposure + d * p + lf * n <= Larger(GrossExposure, backed) + slip
    BY <1>2, <1>5, <2>1, <2>a, <2>5, <2>6, <2>9, <2>10, MarginArithmetic
  <2>13. GrossExposure' + Leverage * OrderFees = GrossExposure + d * p + lf * n
    <3>1. Leverage * OrderFees = lf * n
      BY <2>a
    <3> QED BY <2>3, <3>1
  <2> QED BY <2>11, <2>12, <2>13 DEF backed
<1> QED BY <1>9, <1>10

\* Whatever a strategy orders in one OnData, and however stale the equity it was
\* shown, no order takes the gross exposure above the leverage on that equity less
\* its fees, save by its own slippage (_calculate_buying_power,
\* _commission_quantity_limit, default_trade_size).
THEOREM MarginIsRespected == Spec => MarginRespected
<1> DEFINE Kept == LET slippage == Equity(latest_prices) - Equity(latest_prices)' - OrderFees
                   IN  GrossExposure' + Leverage * OrderFees
                         <= Larger(GrossExposure, Leverage * port) + slippage
<1>1. Solvent /\ [Next]_vars =>
        (phase = "OnData" /\ phase' = "OnData" /\ closes = latest_prices => Kept)
  <2> SUFFICES ASSUME Solvent, [Next]_vars, phase = "OnData", phase' = "OnData",
                      closes = latest_prices
               PROVE  Kept
    OBVIOUS
  <2>1. CASE OnData
    BY <2>1, MarginStep
  <2>2. CASE UNCHANGED vars
    <3>1. GrossExposure' = GrossExposure
      BY <2>2 DEF vars, account, GrossExposure
    <3>2. GrossExposure \in Int
      BY ExposureType DEF Solvent, TypeOK
    <3>3. Equity(latest_prices)' = Equity(latest_prices) /\ Equity(latest_prices) \in Int
      <4>1. latest_prices \in [Tickers -> Int] /\ AccountTypeOK
        BY DEF Solvent, TypeOK, AccountTypeOK
      <4> QED BY <2>2, <4>1, EquityType DEF vars, account, Equity
    <3>4. Leverage * port \in Int
      BY AccountAssumption DEF Solvent, TypeOK
    <3>5. OrderFees = 0 /\ Leverage * 0 = 0
      BY <2>2, AccountAssumption DEF OrderFees, vars, account
    <3>6. /\ Equity(latest_prices) - Equity(latest_prices)' - OrderFees = 0
          /\ GrossExposure' + Leverage * OrderFees = GrossExposure
      BY <3>1, <3>2, <3>3, <3>5
    <3>7. GrossExposure <= Larger(GrossExposure, Leverage * port)
          /\ Larger(GrossExposure, Leverage * port) \in Int
      BY <3>2, <3>4 DEF Larger
    <3> QED BY <3>6, <3>7
  <2>3. OnData \/ UNCHANGED vars
    BY DEF Next, Bar, Sampled, StrategyRaises, Cancelled, Finish, NoMarketData
  <2> QED BY <2>1, <2>2, <2>3
<1> QED BY SolventInit, SolventNext, <1>1, PTL DEF Spec, MarginRespected

-------------------------------------------------------------------------------
(* The folds of the trade pairing.                                          *)

Directions == {1, -1}

Lots == [ticker : Tickers, direction : Directions, quantity : Nat, price : Nat, fee : Nat,
         opened : Nat]

Rows == [ticker : Tickers, direction : Directions, opened : Nat, entry : Nat, exit : Nat,
         closed : BOOLEAN, quantity : Nat, pnl : Int, fees : Nat]

ClosedRows == {r \in Rows : r.closed}

NormalFills == [ticker : Tickers, direction : Directions, quantity : Nat, price : Nat, fee : Nat]

Books == [lots : Seq(Lots), closed : Seq(ClosedRows), index : Nat, remaining : Nat]

\* What every turn of the closing loop keeps, the loop keeps.
LEMMA CloseLotsStays ==
  ASSUME NEW V, NEW fill, NEW book, book \in V, NEW n, n \in Nat, DOMAIN book.lots = 1..n,
         \A b \in V : b.remaining > 0 /\ Closes(b.lots, fill) => CloseOldest(b, fill) \in V
  PROVE  CloseLots(book, fill) \in V
<1> DEFINE D == 1..n
           c == LastPick(D)
           step(b) == IF b.remaining > 0 /\ Closes(b.lots, fill) THEN CloseOldest(b, fill) ELSE b
           F == [i \in D |-> [b \in V |-> step(b)]]
           It(h) == h = [s \in SUBSET D |-> IF s = {} THEN book ELSE step(h[s \ {Max(s)}])]
           iter == CHOOSE h : It(h)
<1>1. /\ IsFiniteSet(D) /\ Picks(c, D) /\ D \in SUBSET D
      /\ \A s \in SUBSET D : s # {} => c[s] = Max(s)
  BY LastPicks
<1>2. \A b \in V : step(b) \in V
  OBVIOUS
<1>3. book \in V /\ F \in [D -> [V -> V]]
  <2> HIDE DEF step
  <2> QED BY <1>2
<1>4. PICK g : Solves(g, D, V, book, c, F)
  <2> HIDE DEF D, c, F
  <2> QED BY ONLY <1>1, <1>3, SolutionExists
<1>5. CloseLots(book, fill) = iter[D]
  <2>1. DOMAIN [i \in DOMAIN book.lots |-> i] = D
    OBVIOUS
  <2> QED BY <2>1 DEF CloseLots, FoldLeft, MapThenFoldSet
<1>6. \A i \in D, b \in V : F[i][b] = step(b)
  <2> HIDE DEF step, D
  <2> QED OBVIOUS
<1>7. \A s \in SUBSET D : s # {} => c[s] \in D /\ s \ {c[s]} \in SUBSET D
  <2> HIDE DEF D, c
  <2> QED BY <1>1 DEF Picks
<1>8. It(g)
  <2> HIDE DEF step, D, c, F
  <2>1. g \in [SUBSET D -> V]
    BY <1>4 DEF Solves
  <2>2. ASSUME NEW s \in SUBSET D
        PROVE  g[s] = IF s = {} THEN book ELSE step(g[s \ {Max(s)}])
    <3>1. CASE s = {}
      BY <1>4, <3>1 DEF Solves
    <3>2. CASE s # {}
      <4>1. g[s] = F[c[s]][g[s \ {c[s]}]] /\ g[s \ {c[s]}] \in V
        BY <1>4, <1>7, <3>2 DEF Solves
      <4>2. g[s] = step(g[s \ {c[s]}])
        BY <1>6, <1>7, <3>2, <4>1
      <4> QED BY <1>1, <3>2, <4>2
    <3> QED BY <3>1, <3>2
  <2> QED BY <2>1, <2>2
<1>9. It(iter)
  <2> HIDE DEF It
  <2> QED BY <1>8
<1>10. \A s \in SUBSET D : s = {} => iter[s] = book
  <2> HIDE DEF step, D, iter
  <2> QED BY <1>9
<1>11. \A s \in SUBSET D : s # {} => iter[s] = step(iter[s \ {c[s]}])
  <2>1. \A s \in SUBSET D : s # {} => iter[s] = step(iter[s \ {Max(s)}])
    <3> HIDE DEF step, D, iter
    <3> QED BY <1>9
  <2> HIDE DEF step, D, iter, c, It
  <2> QED BY <1>1, <2>1
<1> HIDE DEF step, D, iter, c, It, F
<1>12. Follows(iter, D, V, book, c, F)
  BY <1>6, <1>7, <1>10, <1>11 DEF Follows
<1>13. \A s \in SUBSET D : iter[s] = g[s]
  BY ONLY <1>1, <1>4, <1>12, RecursionIs
<1> QED BY <1>1, <1>4, <1>5, <1>13 DEF Solves

-------------------------------------------------------------------------------
(* The book of a trade log, fill by fill.                                   *)

EmptyBook == [lots |-> <<>>, closed |-> <<>>, index |-> 0, remaining |-> 0]

Book(log) == FoldLeft(PairFill, EmptyBook, log)

\* V holds the empty book, and with a book the book after any fill of S.
Keeps(V, S) == EmptyBook \in V /\ \A b \in V, f \in S : PairFill(b, f) \in V

IsLog(log, n, S) == n \in Nat /\ DOMAIN log = 1..n /\ \A i \in 1..n : log[i] \in S

\* The books of the fills at the places of s.
Builds(h, log, n, V) ==
    \A s \in SUBSET (1..n) :
        /\ h[s] \in V
        /\ h[s] = IF s = {} THEN EmptyBook ELSE PairFill(h[s \ {Max(s)}], log[Max(s)])

LEMMA BookIsBuilt ==
  ASSUME NEW V, NEW S, Keeps(V, S), NEW log, NEW n, IsLog(log, n, S)
  PROVE  \E h : Builds(h, log, n, V) /\ Book(log) = h[1..n]
<1> DEFINE D == 1..n
           c == LastPick(D)
           F == [i \in D |-> [b \in V |-> PairFill(b, log[i])]]
           It(h) == h = [s \in SUBSET D |-> IF s = {} THEN EmptyBook
                                            ELSE PairFill(h[s \ {Max(s)}], log[Max(s)])]
           iter == CHOOSE h : It(h)
<1>1. /\ IsFiniteSet(D) /\ Picks(c, D) /\ D \in SUBSET D
      /\ \A s \in SUBSET D : s # {} => c[s] = Max(s)
  BY LastPicks DEF IsLog
<1>2. EmptyBook \in V /\ F \in [D -> [V -> V]]
  BY DEF Keeps, IsLog
<1>3. PICK g : Solves(g, D, V, EmptyBook, c, F)
  <2> HIDE DEF D, c, F
  <2> QED BY ONLY <1>1, <1>2, SolutionExists
<1>4. Book(log) = iter[D]
  BY DEF Book, FoldLeft, MapThenFoldSet, IsLog
<1>5. \A i \in D, b \in V : F[i][b] = PairFill(b, log[i])
  <2> HIDE DEF D
  <2> QED OBVIOUS
<1>6. \A s \in SUBSET D : s # {} => c[s] \in D /\ s \ {c[s]} \in SUBSET D
  <2> HIDE DEF D, c
  <2> QED BY <1>1 DEF Picks
<1>7. It(g)
  <2> HIDE DEF D, c, F
  <2>1. g \in [SUBSET D -> V]
    BY <1>3 DEF Solves
  <2>2. ASSUME NEW s \in SUBSET D
        PROVE  g[s] = IF s = {} THEN EmptyBook ELSE PairFill(g[s \ {Max(s)}], log[Max(s)])
    <3>1. CASE s = {}
      BY <1>3, <3>1 DEF Solves
    <3>2. CASE s # {}
      <4>1. g[s] = F[c[s]][g[s \ {c[s]}]] /\ g[s \ {c[s]}] \in V
        BY <1>3, <1>6, <3>2 DEF Solves
      <4>2. g[s] = PairFill(g[s \ {c[s]}], log[c[s]])
        BY <1>5, <1>6, <3>2, <4>1
      <4> QED BY <1>1, <3>2, <4>2
    <3> QED BY <3>1, <3>2
  <2> QED BY <2>1, <2>2
<1>8. It(iter)
  <2> HIDE DEF It
  <2> QED BY <1>7
<1>9. \A s \in SUBSET D : iter[s] = IF s = {} THEN EmptyBook
                                    ELSE PairFill(iter[s \ {Max(s)}], log[Max(s)])
  <2> HIDE DEF D, iter
  <2> QED BY <1>8
<1> HIDE DEF D, iter, c, It, F
<1>10. Follows(iter, D, V, EmptyBook, c, F)
  <2>1. ASSUME NEW s \in SUBSET D, s # {}, iter[s \ {c[s]}] \in V
        PROVE  iter[s] = F[c[s]][iter[s \ {c[s]}]]
    <3>1. F[c[s]][iter[s \ {c[s]}]] = PairFill(iter[s \ {c[s]}], log[c[s]])
      BY <1>5, <1>6, <2>1
    <3> QED BY <1>1, <1>9, <2>1, <3>1
  <2> QED BY <1>9, <2>1 DEF Follows
<1>11. \A s \in SUBSET D : iter[s] = g[s]
  BY ONLY <1>1, <1>3, <1>10, RecursionIs
<1>12. \A s \in SUBSET D : iter[s] \in V
  BY <1>3, <1>11 DEF Solves
<1>13. Builds(iter, log, n, V)
  BY <1>9, <1>12 DEF Builds, D
<1> QED BY <1>4, <1>13 DEF D

\* The books stay in V, and the book of one more fill is the last one's step.
LEMMA BookOfAppend ==
  ASSUME NEW V, NEW S, Keeps(V, S), NEW log, log \in Seq(S), NEW f, f \in S
  PROVE  Book(log) \in V /\ Book(Append(log, f)) = PairFill(Book(log), f)
<1> DEFINE n == Len(log)
           next == Append(log, f)
<1>1. /\ n \in Nat /\ n + 1 \in Nat /\ DOMAIN log = 1..n /\ DOMAIN next = 1..n + 1
      /\ \A i \in 1..n : log[i] \in S /\ next[i] = log[i]
      /\ \A i \in 1..n + 1 : next[i] \in S
      /\ next[n + 1] = f
  OBVIOUS
<1> HIDE DEF n, next
<1>0. Keeps(V, S) /\ IsLog(log, n, S) /\ IsLog(next, n + 1, S)
  BY <1>1 DEF IsLog
<1>2. PICK h : Builds(h, log, n, V) /\ Book(log) = h[1..n]
  BY ONLY <1>0, BookIsBuilt
<1>3. PICK k : Builds(k, next, n + 1, V) /\ Book(next) = k[1..n + 1]
  BY ONLY <1>0, BookIsBuilt
<1> DEFINE W == {s \in SUBSET (1..n) : h[s] # k[s]}
<1>4. W = {}
  <2> SUFFICES ASSUME W # {} PROVE FALSE
    OBVIOUS
  <2>1. PICK w \in W : \A y \in W : y \subseteq w => y = w
    <3> DEFINE N == 1..n
    <3>1. IsFiniteSet(N) /\ W \subseteq SUBSET N /\ W # {}
      BY <1>1, LastPicks
    <3> HIDE DEF W, N
    <3> QED BY ONLY <3>1, MinimalSubset
  <2>2. w \in SUBSET (1..n) /\ w \in SUBSET (1..n + 1) /\ h[w] # k[w]
    BY <1>1, <2>1
  <2>3. w # {}
    BY <1>2, <1>3, <2>2 DEF Builds
  <2> DEFINE m == Max(w)
  <2>4. m \in w /\ m \in 1..n /\ w \ {m} \in SUBSET (1..n) /\ w \ {m} # w
    <3>1. LastPick(1..n)[w] \in w /\ LastPick(1..n)[w] = Max(w)
      BY <1>1, <2>2, <2>3, LastPicks DEF Picks
    <3> QED BY <2>2, <3>1
  <2>5. h[w \ {m}] = k[w \ {m}]
    BY <2>1, <2>4
  <2>6. h[w] = PairFill(h[w \ {m}], log[m]) /\ k[w] = PairFill(k[w \ {m}], next[m])
    BY <1>2, <1>3, <2>2, <2>3 DEF Builds
  <2>7. log[m] = next[m]
    BY <1>1, <2>4
  <2> HIDE DEF m
  <2> QED BY ONLY <2>2, <2>5, <2>6, <2>7
<1>5. 1..n \in SUBSET (1..n) /\ 1..n + 1 \in SUBSET (1..n + 1) /\ 1..n + 1 # {}
  <2>1. n + 1 \in 1..n + 1
    BY ONLY <1>1
  <2> QED BY ONLY <2>1
<1>6. h[1..n] = k[1..n] /\ h[1..n] \in V
  BY <1>2, <1>4, <1>5 DEF Builds
<1>7. Max(1..n + 1) = n + 1 /\ (1..n + 1) \ {n + 1} = 1..n
  BY <1>1, LastOfInterval
<1>8. k[1..n + 1] = PairFill(k[1..n], next[n + 1])
  BY <1>3, <1>5, <1>7 DEF Builds
<1> QED BY <1>1, <1>2, <1>3, <1>6, <1>8 DEF next

LEMMA BookOfEmpty == Book(<<>>) = EmptyBook
<1> DEFINE log == <<>>
           S == {}
           V == {EmptyBook}
<1>1. Keeps(V, S) /\ IsLog(log, 0, S)
  BY DEF Keeps, IsLog
<1> HIDE DEF log, S, V
<1>2. PICK h : Builds(h, log, 0, V) /\ Book(log) = h[1..0]
  BY ONLY <1>1, BookIsBuilt
<1>3. 1..0 = {} /\ {} \in SUBSET (1..0)
  OBVIOUS
<1> QED BY <1>2, <1>3 DEF Builds, log

-------------------------------------------------------------------------------
(* One turn of the closing loop.                                            *)

IsFirst(lots, i, t) ==
    /\ i \in DOMAIN lots /\ lots[i].ticker = t
    /\ \A k \in DOMAIN lots : lots[k].ticker = t => i <= k

LEMMA OldestView ==
  ASSUME NEW lots, NEW n, n \in Nat, DOMAIN lots = 1..n, NEW fill,
         \E i \in DOMAIN lots : lots[i].ticker = fill.ticker
  PROVE  IsFirst(lots, Oldest(lots, fill), fill.ticker)
<1> DEFINE S == {i \in DOMAIN lots : lots[i].ticker = fill.ticker}
<1>1. S \in SUBSET Nat /\ S # {}
  OBVIOUS
<1>2. PICK i \in S : \A k \in S : i <= k
  <2> DEFINE T == {1..i : i \in S}
             N == 1..n
  <2>1. IsFiniteSet(N) /\ T \subseteq SUBSET N /\ T # {}
    BY <1>1, LastPicks
  <2>2. PICK w \in T : \A y \in T : y \subseteq w => y = w
    <3> HIDE DEF T, N
    <3> QED BY ONLY <2>1, MinimalSubset
  <2>3. PICK i \in S : w = 1..i
    BY <2>2
  <2>4. ASSUME NEW k \in S, k < i PROVE FALSE
    <3>1. k \in Nat /\ i \in Nat \ {0}
      BY <2>3
    <3>2. 1..k \subseteq w /\ i \in w /\ i \notin 1..k
      BY <2>3, <2>4, <3>1
    <3> QED BY <2>2, <3>2
  <2> QED BY <1>1, <2>3, <2>4
<1>3. \E j \in DOMAIN lots : /\ lots[j].ticker = fill.ticker
                             /\ \A k \in DOMAIN lots : lots[k].ticker = fill.ticker => j <= k
  BY <1>2
<1> QED BY <1>3 DEF Oldest, IsFirst

\* What is left of a lot, and of the lots, when m shares of the i-th are closed.
Left(lot, m) == [lot EXCEPT !.quantity = lot.quantity - m]

Cut(lots, i, m) ==
    IF m = lots[i].quantity THEN RemoveAt(lots, i)
    ELSE [lots EXCEPT ![i].quantity = lots[i].quantity - m]

\* p says where each lot of cut stood in lots.
Stood(p, cut, lots) ==
    /\ p \in [DOMAIN cut -> DOMAIN lots]
    /\ \A j \in DOMAIN cut : /\ cut[j].ticker = lots[p[j]].ticker
                             /\ cut[j].opened = lots[p[j]].opened
    /\ \A j, k \in DOMAIN cut : j < k => p[j] < p[k]

LEMMA LeftType ==
  ASSUME NEW lot, lot \in Lots, NEW m, m \in Nat, m <= lot.quantity
  PROVE  /\ Left(lot, m) \in Lots /\ Left(lot, m).quantity = lot.quantity - m
         /\ Left(lot, m).ticker = lot.ticker /\ Left(lot, m).opened = lot.opened
         /\ Left(lot, m).direction = lot.direction
         /\ Left(lot, m).price = lot.price /\ Left(lot, m).fee = lot.fee
  BY DEF Left, Lots

LEMMA CutView ==
  ASSUME NEW lots, lots \in Seq(Lots), NEW i, i \in DOMAIN lots,
         NEW m, m \in Nat, m <= lots[i].quantity
  PROVE  /\ Cut(lots, i, m) \in Seq(Lots)
         /\ \E p : Stood(p, Cut(lots, i, m), lots)
         /\ \A w \in [Lots -> Int] :
              (m = lots[i].quantity => w[Left(lots[i], m)] = 0) =>
                SeqSum(w, Cut(lots, i, m)) =
                  SeqSum(w, lots) + (w[Left(lots[i], m)] - w[lots[i]])
<1> DEFINE n == Len(lots)
           rest == Left(lots[i], m)
           cut == Cut(lots, i, m)
<1>1. n \in Nat /\ DOMAIN lots = 1..n /\ i \in 1..n /\ lots[i] \in Lots
  OBVIOUS
<1>2. /\ rest \in Lots /\ rest.ticker = lots[i].ticker /\ rest.opened = lots[i].opened
      /\ rest.quantity = lots[i].quantity - m
  BY <1>1, LeftType
<1> HIDE DEF rest
<1>3. CASE m = lots[i].quantity
  <2> DEFINE r == RemoveAt(lots, i)
             p == [j \in DOMAIN r |-> IF j < i THEN j ELSE j + 1]
  <2>1. cut = r
    BY <1>3 DEF Cut
  <2>2. lots \in Seq(Lots) /\ i \in DOMAIN lots
    OBVIOUS
  <2>3. /\ r \in Seq(Lots) /\ DOMAIN r = 1..Len(lots) - 1
        /\ \A j \in 1..Len(lots) - 1 : r[j] = IF j < i THEN lots[j] ELSE lots[j + 1]
    BY ONLY <2>2, RemovalView
  <2>4. ASSUME NEW w, w \in [Lots -> Int]
        PROVE  SeqSum(w, r) = SeqSum(w, lots) - w[lots[i]]
    BY ONLY <2>2, <2>4, SeqSumOfRemoval
  <2>5. /\ r \in Seq(Lots) /\ DOMAIN r = 1..n - 1
        /\ \A j \in DOMAIN r : r[j] = IF j < i THEN lots[j] ELSE lots[j + 1]
    BY <2>3
  <2> HIDE DEF r, n
  <2>6. Stood(p, r, lots)
    BY <1>1, <2>5 DEF Stood
  <2>7. \A w \in [Lots -> Int] :
           w[rest] = 0 => SeqSum(w, r) = SeqSum(w, lots) + (w[rest] - w[lots[i]])
    <3> TAKE w \in [Lots -> Int]
    <3>1. w[lots[i]] \in Int /\ SeqSum(w, lots) \in Int
      BY <1>1, SeqSumIsInt
    <3>2. SeqSum(w, r) = SeqSum(w, lots) - w[lots[i]]
      BY <2>4
    <3> QED BY <3>1, <3>2
  <2> HIDE DEF p, cut
  <2> QED BY <1>3, <2>1, <2>5, <2>6, <2>7 DEF cut, rest
<1>4. CASE m # lots[i].quantity
  <2> DEFINE r == [lots EXCEPT ![i] = rest]
             p == [j \in DOMAIN r |-> j]
  <2>1. cut = r
    BY <1>1, <1>4 DEF Cut, Left, rest
  <2>2. r \in Seq(Lots) /\ DOMAIN r = 1..n
    BY <1>1, <1>2
  <2>3. \A j \in 1..n : r[j].ticker = lots[j].ticker /\ r[j].opened = lots[j].opened
    <3> HIDE DEF n
    <3> QED BY <1>1, <1>2
  <2>4. Stood(p, r, lots)
    <3> HIDE DEF r, n
    <3> QED BY <1>1, <2>2, <2>3 DEF Stood
  <2>5. \A w \in [Lots -> Int] : SeqSum(w, r) = SeqSum(w, lots) + (w[rest] - w[lots[i]])
    <3> SUFFICES ASSUME NEW w, w \in [Lots -> Int]
                 PROVE  SeqSum(w, r) = SeqSum(w, lots) + (w[rest] - w[lots[i]])
      OBVIOUS
    <3>1. w \in [Lots -> Int] /\ lots \in Seq(Lots) /\ i \in DOMAIN lots /\ rest \in Lots
      BY <1>2
    <3>2. SeqSum(w, ReplaceAt(lots, i, rest)) = SeqSum(w, lots) + (w[rest] - w[lots[i]])
      BY ONLY <3>1, SeqSumOfUpdate
    <3> QED BY <3>2 DEF ReplaceAt
  <2> HIDE DEF p, cut, r
  <2> QED BY <1>4, <2>1, <2>2, <2>4, <2>5 DEF cut, rest
<1> QED BY <1>3, <1>4

-------------------------------------------------------------------------------
(* What a book holds and what it is worth.                                  *)

NetWeight(t) == [l \in Lots |-> IF l.ticker = t THEN l.direction * l.quantity ELSE 0]

CostWeight == [l \in Lots |-> l.quantity * (l.direction * l.price + l.fee)]

GainWeight == [r \in ClosedRows |-> r.pnl - r.fees]

Net(book, t) == SeqSum(NetWeight(t), book.lots)

Worth(book) == SeqSum(GainWeight, book.closed) - SeqSum(CostWeight, book.lots)

\* What the rest of a fill will still add to them.
Due(book, fill, t) == IF t = fill.ticker THEN fill.direction * book.remaining ELSE 0

DueCost(book, fill) == book.remaining * (fill.direction * fill.price + fill.fee)

LEMMA WeightTypes ==
  /\ \A t : NetWeight(t) \in [Lots -> Int]
  /\ CostWeight \in [Lots -> Int]
  /\ GainWeight \in [ClosedRows -> Int]
<1>1. ASSUME NEW l \in Lots
      PROVE  /\ l.direction * l.quantity \in Int
             /\ l.quantity * (l.direction * l.price + l.fee) \in Int
  <2>1. l.direction \in Int /\ l.quantity \in Int /\ l.price \in Int /\ l.fee \in Int
    BY DEF Lots, Directions
  <2>2. l.direction * l.price \in Int
    BY <2>1
  <2> QED BY <2>1, <2>2
<1>2. \A r \in ClosedRows : r.pnl - r.fees \in Int
  BY DEF ClosedRows, Rows
<1> QED BY <1>1, <1>2 DEF NetWeight, CostWeight, GainWeight

LEMMA LeftWeights ==
  ASSUME NEW lot, lot \in Lots, NEW m, m \in Nat, m <= lot.quantity
  PROVE  LET rest == Left(lot, m)
         IN  /\ \A t : NetWeight(t)[rest] - NetWeight(t)[lot] =
                         IF t = lot.ticker THEN -(lot.direction * m) ELSE 0
             /\ CostWeight[rest] - CostWeight[lot] = -(m * (lot.direction * lot.price + lot.fee))
             /\ m = lot.quantity => CostWeight[rest] = 0 /\ \A t : NetWeight(t)[rest] = 0
<1> DEFINE rest == Left(lot, m)
           q == lot.quantity
           d == lot.direction
           x == d * lot.price + lot.fee
<1>1. q \in Nat /\ d \in {1, -1} /\ x \in Int /\ m \in Nat
  <2>1. d \in {1, -1} /\ lot.price \in Int /\ lot.fee \in Int /\ q \in Nat
    BY DEF Lots, Directions
  <2>2. d * lot.price \in Int
    BY <2>1
  <2> QED BY <2>1, <2>2
<1>2. /\ rest \in Lots /\ rest.quantity = q - m /\ rest.ticker = lot.ticker
      /\ rest.direction = d /\ rest.direction * rest.price + rest.fee = x
  BY LeftType
<1> HIDE DEF rest
<1>3. /\ CostWeight[rest] = (q - m) * x /\ CostWeight[lot] = q * x
      /\ \A t : NetWeight(t)[rest] = IF t = lot.ticker THEN d * (q - m) ELSE 0
      /\ \A t : NetWeight(t)[lot] = IF t = lot.ticker THEN d * q ELSE 0
  BY <1>2 DEF CostWeight, NetWeight
<1> HIDE DEF q, d, x
<1>4. (q - m) * x - q * x = -(m * x)
  BY <1>1
<1>5. d * (q - m) - d * q = -(d * m)
  BY <1>1
<1>6. m = q => (q - m) * x = 0 /\ d * (q - m) = 0
  BY <1>1
<1>7. \A t : NetWeight(t)[rest] - NetWeight(t)[lot] = IF t = lot.ticker THEN -(d * m) ELSE 0
  BY <1>3, <1>5
<1> QED BY <1>3, <1>4, <1>6, <1>7 DEF rest, q, d, x

-------------------------------------------------------------------------------
(* A turn of the loop changes neither what a book and the rest of its fill   *)
(* hold together, nor what they are worth, nor the order.                    *)

Ordered(book) ==
    /\ \A i, k \in DOMAIN book.lots :
         i < k /\ book.lots[i].ticker = book.lots[k].ticker =>
           book.lots[i].opened <= book.lots[k].opened
    /\ \A i \in DOMAIN book.closed, k \in DOMAIN book.lots :
         book.closed[i].ticker = book.lots[k].ticker =>
           book.closed[i].opened <= book.lots[k].opened
    /\ \A i, k \in DOMAIN book.closed :
         i < k /\ book.closed[i].ticker = book.closed[k].ticker =>
           book.closed[i].opened <= book.closed[k].opened
    /\ \A i \in DOMAIN book.lots : book.lots[i].opened <= book.index
    /\ \A i \in DOMAIN book.closed : book.closed[i].opened <= book.index

LEMMA BookType ==
  ASSUME NEW book, book \in Books
  PROVE  /\ book.lots \in Seq(Lots) /\ book.closed \in Seq(ClosedRows)
         /\ book.index \in Nat /\ book.remaining \in Nat
         /\ Len(book.lots) \in Nat /\ DOMAIN book.lots = 1..Len(book.lots)
         /\ \A i \in DOMAIN book.lots : book.lots[i] \in Lots
         /\ \A i \in DOMAIN book.closed : book.closed[i] \in ClosedRows
  BY DEF Books

LEMMA RoundTripView ==
  ASSUME NEW lot, lot \in Lots, NEW fill, fill \in NormalFills, lot.ticker = fill.ticker,
         NEW m, m \in Nat
  PROVE  LET row == RoundTrip(lot, fill, m)
         IN  /\ row \in ClosedRows /\ row.ticker = fill.ticker /\ row.opened = lot.opened
             /\ GainWeight[row] = (fill.price - lot.price) * m * lot.direction
                                    - m * (lot.fee + fill.fee)
<1>1. /\ lot.price \in Nat /\ fill.price \in Nat /\ lot.fee \in Nat /\ fill.fee \in Nat
      /\ lot.direction \in Directions /\ lot.direction \in {1, -1} /\ lot.opened \in Nat
      /\ fill.ticker \in Tickers
  BY DEF Lots, NormalFills, Directions
<1> DEFINE pnl == (fill.price - lot.price) * m * lot.direction
           fees == m * (lot.fee + fill.fee)
           row == RoundTrip(lot, fill, m)
<1>2. pnl \in Int
  <2>1. (fill.price - lot.price) * m \in Int
    BY <1>1
  <2> QED BY <1>1, <2>1
<1>3. fees \in Nat
  BY <1>1, NatProduct
<1> HIDE DEF pnl, fees
<1>4. row = [ticker |-> fill.ticker, direction |-> lot.direction, opened |-> lot.opened,
             entry |-> lot.price, exit |-> fill.price, closed |-> TRUE, quantity |-> m,
             pnl |-> pnl, fees |-> fees]
  BY DEF RoundTrip, pnl, fees
<1>5. row \in ClosedRows
  BY <1>1, <1>2, <1>3, <1>4 DEF ClosedRows, Rows
<1>6. row.ticker = fill.ticker /\ row.opened = lot.opened /\ row.pnl = pnl /\ row.fees = fees
  BY <1>4
<1> HIDE DEF row
<1>7. GainWeight[row] = pnl - fees
  BY <1>5, <1>6 DEF GainWeight
<1> QED BY <1>5, <1>6, <1>7 DEF row, pnl, fees

LEMMA TurnArithmetic ==
  ASSUME NEW d, d \in {1, -1}, NEW m, m \in Nat, NEW rem, rem \in Nat, NEW fp, fp \in Nat,
         NEW lp, lp \in Nat, NEW lf, lf \in Nat, NEW ff, ff \in Nat
  PROVE  (fp - lp) * m * d - m * (lf + ff) + m * (d * lp + lf) =
           (rem - m) * ((-d) * fp + ff) - rem * ((-d) * fp + ff)
<1>1. d = 1 \/ d = -1
  OBVIOUS
<1> DEFINE y == (-d) * fp + ff
<1>2. y \in Int /\ y = IF d = 1 THEN ff - fp ELSE ff + fp
  BY <1>1
<1>3. (rem - m) * y - rem * y = -(m * y)
  <2> HIDE DEF y
  <2> QED BY <1>2
<1> DEFINE a == m * fp
           b == m * lp
           c == m * lf
           e == m * ff
<1>4. /\ a \in Int /\ b \in Int /\ c \in Int /\ e \in Int
      /\ (fp - lp) * m = a - b /\ m * (lf + ff) = c + e
  OBVIOUS
<1>5. d = 1 => /\ (fp - lp) * m * d = a - b /\ m * (d * lp + lf) = b + c /\ m * y = e - a
  BY <1>2, <1>4
<1>6. d = -1 => /\ (fp - lp) * m * d = b - a /\ m * (d * lp + lf) = c - b /\ m * y = e + a
  BY <1>2, <1>4
<1> HIDE DEF a, b, c, e
<1> QED BY <1>1, <1>3, <1>4, <1>5, <1>6

\* The turn, place by place.
LEMMA TurnShape ==
  ASSUME NEW book, book \in Books, NEW fill, fill \in NormalFills,
         book.remaining > 0, Closes(book.lots, fill)
  PROVE  \E i, m, lot, row, p, b :
           /\ b = CloseOldest(book, fill) /\ b \in Books
           /\ lot = book.lots[i] /\ IsFirst(book.lots, i, fill.ticker) /\ lot \in Lots
           /\ lot.direction = -fill.direction
           /\ m \in Nat /\ m <= lot.quantity /\ m <= book.remaining
           /\ b.remaining = book.remaining - m /\ b.index = book.index
           /\ b.closed = Append(book.closed, row) /\ row = RoundTrip(lot, fill, m)
           /\ b.lots = Cut(book.lots, i, m) /\ Stood(p, b.lots, book.lots)
<1> DEFINE lots == book.lots
           i == Oldest(lots, fill)
           lot == lots[i]
           m == IF book.remaining < lot.quantity THEN book.remaining ELSE lot.quantity
           row == RoundTrip(lot, fill, m)
           cut == Cut(lots, i, m)
           b == CloseOldest(book, fill)
<1>1. /\ lots \in Seq(Lots) /\ book.closed \in Seq(ClosedRows) /\ book.index \in Nat
      /\ book.remaining \in Nat /\ Len(lots) \in Nat /\ DOMAIN lots = 1..Len(lots)
      /\ \A k \in DOMAIN lots : lots[k] \in Lots
  BY BookType
<1>2. IsFirst(lots, i, fill.ticker)
  <2>1. \E k \in DOMAIN lots : lots[k].ticker = fill.ticker
    BY DEF Closes
  <2> DEFINE n == Len(lots)
  <2>2. n \in Nat /\ DOMAIN lots = 1..n
    BY <1>1
  <2> HIDE DEF lots, n
  <2> QED BY <2>1, <2>2, OldestView
<1>3. i \in DOMAIN lots /\ lot \in Lots /\ lot.ticker = fill.ticker
  <2> HIDE DEF lots, i
  <2> QED BY <1>1, <1>2 DEF IsFirst
<1>4. lot.direction = -fill.direction
  <2>1. lot.direction # fill.direction
    BY DEF Closes
  <2>2. lot.direction \in {1, -1} /\ fill.direction \in {1, -1}
    <3> HIDE DEF lot
    <3> QED BY <1>3 DEF Lots, NormalFills, Directions
  <2> HIDE DEF lot
  <2> QED BY <2>1, <2>2
<1>5. m \in Nat /\ m <= lot.quantity /\ m <= book.remaining
  <2>1. lot.quantity \in Nat
    <3> HIDE DEF lot
    <3> QED BY <1>3 DEF Lots
  <2> HIDE DEF lot
  <2> QED BY <1>1, <2>1
<1>6. row \in ClosedRows
  <2> HIDE DEF lot, m
  <2> QED BY <1>3, <1>5, RoundTripView
<1>7. cut \in Seq(Lots) /\ \E p : Stood(p, cut, lots)
  <2>1. lots \in Seq(Lots) /\ i \in DOMAIN lots /\ m \in Nat /\ m <= lots[i].quantity
    BY <1>1, <1>3, <1>5
  <2> HIDE DEF lots, i, m
  <2> QED BY <2>1, CutView
<1>8. b = [book EXCEPT !.remaining = @ - m, !.closed = Append(@, row), !.lots = cut]
  <2>1. cut = IF m = lot.quantity THEN RemoveAt(lots, i)
              ELSE [lots EXCEPT ![i].quantity = lot.quantity - m]
    BY DEF Cut
  <2> HIDE DEF cut
  <2> QED BY <2>1 DEF CloseOldest
<1>9. /\ b \in Books /\ b.remaining = book.remaining - m /\ b.index = book.index
      /\ b.closed = Append(book.closed, row) /\ b.lots = cut
  <2> HIDE DEF lots, i, lot, m, row, cut, b
  <2>1. book.remaining - m \in Nat /\ Append(book.closed, row) \in Seq(ClosedRows)
    BY <1>1, <1>5, <1>6
  <2>2. b = [lots |-> cut, closed |-> Append(book.closed, row), index |-> book.index,
             remaining |-> book.remaining - m]
    BY <1>8 DEF Books
  <2> QED BY <1>1, <1>7, <2>1, <2>2 DEF Books
<1>10. PICK p : Stood(p, b.lots, book.lots)
  <2> HIDE DEF b, cut
  <2> QED BY <1>7, <1>9
<1>11. /\ lot = book.lots[i] /\ IsFirst(book.lots, i, fill.ticker) /\ row = RoundTrip(lot, fill, m)
       /\ b.lots = Cut(book.lots, i, m) /\ b = CloseOldest(book, fill)
  BY <1>2, <1>9
<1> HIDE DEF lots, i, lot, m, row, cut, b
<1> WITNESS i, m, lot, row, p, b
<1> QED BY <1>3, <1>4, <1>5, <1>9, <1>10, <1>11

LEMMA TurnKeepsOrder ==
  ASSUME NEW book, book \in Books, Ordered(book), NEW fill, fill \in NormalFills,
         book.remaining > 0, Closes(book.lots, fill)
  PROVE  CloseOldest(book, fill) \in Books /\ Ordered(CloseOldest(book, fill))
<1>1. PICK i, m, lot, row, p, b :
           /\ b = CloseOldest(book, fill) /\ b \in Books
           /\ lot = book.lots[i] /\ IsFirst(book.lots, i, fill.ticker) /\ lot \in Lots
           /\ lot.direction = -fill.direction
           /\ m \in Nat /\ m <= lot.quantity /\ m <= book.remaining
           /\ b.remaining = book.remaining - m /\ b.index = book.index
           /\ b.closed = Append(book.closed, row) /\ row = RoundTrip(lot, fill, m)
           /\ b.lots = Cut(book.lots, i, m) /\ Stood(p, b.lots, book.lots)
  BY TurnShape
<1>2. /\ i \in DOMAIN book.lots /\ i \in Nat /\ lot.ticker = fill.ticker
      /\ \A k \in DOMAIN book.lots : book.lots[k].ticker = fill.ticker => i <= k
      /\ \A k \in DOMAIN book.lots : k \in Nat /\ book.lots[k].opened \in Nat
      /\ \A k \in DOMAIN book.closed : book.closed[k].opened \in Nat
      /\ book.index \in Nat
  <2>1. \A k \in DOMAIN book.closed : book.closed[k].opened \in Nat
    BY BookType DEF ClosedRows, Rows
  <2>2. \A k \in DOMAIN book.lots : k \in Nat /\ book.lots[k].opened \in Nat
    <3>1. \A k \in DOMAIN book.lots : k \in Nat /\ book.lots[k] \in Lots
      BY BookType
    <3>2. \A l \in Lots : l.opened \in Nat
      BY ONLY DEF Lots
    <3> QED BY ONLY <3>1, <3>2
  <2>3. book.index \in Nat
    BY BookType
  <2>4. /\ i \in DOMAIN book.lots /\ book.lots[i].ticker = fill.ticker
        /\ \A k \in DOMAIN book.lots : book.lots[k].ticker = fill.ticker => i <= k
    BY ONLY <1>1 DEF IsFirst
  <2>5. lot.ticker = fill.ticker
    BY ONLY <1>1, <2>4
  <2> QED BY ONLY <2>1, <2>2, <2>3, <2>4, <2>5
<1>3. row.ticker = fill.ticker /\ row.opened = lot.opened
  BY <1>1, <1>2, RoundTripView
\* The lots that are left, each at its old place.
<1>4. \A j \in DOMAIN b.lots : /\ p[j] \in DOMAIN book.lots
                               /\ b.lots[j].ticker = book.lots[p[j]].ticker
                               /\ b.lots[j].opened = book.lots[p[j]].opened
  BY <1>1 DEF Stood
<1>5. \A j, k \in DOMAIN b.lots : j < k => p[j] < p[k]
  BY <1>1 DEF Stood
\* None of the ticker is older than the lot that was matched.
<1>6. \A k \in DOMAIN book.lots :
        book.lots[k].ticker = fill.ticker => lot.opened <= book.lots[k].opened
  <2> SUFFICES ASSUME NEW k \in DOMAIN book.lots, book.lots[k].ticker = fill.ticker
               PROVE  lot.opened <= book.lots[k].opened
    OBVIOUS
  <2>1. k = i \/ i < k
    BY <1>2
  <2>2. i < k => book.lots[i].opened <= book.lots[k].opened
    BY <1>1, <1>2 DEF Ordered
  <2>3. lot.opened \in Nat /\ lot = book.lots[i]
    BY <1>1, <1>2
  <2> QED BY <2>1, <2>2, <2>3
\* The closed rows, and the new one last.
<1> DEFINE n == Len(book.closed)
<1>7. /\ n \in Nat /\ DOMAIN book.closed = 1..n /\ DOMAIN b.closed = 1..n + 1
      /\ b.closed[n + 1] = row /\ \A j \in 1..n : b.closed[j] = book.closed[j]
  <2>1. book.closed \in Seq(ClosedRows)
    BY BookType
  <2> QED BY <1>1, <2>1
<1> HIDE DEF n
<1>8. \A j \in 1..n + 1 : j \in 1..n \/ j = n + 1
  BY <1>7
<1>9. \A j \in 1..n : book.closed[j].ticker = fill.ticker => book.closed[j].opened <= lot.opened
  BY <1>1, <1>2, <1>7 DEF Ordered
<1>10. \A j, k \in DOMAIN b.lots : j < k /\ b.lots[j].ticker = b.lots[k].ticker =>
         b.lots[j].opened <= b.lots[k].opened
  BY <1>4, <1>5 DEF Ordered
<1>11. \A j \in DOMAIN b.closed, k \in DOMAIN b.lots : b.closed[j].ticker = b.lots[k].ticker =>
         b.closed[j].opened <= b.lots[k].opened
  <2> SUFFICES ASSUME NEW j \in DOMAIN b.closed, NEW k \in DOMAIN b.lots,
                      b.closed[j].ticker = b.lots[k].ticker
               PROVE  b.closed[j].opened <= b.lots[k].opened
    OBVIOUS
  <2>1. CASE j \in 1..n
    BY <1>4, <1>7, <2>1 DEF Ordered
  <2>2. CASE j = n + 1
    BY <1>3, <1>4, <1>6, <1>7, <2>2
  <2> QED BY <1>7, <1>8, <2>1, <2>2
<1>12. \A j, k \in DOMAIN b.closed : j < k /\ b.closed[j].ticker = b.closed[k].ticker =>
         b.closed[j].opened <= b.closed[k].opened
  <2> SUFFICES ASSUME NEW j \in DOMAIN b.closed, NEW k \in DOMAIN b.closed, j < k,
                      b.closed[j].ticker = b.closed[k].ticker
               PROVE  b.closed[j].opened <= b.closed[k].opened
    OBVIOUS
  <2>1. j \in 1..n
    BY <1>7
  <2>2. CASE k \in 1..n
    BY <1>7, <2>1, <2>2 DEF Ordered
  <2>3. CASE k = n + 1
    BY <1>3, <1>7, <1>9, <2>1, <2>3
  <2> QED BY <1>7, <1>8, <2>2, <2>3
<1>13. \A j \in DOMAIN b.lots : b.lots[j].opened <= b.index
  BY <1>1, <1>4 DEF Ordered
<1>14. \A j \in DOMAIN b.closed : b.closed[j].opened <= b.index
  <2> SUFFICES ASSUME NEW j \in DOMAIN b.closed PROVE b.closed[j].opened <= b.index
    OBVIOUS
  <2>1. CASE j \in 1..n
    BY <1>1, <1>7, <2>1 DEF Ordered
  <2>2. CASE j = n + 1
    BY <1>1, <1>2, <1>3, <1>7, <2>2 DEF Ordered
  <2> QED BY <1>7, <1>8, <2>1, <2>2
<1> QED BY <1>1, <1>10, <1>11, <1>12, <1>13, <1>14 DEF Ordered

LEMMA TurnKeepsTotals ==
  ASSUME NEW book, book \in Books, NEW fill, fill \in NormalFills,
         book.remaining > 0, Closes(book.lots, fill)
  PROVE  LET b == CloseOldest(book, fill)
         IN  /\ \A t : Net(b, t) + Due(b, fill, t) = Net(book, t) + Due(book, fill, t)
             /\ Worth(b) - DueCost(b, fill) = Worth(book) - DueCost(book, fill)
<1>1. PICK i, m, lot, row, p, b :
           /\ b = CloseOldest(book, fill) /\ b \in Books
           /\ lot = book.lots[i] /\ IsFirst(book.lots, i, fill.ticker) /\ lot \in Lots
           /\ lot.direction = -fill.direction
           /\ m \in Nat /\ m <= lot.quantity /\ m <= book.remaining
           /\ b.remaining = book.remaining - m /\ b.index = book.index
           /\ b.closed = Append(book.closed, row) /\ row = RoundTrip(lot, fill, m)
           /\ b.lots = Cut(book.lots, i, m) /\ Stood(p, b.lots, book.lots)
  BY TurnShape
<1> DEFINE rest == Left(lot, m)
           d == lot.direction
           fp == fill.price
           lp == lot.price
           lf == lot.fee
           ff == fill.fee
           rem == book.remaining
           fd == fill.direction
<1>2. /\ d \in {1, -1} /\ fd \in {1, -1} /\ fd = -d /\ rem \in Nat /\ m \in Nat
      /\ fp \in Nat /\ lp \in Nat /\ lf \in Nat /\ ff \in Nat
  <2>1. d \in {1, -1} /\ fd \in {1, -1} /\ fp \in Nat /\ lp \in Nat /\ lf \in Nat /\ ff \in Nat
    BY <1>1 DEF Lots, NormalFills, Directions
  <2>2. d = -fd /\ m \in Nat
    BY <1>1
  <2>3. rem \in Nat
    BY BookType
  <2> HIDE DEF d, fd, fp, lp, lf, ff, rem
  <2> QED BY <2>1, <2>2, <2>3
<1>3. i \in DOMAIN book.lots /\ lot.ticker = fill.ticker
  BY <1>1 DEF IsFirst
<1>4. \A w \in [Lots -> Int] : (m = lot.quantity => w[rest] = 0) =>
         SeqSum(w, b.lots) = SeqSum(w, book.lots) + (w[rest] - w[lot])
  <2>1. book.lots \in Seq(Lots) /\ m <= book.lots[i].quantity /\ book.lots[i] = lot
    BY <1>1, BookType
  <2> DEFINE lots == book.lots
  <2>2. \A w \in [Lots -> Int] :
          (m = lots[i].quantity => w[Left(lots[i], m)] = 0) =>
             SeqSum(w, Cut(lots, i, m)) = SeqSum(w, lots) + (w[Left(lots[i], m)] - w[lots[i]])
    <3>1. lots \in Seq(Lots) /\ i \in DOMAIN lots /\ m \in Nat /\ m <= lots[i].quantity
      BY <1>1, <1>3, <2>1
    <3> HIDE DEF lots
    <3> QED BY <3>1, CutView
  <2> QED BY <1>1, <2>1, <2>2
<1>5. /\ \A t : NetWeight(t)[rest] - NetWeight(t)[lot] = IF t = lot.ticker THEN -(d * m) ELSE 0
      /\ CostWeight[rest] - CostWeight[lot] = -(m * (d * lp + lf))
      /\ m = lot.quantity => CostWeight[rest] = 0 /\ \A t : NetWeight(t)[rest] = 0
  BY <1>1, LeftWeights
<1>6. /\ \A t : SeqSum(NetWeight(t), b.lots) \in Int /\ SeqSum(NetWeight(t), book.lots) \in Int
      /\ SeqSum(CostWeight, book.lots) \in Int /\ SeqSum(GainWeight, book.closed) \in Int
  BY <1>1, BookType, WeightTypes, SeqSumIsInt
<1> HIDE DEF rest
<1>7. ASSUME NEW t
      PROVE  Net(b, t) + Due(b, fill, t) = Net(book, t) + Due(book, fill, t)
  <2>1. SeqSum(NetWeight(t), b.lots) =
          SeqSum(NetWeight(t), book.lots) + (NetWeight(t)[rest] - NetWeight(t)[lot])
    BY <1>4, <1>5, WeightTypes
  <2> DEFINE x == SeqSum(NetWeight(t), b.lots)
             y == SeqSum(NetWeight(t), book.lots)
  <2>2. x \in Int /\ y \in Int /\ x = y + IF t = fill.ticker THEN -(d * m) ELSE 0
    BY <1>3, <1>5, <1>6, <2>1
  <2>3. Net(b, t) = x /\ Net(book, t) = y
    BY DEF Net
  <2>4. /\ Due(b, fill, t) = IF t = fill.ticker THEN fd * (rem - m) ELSE 0
        /\ Due(book, fill, t) = IF t = fill.ticker THEN fd * rem ELSE 0
    BY <1>1 DEF Due
  <2>5. fd * (rem - m) = fd * rem + d * m
    <3> HIDE DEF fd, rem, d
    <3> QED BY <1>2
  <2>6. d * m \in Int /\ fd * rem \in Int
    <3> HIDE DEF fd, rem, d
    <3> QED BY <1>2
  <2> HIDE DEF x, y, fd, rem, d
  <2> QED BY <2>2, <2>3, <2>4, <2>5, <2>6
<1>8. Worth(b) - DueCost(b, fill) = Worth(book) - DueCost(book, fill)
  <2> DEFINE g == SeqSum(GainWeight, book.closed)
             c == SeqSum(CostWeight, book.lots)
             gain == (fp - lp) * m * d - m * (lf + ff)
             cost == m * (d * lp + lf)
             dueB == (rem - m) * (fd * fp + ff)
             dueA == rem * (fd * fp + ff)
  <2>1. row \in ClosedRows /\ GainWeight[row] = gain
    BY <1>1, <1>3, RoundTripView
  <2>2. SeqSum(GainWeight, b.closed) = g + gain
    <3>1. SeqSum(GainWeight, Append(book.closed, row)) = g + GainWeight[row]
      <4>1. GainWeight \in [ClosedRows -> Int] /\ book.closed \in Seq(ClosedRows)
        BY WeightTypes, BookType
      <4> QED BY <2>1, <4>1, SeqSumOfAppend
    <3> HIDE DEF gain, g
    <3> QED BY <1>1, <2>1, <3>1
  <2>3. SeqSum(CostWeight, b.lots) = c - cost
    <3>1. SeqSum(CostWeight, b.lots) = c + (CostWeight[rest] - CostWeight[lot])
      BY <1>4, <1>5, WeightTypes
    <3>2. CostWeight[rest] - CostWeight[lot] = -cost
      BY <1>5
    <3>3. c \in Int /\ cost \in Int
      <4>1. d * lp \in Int
        <5> HIDE DEF d, lp
        <5> QED BY <1>2
      <4>2. d * lp + lf \in Int
        <5> HIDE DEF d, lp, lf
        <5> QED BY <1>2, <4>1
      <4>3. cost \in Int
        <5> DEFINE z == d * lp + lf
        <5> HIDE DEF z
        <5> QED BY <1>2, <4>2 DEF z
      <4> QED BY <1>6, <4>3
    <3> HIDE DEF c, cost
    <3> QED BY <3>1, <3>2, <3>3
  <2>4. gain + cost = dueB - dueA
    <3> HIDE DEF d, lp, lf, fp, ff, rem, fd
    <3> QED BY <1>2, TurnArithmetic
  <2>5. g \in Int /\ c \in Int /\ gain \in Int /\ cost \in Int /\ dueA \in Int /\ dueB \in Int
    <3>1. g \in Int /\ c \in Int
      BY <1>6
    <3> HIDE DEF d, lp, lf, fp, ff, rem, fd, g, c
    <3>2. /\ (fp - lp) * m \in Int /\ m * (lf + ff) \in Int /\ d * lp + lf \in Int
          /\ fd * fp + ff \in Int /\ rem - m \in Int
      <4>1. d * lp \in Int /\ fd * fp \in Int
        BY <1>2
      <4> QED BY <1>2, <4>1
    <3>3. (fp - lp) * m * d \in Int
      BY <1>2, <3>2
    <3>4. cost \in Int /\ dueA \in Int /\ dueB \in Int
      BY <1>2, <3>2
    <3> QED BY <3>1, <3>2, <3>3, <3>4
  <2>6. Worth(b) = (g + gain) - (c - cost) /\ Worth(book) = g - c
    <3> HIDE DEF gain, cost
    <3> QED BY <2>2, <2>3 DEF Worth
  <2>7. DueCost(b, fill) = dueB /\ DueCost(book, fill) = dueA
    BY <1>1 DEF DueCost
  <2> HIDE DEF g, c, gain, cost, dueA, dueB
  <2> QED BY <2>4, <2>5, <2>6, <2>7
<1> QED BY <1>1, <1>7, <1>8

-------------------------------------------------------------------------------
(* One fill.                                                                *)

SettledFills == {f \in Fills : f.shares > 0}

LEMMA NormalisedView ==
  ASSUME NEW f, f \in SettledFills
  PROVE  LET fill == Normalised(f)
         IN  /\ fill \in NormalFills /\ fill.ticker = f.ticker /\ fill.quantity = f.shares
             /\ fill.price = f.price /\ fill.fee = f.fees \div f.shares
             /\ fill.direction = IF f.side = "BUY" THEN 1 ELSE -1
<1>1. /\ f.shares \in Nat \ {0} /\ f.fees \in Nat /\ f.price \in Nat /\ f.ticker \in Tickers
  BY DEF SettledFills, Fills
<1>2. f.fees \div f.shares \in Nat
  <2> DEFINE x == f.fees
             y == f.shares
  <2>1. x \in Nat /\ y \in Nat \ {0}
    BY <1>1
  <2> HIDE DEF x, y
  <2>2. x \div y \in Nat
    BY ONLY <2>1
  <2> QED BY <2>2 DEF x, y
<1> DEFINE q == f.fees \div f.shares
           d == IF f.side = "BUY" THEN 1 ELSE -1
<1>3. q \in Nat /\ d \in Directions
  BY <1>2 DEF Directions
<1> HIDE DEF q, d
<1>4. Normalised(f) = [ticker |-> f.ticker, direction |-> d, quantity |-> f.shares,
                       price |-> f.price, fee |-> q]
  BY DEF Normalised, q, d
<1>5. Normalised(f) \in NormalFills
  BY <1>1, <1>3, <1>4 DEF NormalFills
<1> QED BY <1>4, <1>5 DEF q, d

LEMMA OpenRestView ==
  ASSUME NEW book, book \in Books, Ordered(book), NEW fill, fill \in NormalFills
  PROVE  LET b == OpenRest(book, fill)
         IN  /\ b \in Books /\ Ordered(b) /\ b.remaining = 0
             /\ \A t : Net(b, t) = Net(book, t) + Due(book, fill, t)
             /\ Worth(b) = Worth(book) - DueCost(book, fill)
<1> DEFINE b == OpenRest(book, fill)
           lots == book.lots
           rem == book.remaining
           d == fill.direction
           lot == [ticker |-> fill.ticker, direction |-> d, quantity |-> rem,
                   price |-> fill.price, fee |-> fill.fee, opened |-> book.index]
<1>1. /\ lots \in Seq(Lots) /\ book.closed \in Seq(ClosedRows) /\ rem \in Nat /\ book.index \in Nat
      /\ d \in {1, -1} /\ d \in Directions /\ fill.price \in Nat /\ fill.fee \in Nat
      /\ fill.ticker \in Tickers
  BY BookType DEF NormalFills, Directions
<1>2. /\ \A t : Net(book, t) \in Int
      /\ SeqSum(GainWeight, book.closed) \in Int /\ SeqSum(CostWeight, lots) \in Int
      /\ Worth(book) = SeqSum(GainWeight, book.closed) - SeqSum(CostWeight, lots)
      /\ Worth(book) \in Int
  <2>1. \A t : SeqSum(NetWeight(t), lots) \in Int
    BY <1>1, WeightTypes, SeqSumIsInt
  <2>2. SeqSum(GainWeight, book.closed) \in Int /\ SeqSum(CostWeight, lots) \in Int
    BY <1>1, WeightTypes, SeqSumIsInt
  <2> QED BY <2>1, <2>2 DEF Net, Worth
<1>3. CASE rem = 0
  <2>1. b = book
    BY <1>3 DEF OpenRest
  <2>2. \A t : Due(book, fill, t) = 0
    BY <1>1, <1>3 DEF Due
  <2>3. DueCost(book, fill) = 0
    <3>1. d * fill.price + fill.fee \in Int
      BY <1>1
    <3> DEFINE z == d * fill.price + fill.fee
    <3>2. DueCost(book, fill) = rem * z
      BY DEF DueCost
    <3> HIDE DEF z
    <3> QED BY <1>3, <3>1, <3>2 DEF z
  <2> HIDE DEF b
  <2> QED BY <1>2, <1>3, <2>1, <2>2, <2>3 DEF b
<1>4. CASE rem # 0
  <2>1. lot \in Lots
    BY <1>1 DEF Lots
  <2>2. /\ lot.ticker = fill.ticker /\ lot.opened = book.index /\ lot.quantity = rem
        /\ lot.direction = d /\ lot.price = fill.price /\ lot.fee = fill.fee
    OBVIOUS
  <2>3. b = [book EXCEPT !.remaining = 0, !.index = @ + 1, !.lots = Append(@, lot)]
    BY <1>4 DEF OpenRest
  <2> HIDE DEF lot, b
  <2>4. /\ b \in Books /\ b.remaining = 0 /\ b.index = book.index + 1
        /\ b.lots = Append(lots, lot) /\ b.closed = book.closed
    <3>1. Append(lots, lot) \in Seq(Lots) /\ book.index + 1 \in Nat /\ 0 \in Nat
      BY <1>1, <2>1
    <3>2. b = [lots |-> Append(lots, lot), closed |-> book.closed, index |-> book.index + 1,
               remaining |-> 0]
      BY <2>3 DEF Books
    <3> HIDE DEF lots
    <3> QED BY <1>1, <3>1, <3>2 DEF Books
  <2>5. Ordered(b)
    <3> DEFINE n == Len(lots)
    <3>1. /\ n \in Nat /\ DOMAIN lots = 1..n /\ DOMAIN b.lots = 1..n + 1
          /\ b.lots[n + 1] = lot /\ \A j \in 1..n : b.lots[j] = lots[j]
      BY <1>1, <2>4
    <3>2. /\ \A j \in 1..n : lots[j].opened \in Nat /\ lots[j].opened <= book.index
          /\ \A j \in DOMAIN book.closed : /\ book.closed[j].opened \in Nat
                                           /\ book.closed[j].opened <= book.index
      <4>1. \A j \in DOMAIN book.closed : book.closed[j].opened \in Nat
        BY BookType DEF ClosedRows, Rows
      <4>2. \A j \in DOMAIN lots : lots[j].opened \in Nat
        BY BookType DEF Lots
      <4> QED BY <3>1, <4>1, <4>2 DEF Ordered
    <3> HIDE DEF n
    <3>3. \A j \in 1..n + 1 : j \in 1..n \/ j = n + 1
      BY <3>1
    <3>4. \A j, k \in DOMAIN b.lots : j < k /\ b.lots[j].ticker = b.lots[k].ticker =>
            b.lots[j].opened <= b.lots[k].opened
      <4> SUFFICES ASSUME NEW j \in DOMAIN b.lots, NEW k \in DOMAIN b.lots, j < k,
                          b.lots[j].ticker = b.lots[k].ticker
                   PROVE  b.lots[j].opened <= b.lots[k].opened
        OBVIOUS
      <4>1. j \in 1..n
        BY <3>1
      <4>2. CASE k \in 1..n
        BY <3>1, <4>1, <4>2 DEF Ordered
      <4>3. CASE k = n + 1
        BY <2>2, <3>1, <3>2, <4>1, <4>3
      <4> QED BY <3>1, <3>3, <4>2, <4>3
    <3>5. \A j \in DOMAIN b.closed, k \in DOMAIN b.lots : b.closed[j].ticker = b.lots[k].ticker =>
            b.closed[j].opened <= b.lots[k].opened
      <4> SUFFICES ASSUME NEW j \in DOMAIN b.closed, NEW k \in DOMAIN b.lots,
                          b.closed[j].ticker = b.lots[k].ticker
                   PROVE  b.closed[j].opened <= b.lots[k].opened
        OBVIOUS
      <4>1. CASE k \in 1..n
        BY <2>4, <3>1, <4>1 DEF Ordered
      <4>2. CASE k = n + 1
        BY <2>2, <2>4, <3>1, <3>2, <4>2
      <4> QED BY <3>1, <3>3, <4>1, <4>2
    <3>6. \A j, k \in DOMAIN b.closed : j < k /\ b.closed[j].ticker = b.closed[k].ticker =>
            b.closed[j].opened <= b.closed[k].opened
      BY <2>4 DEF Ordered
    <3>7. \A j \in DOMAIN b.lots : b.lots[j].opened <= b.index
      <4> SUFFICES ASSUME NEW j \in DOMAIN b.lots PROVE b.lots[j].opened <= b.index
        OBVIOUS
      <4>1. CASE j \in 1..n
        BY <1>1, <2>4, <3>1, <3>2, <4>1
      <4>2. CASE j = n + 1
        BY <1>1, <2>2, <2>4, <3>1, <4>2
      <4> QED BY <3>1, <3>3, <4>1, <4>2
    <3>8. \A j \in DOMAIN b.closed : b.closed[j].opened <= b.index
      BY <1>1, <2>4, <3>2
    <3> QED BY <3>4, <3>5, <3>6, <3>7, <3>8 DEF Ordered
  <2>6. \A w \in [Lots -> Int] : SeqSum(w, b.lots) = SeqSum(w, lots) + w[lot]
    <3> SUFFICES ASSUME NEW w, w \in [Lots -> Int]
                 PROVE  SeqSum(w, b.lots) = SeqSum(w, lots) + w[lot]
      OBVIOUS
    <3>1. w \in [Lots -> Int] /\ lots \in Seq(Lots) /\ lot \in Lots
      BY <1>1, <2>1
    <3>2. SeqSum(w, Append(lots, lot)) = SeqSum(w, lots) + w[lot]
      BY ONLY <3>1, SeqSumOfAppend
    <3> QED BY <2>4, <3>2
  <2>7. ASSUME NEW t
        PROVE  Net(b, t) = Net(book, t) + Due(book, fill, t)
    <3>1. SeqSum(NetWeight(t), b.lots) = SeqSum(NetWeight(t), lots) + NetWeight(t)[lot]
      BY <2>6, WeightTypes
    <3>2. NetWeight(t)[lot] = Due(book, fill, t)
      BY <2>1, <2>2 DEF NetWeight, Due
    <3> QED BY <3>1, <3>2 DEF Net
  <2>8. Worth(b) = Worth(book) - DueCost(book, fill)
    <3>1. SeqSum(CostWeight, b.lots) = SeqSum(CostWeight, lots) + CostWeight[lot]
      BY <2>6, WeightTypes
    <3>2. CostWeight[lot] = DueCost(book, fill)
      BY <2>1, <2>2 DEF CostWeight, DueCost
    <3>3. CostWeight[lot] \in Int
      BY <2>1, WeightTypes
    <3>4. Worth(b) = SeqSum(GainWeight, book.closed) - (SeqSum(CostWeight, lots) + CostWeight[lot])
      BY <2>4, <3>1 DEF Worth
    <3> HIDE DEF lots
    <3> QED BY <1>2, <3>2, <3>3, <3>4
  <2> QED BY <2>4, <2>5, <2>7, <2>8 DEF b
<1> QED BY <1>3, <1>4

LEMMA PairFillView ==
  ASSUME NEW book, book \in Books, Ordered(book), NEW f, f \in SettledFills
  PROVE  LET b    == PairFill(book, f)
             fill == Normalised(f)
         IN  /\ b \in Books /\ Ordered(b) /\ b.remaining = 0
             /\ \A t : Net(b, t) = Net(book, t) +
                                     IF t = f.ticker THEN fill.direction * f.shares ELSE 0
             /\ Worth(b) = Worth(book) - f.shares * (fill.direction * f.price + fill.fee)
<1> DEFINE fill == Normalised(f)
           start == [book EXCEPT !.remaining = fill.quantity]
           V == {b \in Books :
                   /\ Ordered(b)
                   /\ \A t : Net(b, t) + Due(b, fill, t) = Net(start, t) + Due(start, fill, t)
                   /\ Worth(b) - DueCost(b, fill) = Worth(start) - DueCost(start, fill)}
           left == CloseLots(start, fill)
<1>1. /\ fill \in NormalFills /\ fill.ticker = f.ticker /\ fill.quantity = f.shares
      /\ fill.price = f.price /\ f.shares \in Nat
  BY NormalisedView DEF SettledFills, Fills
<1> HIDE DEF fill
<1>2. /\ start \in Books /\ start.remaining = f.shares /\ start.lots = book.lots
      /\ start.closed = book.closed /\ start.index = book.index
  BY <1>1 DEF Books
<1> HIDE DEF start
<1>3. Ordered(start) /\ Worth(start) = Worth(book) /\ \A t : Net(start, t) = Net(book, t)
  BY <1>2 DEF Ordered, Worth, Net
<1>4. start \in V
  BY <1>2, <1>3
<1>5. \A b \in V : b.remaining > 0 /\ Closes(b.lots, fill) => CloseOldest(b, fill) \in V
  <2> SUFFICES ASSUME NEW b \in V, b.remaining > 0, Closes(b.lots, fill)
               PROVE  CloseOldest(b, fill) \in V
    OBVIOUS
  <2>1. b \in Books /\ Ordered(b) /\ fill \in NormalFills
    BY <1>1
  <2>2. CloseOldest(b, fill) \in Books /\ Ordered(CloseOldest(b, fill))
    BY <2>1, TurnKeepsOrder
  <2>3. /\ \A t : Net(CloseOldest(b, fill), t) + Due(CloseOldest(b, fill), fill, t) =
                    Net(b, t) + Due(b, fill, t)
        /\ Worth(CloseOldest(b, fill)) - DueCost(CloseOldest(b, fill), fill) =
             Worth(b) - DueCost(b, fill)
    BY <2>1, TurnKeepsTotals
  <2> QED BY <2>2, <2>3
<1>6. left \in V
  <2> DEFINE n == Len(start.lots)
  <2>1. start \in V /\ n \in Nat /\ DOMAIN start.lots = 1..n
    BY <1>2, <1>4, BookType
  <2> HIDE DEF V, n
  <2> QED BY <1>5, <2>1, CloseLotsStays
<1>7. left \in Books /\ Ordered(left)
  BY <1>6
<1>8. /\ \A t : Net(left, t) + Due(left, fill, t) = Net(start, t) + Due(start, fill, t)
      /\ Worth(left) - DueCost(left, fill) = Worth(start) - DueCost(start, fill)
  BY <1>6
<1> HIDE DEF V, left
<1> DEFINE b == OpenRest(left, fill)
<1>9. /\ b \in Books /\ Ordered(b) /\ b.remaining = 0
      /\ \A t : Net(b, t) = Net(left, t) + Due(left, fill, t)
      /\ Worth(b) = Worth(left) - DueCost(left, fill)
  BY <1>1, <1>7, OpenRestView
<1>10. PairFill(book, f) = b
  BY DEF PairFill, fill, start, left
<1>11. /\ \A t : Due(start, fill, t) = IF t = f.ticker THEN fill.direction * f.shares ELSE 0
       /\ DueCost(start, fill) = f.shares * (fill.direction * f.price + fill.fee)
  BY <1>1, <1>2 DEF Due, DueCost
<1> HIDE DEF b
<1> QED BY <1>3, <1>8, <1>9, <1>10, <1>11 DEF fill

-------------------------------------------------------------------------------
(* The account is the book of its fills.                                    *)

Explained ==
    /\ trade_log \in Seq(SettledFills)
    /\ \A t \in Tickers : positions[t] = Net(Book(trade_log), t)
    /\ cash = Capital + Worth(Book(trade_log))

OrderedBooks == {b \in Books : Ordered(b)}

LEMMA BooksAreKept == Keeps(OrderedBooks, SettledFills)
<1>1. EmptyBook \in Books
  <2>1. <<>> \in Seq(Lots) /\ <<>> \in Seq(ClosedRows) /\ 0 \in Nat
    OBVIOUS
  <2> QED BY <2>1 DEF EmptyBook, Books
<1>2. Ordered(EmptyBook)
  <2>1. /\ EmptyBook.lots = <<>> /\ EmptyBook.closed = <<>>
        /\ DOMAIN EmptyBook.lots = {} /\ DOMAIN EmptyBook.closed = {}
    BY DEF EmptyBook
  <2> QED BY <2>1 DEF Ordered
<1>3. \A b \in OrderedBooks, f \in SettledFills : PairFill(b, f) \in OrderedBooks
  BY PairFillView DEF OrderedBooks
<1> QED BY <1>1, <1>2, <1>3 DEF Keeps, OrderedBooks

LEMMA BookView ==
  ASSUME NEW log, log \in Seq(SettledFills)
  PROVE  Book(log) \in Books /\ Ordered(Book(log))
<1> DEFINE f == [ticker |-> CHOOSE t \in Tickers : TRUE, side |-> "BUY", shares |-> 1, price |-> 0,
                 fees |-> 0]
<1>1. f \in SettledFills
  BY AccountAssumption DEF SettledFills, Fills
<1> HIDE DEF f
<1>2. Book(log) \in OrderedBooks
  BY <1>1, BooksAreKept, BookOfAppend
<1> QED BY <1>2 DEF OrderedBooks

LEMMA ExplainedInit == Init => Explained
<1> SUFFICES ASSUME Init PROVE Explained
  OBVIOUS
<1>1. trade_log = <<>> /\ cash = Capital /\ \A t \in Tickers : positions[t] = 0
  BY DEF Init, InitAccount
<1>2. Book(trade_log) = EmptyBook
  BY <1>1, BookOfEmpty
<1>3. EmptyBook.lots = <<>> /\ EmptyBook.closed = <<>>
  BY DEF EmptyBook
<1>4. \A t : Net(EmptyBook, t) = 0
  BY <1>3, WeightTypes, SeqSumOfEmpty DEF Net
<1>5. Worth(EmptyBook) = 0
  <2>1. SeqSum(GainWeight, <<>>) = 0 /\ SeqSum(CostWeight, <<>>) = 0
    BY WeightTypes, SeqSumOfEmpty
  <2> QED BY <1>3, <2>1 DEF Worth
<1>6. <<>> \in Seq(SettledFills) /\ Capital + 0 = Capital
  BY AccountAssumption
<1> QED BY <1>1, <1>2, <1>4, <1>5, <1>6 DEF Explained

LEMMA FeeOfShare ==
  ASSUME NEW n, n \in Nat \ {0}, NEW x, x \in Nat
  PROVE  (n * x) \div n = x
<1> DEFINE a == n * x
           q == a \div n
<1>1. a \in Nat
  BY NatProduct
<1>2. a \div n \in Int /\ n * (a \div n) <= a /\ a < n * (a \div n) + n
  <2> HIDE DEF a
  <2> QED BY <1>1
<1> HIDE DEF q
<1>3. q \in Int /\ n * q <= n * x /\ n * x < n * q + n
  BY <1>2 DEF q
<1>4. q <= x
  BY <1>3, ProductCancel
<1>5. x <= q
  <2> SUFFICES ASSUME q + 1 <= x PROVE FALSE
    BY <1>3
  <2>1. n * (q + 1) <= n * x
    BY <1>3, ProductOrder
  <2>2. n * (q + 1) = n * q + n /\ n * q \in Int /\ n * x \in Int
    BY <1>3
  <2> QED BY <1>3, <2>1, <2>2
<1> QED BY <1>3, <1>4, <1>5 DEF q

LEMMA SettleExplained ==
  ASSUME Explained, AccountTypeOK, NEW t, t \in Tickers, NEW side, side \in Sides,
         NEW n, n \in Nat \ {0}, NEW p, p \in Nat, Settle(t, side, n, p)
  PROVE  Explained'
<1> DEFINE f == [ticker |-> t, side |-> side, shares |-> n, price |-> p, fees |-> n * Fee]
           fill == Normalised(f)
           book == Book(trade_log)
<1>1. /\ cash' = (IF side = "BUY" THEN cash - n * p ELSE cash + n * p) - n * Fee
      /\ positions' = [positions EXCEPT ![t] = IF side = "BUY" THEN @ + n ELSE @ - n]
      /\ trade_log' = Append(trade_log, f)
  BY DEF Settle
<1>2. /\ n * Fee \in Nat /\ n * p \in Nat /\ Fee \in Nat /\ cash \in Int
      /\ positions \in [Tickers -> Int] /\ side \in {"BUY", "SELL"}
  BY AccountAssumption, NatProduct DEF AccountTypeOK, Sides
<1>3. f \in SettledFills
  BY <1>2 DEF SettledFills, Fills
<1>4. f.ticker = t /\ f.side = side /\ f.shares = n /\ f.price = p /\ f.fees = n * Fee
  OBVIOUS
<1> HIDE DEF f
<1>5. fill.direction = (IF side = "BUY" THEN 1 ELSE -1) /\ fill.fee = Fee
  <2>1. (n * Fee) \div n = Fee
    BY <1>2, FeeOfShare
  <2> QED BY <1>3, <1>4, <2>1, NormalisedView
<1> HIDE DEF fill
<1>6. trade_log \in Seq(SettledFills) /\ trade_log' \in Seq(SettledFills)
  BY <1>1, <1>3 DEF Explained
<1>7. book \in Books /\ Ordered(book)
  BY <1>6, BookView
<1>8. Book(trade_log') = PairFill(book, f)
  BY <1>1, <1>3, <1>6, BooksAreKept, BookOfAppend
<1> HIDE DEF book
<1> DEFINE next == PairFill(book, f)
<1>9. /\ \A u : Net(next, u) = Net(book, u) + IF u = f.ticker THEN fill.direction * f.shares ELSE 0
      /\ Worth(next) = Worth(book) - f.shares * (fill.direction * f.price + fill.fee)
  BY <1>3, <1>7, PairFillView DEF fill
<1> HIDE DEF next
<1>10. /\ \A u \in Tickers : positions[u] = Net(book, u)
       /\ cash = Capital + Worth(book)
  BY DEF Explained, book
<1>11. ASSUME NEW u \in Tickers
       PROVE  positions'[u] = Net(next, u)
  <2>1. positions[u] \in Int /\ positions[u] = Net(book, u)
    BY <1>2, <1>10
  <2>2. CASE u = t
    <3>1. positions'[u] = IF side = "BUY" THEN positions[u] + n ELSE positions[u] - n
      BY <1>1, <1>2, <2>2
    <3>2. Net(next, u) = Net(book, u) + (IF side = "BUY" THEN 1 ELSE -1) * n
      BY <1>4, <1>5, <1>9, <2>2
    <3> QED BY <2>1, <3>1, <3>2
  <2>3. CASE u # t
    BY <1>1, <1>2, <1>4, <1>9, <2>1, <2>3
  <2> QED BY <2>2, <2>3
<1>12. cash' = Capital + Worth(next)
  <2>1. Worth(next) = Worth(book) - n * ((IF side = "BUY" THEN 1 ELSE -1) * p + Fee)
    BY <1>4, <1>5, <1>9
  <2>2. Worth(book) \in Int /\ Capital \in Int
    <3>1. SeqSum(GainWeight, book.closed) \in Int /\ SeqSum(CostWeight, book.lots) \in Int
      BY <1>7, BookType, WeightTypes, SeqSumIsInt
    <3> QED BY <3>1, AccountAssumption DEF Worth
  <2> DEFINE x == n * p
             y == n * Fee
  <2>3. x \in Int /\ y \in Int /\ cash \in Int
    BY <1>2
  <2>4. CASE side = "BUY"
    <3>1. n * (1 * p + Fee) = n * p + n * Fee
      BY <1>2
    <3>2. Worth(next) = Worth(book) - (x + y)
      BY ONLY <2>1, <2>4, <3>1
    <3>3. cash' = cash - x - y
      BY <1>1, <2>4
    <3> HIDE DEF x, y
    <3> QED BY ONLY <1>10, <2>2, <2>3, <3>2, <3>3
  <2>5. CASE side # "BUY"
    <3>1. n * ((-1) * p + Fee) = n * Fee - n * p
      BY <1>2
    <3>2. Worth(next) = Worth(book) - (y - x)
      BY ONLY <2>1, <2>5, <3>1
    <3>3. cash' = (cash + x) - y
      BY <1>1, <2>5
    <3> HIDE DEF x, y
    <3> QED BY ONLY <1>10, <2>2, <2>3, <3>2, <3>3
  <2> QED BY <2>4, <2>5
<1> QED BY <1>6, <1>8, <1>11, <1>12 DEF Explained, next

LEMMA ExplainedNext ==
  ASSUME Solvent, Explained, [Next]_vars
  PROVE  Explained'
<1>1. CASE OnData
  <2>1. PICK o \in Orders :
            /\ phase = "OnData" /\ o.confidence > 0 /\ o.arrival = closes[o.ticker]
            /\ ExecuteTrade(o, port, Shut(now)) /\ placed' = placed + 1
            /\ UNCHANGED <<loopVars, phase, port, perf_records, final_prices>>
    BY <1>1, OrderView DEF Solvent
  <2> DEFINE s == Sizing(o, port, Shut(now))
  <2>2. /\ AccountTypeOK /\ port \in Int /\ cash >= 0 /\ o.ticker \in Tickers
    BY DEF Solvent, TypeOK, Orders
  <2>3. s.side \in Sides /\ s.price \in Nat /\ s.shares \in Int
    BY <2>2, SizingView
  <2>4. IF s.shares > 0 THEN Settle(o.ticker, s.side, s.shares, s.price)
        ELSE UNCHANGED <<cash, positions, trade_log>>
    BY <2>1 DEF ExecuteTrade
  <2> HIDE DEF s
  <2>5. CASE s.shares > 0
    BY <2>2, <2>3, <2>4, <2>5, SettleExplained
  <2>6. CASE ~(s.shares > 0)
    BY <2>4, <2>6 DEF Explained
  <2> QED BY <2>5, <2>6
<1>2. ASSUME UNCHANGED <<cash, positions, trade_log>> PROVE Explained'
  BY <1>2 DEF Explained
<1>3. CASE Bar \/ Sampled \/ StrategyRaises \/ Cancelled \/ Finish \/ NoMarketData \/ UNCHANGED vars
  <2>1. UNCHANGED <<cash, positions, trade_log>>
    BY <1>3 DEF Bar, Sampled, StrategyRaises, Cancelled, Finish, NoMarketData, vars, account
  <2> QED BY <1>2, <2>1
<1> QED BY <1>1, <1>3 DEF Next

-------------------------------------------------------------------------------
(* The trade table.                                                         *)

OpenRows(book) == [i \in DOMAIN book.lots |-> OpenRow(book.lots[i])]

LEMMA OpenRowType ==
  ASSUME NEW lot, lot \in Lots
  PROVE  /\ OpenRow(lot) \in Rows /\ ~OpenRow(lot).closed
         /\ OpenRow(lot).ticker = lot.ticker /\ OpenRow(lot).opened = lot.opened
         /\ OpenRow(lot).direction = lot.direction /\ OpenRow(lot).entry = lot.price
         /\ OpenRow(lot).quantity = lot.quantity /\ OpenRow(lot).pnl = 0
         /\ OpenRow(lot).fees = lot.quantity * lot.fee
<1>1. /\ lot.quantity \in Nat /\ lot.fee \in Nat /\ lot.ticker \in Tickers /\ lot.price \in Nat
      /\ lot.direction \in Directions /\ lot.opened \in Nat
  BY DEF Lots
<1> DEFINE fees == lot.quantity * lot.fee
<1>2. fees \in Nat
  BY <1>1, NatProduct
<1> HIDE DEF fees
<1>3. OpenRow(lot) = [ticker |-> lot.ticker, direction |-> lot.direction, opened |-> lot.opened,
                      entry |-> lot.price, exit |-> 0, closed |-> FALSE,
                      quantity |-> lot.quantity, pnl |-> 0, fees |-> fees]
  BY DEF OpenRow, fees
<1>4. OpenRow(lot) \in Rows
  BY <1>1, <1>2, <1>3 DEF Rows
<1> QED BY <1>3, <1>4 DEF fees

LEMMA RowsView ==
  ASSUME NEW book, book \in Books
  PROVE  /\ book.closed \in Seq(Rows) /\ OpenRows(book) \in Seq(Rows)
         /\ DOMAIN OpenRows(book) = DOMAIN book.lots
         /\ \A i \in DOMAIN book.lots : OpenRows(book)[i] = OpenRow(book.lots[i])
         /\ \A u \in [Rows -> Int] : SeqSum(u, book.closed \o OpenRows(book)) =
                                       SeqSum(u, book.closed) + SeqSum(u, OpenRows(book))
<1> DEFINE open == OpenRows(book)
           n == Len(book.lots)
<1>1. n \in Nat /\ DOMAIN book.lots = 1..n /\ \A i \in 1..n : OpenRow(book.lots[i]) \in Rows
  BY BookType, OpenRowType
<1>2. open \in [1..n -> Rows]
  <2> HIDE DEF n
  <2> QED BY <1>1 DEF OpenRows
<1>3. open \in Seq(Rows)
  <2> HIDE DEF open, n
  <2> QED BY <1>1, <1>2
<1>4. book.closed \in Seq(Rows)
  <2>1. book.closed \in Seq(ClosedRows) /\ ClosedRows \subseteq Rows
    BY BookType DEF ClosedRows
  <2> HIDE DEF open
  <2> QED BY <2>1
<1>5. \A u \in [Rows -> Int] : SeqSum(u, book.closed \o open) =
                                 SeqSum(u, book.closed) + SeqSum(u, open)
  <2> SUFFICES ASSUME NEW u, u \in [Rows -> Int]
               PROVE  SeqSum(u, book.closed \o open) = SeqSum(u, book.closed) + SeqSum(u, open)
    OBVIOUS
  <2> DEFINE c == book.closed
  <2>1. u \in [Rows -> Int] /\ c \in Seq(Rows) /\ open \in Seq(Rows)
    BY <1>3, <1>4
  <2> HIDE DEF open, c
  <2>2. SeqSum(u, c \o open) = SeqSum(u, c) + SeqSum(u, open)
    BY ONLY <2>1, SeqSumOfConcat
  <2> QED BY <2>2 DEF c
<1>6. DOMAIN open = DOMAIN book.lots /\ \A i \in DOMAIN book.lots : open[i] = OpenRow(book.lots[i])
  BY DEF OpenRows
<1> HIDE DEF open
<1> QED BY <1>3, <1>4, <1>5, <1>6 DEF open

\* The rows of a ticker are in the order their lots were opened.
LEMMA RowsAreOrdered ==
  ASSUME NEW book, book \in Books, Ordered(book), NEW rows, rows = book.closed \o OpenRows(book)
  PROVE  \A i, k \in DOMAIN rows :
           i < k /\ rows[i].ticker = rows[k].ticker => rows[i].opened <= rows[k].opened
<1> DEFINE c == book.closed
           o == OpenRows(book)
           m == Len(c)
           n == Len(o)
<1>1. c \in Seq(Rows) /\ o \in Seq(Rows) /\ DOMAIN o = DOMAIN book.lots
  BY RowsView
<1>2. \A i \in DOMAIN o : o[i].ticker = book.lots[i].ticker /\ o[i].opened = book.lots[i].opened
  <2>1. \A i \in DOMAIN book.lots : o[i] = OpenRow(book.lots[i]) /\ book.lots[i] \in Lots
    BY RowsView, BookType
  <2> HIDE DEF o
  <2> QED BY <1>1, <2>1, OpenRowType
<1>3. rows = c \o o
  OBVIOUS
<1> HIDE DEF c, o
<1>4. /\ m \in Nat /\ n \in Nat /\ DOMAIN c = 1..m /\ DOMAIN o = 1..n /\ DOMAIN rows = 1..m + n
      /\ \A j \in 1..m : rows[j] = c[j]
      /\ \A j \in 1..n : rows[m + j] = o[j]
  BY <1>1, <1>3
<1> HIDE DEF m, n
<1>5. \A j \in 1..m + n : j \in 1..m \/ (j - m \in 1..n /\ m + (j - m) = j)
  BY <1>4
<1> SUFFICES ASSUME NEW i \in DOMAIN rows, NEW k \in DOMAIN rows, i < k,
                    rows[i].ticker = rows[k].ticker
             PROVE  rows[i].opened <= rows[k].opened
  OBVIOUS
<1>6. CASE k \in 1..m
  <2>1. i \in 1..m
    BY <1>4, <1>6
  <2> QED BY <1>4, <1>6, <2>1 DEF Ordered, c
<1>7. CASE k \notin 1..m
  <2> DEFINE kk == k - m
             ii == i - m
  <2>1. kk \in 1..n /\ rows[k] = o[kk]
    BY <1>4, <1>5, <1>7
  <2>2. CASE i \in 1..m
    <3> HIDE DEF kk
    <3>1. /\ i \in DOMAIN c /\ rows[i] = c[i] /\ kk \in DOMAIN book.lots
          /\ rows[k].ticker = book.lots[kk].ticker /\ rows[k].opened = book.lots[kk].opened
      <4>1. kk \in DOMAIN o /\ rows[k] = o[kk] /\ kk \in DOMAIN book.lots
        BY ONLY <1>1, <1>4, <2>1
      <4>2. i \in DOMAIN c /\ rows[i] = c[i]
        BY ONLY <1>4, <2>2
      <4> QED BY ONLY <1>2, <4>1, <4>2
    <3>2. \A x \in DOMAIN c, y \in DOMAIN book.lots :
            c[x].ticker = book.lots[y].ticker => c[x].opened <= book.lots[y].opened
      BY DEF Ordered, c
    <3> QED BY <3>1, <3>2
  <2>3. CASE i \notin 1..m
    <3>1. ii \in 1..n /\ rows[i] = o[ii] /\ ii < kk
      <4>1. i \in 1..m + n /\ k \in 1..m + n /\ i < k
        BY <1>4
      <4>2. ii \in 1..n /\ m + ii = i
        BY ONLY <1>5, <2>3, <4>1
      <4>3. ii < kk
        BY ONLY <1>4, <4>1
      <4>4. rows[m + ii] = o[ii]
        BY ONLY <1>4, <4>2
      <4> QED BY ONLY <4>2, <4>3, <4>4
    <3> HIDE DEF kk, ii
    <3>2. /\ ii \in DOMAIN book.lots /\ kk \in DOMAIN book.lots
          /\ rows[k].ticker = book.lots[kk].ticker /\ rows[k].opened = book.lots[kk].opened
          /\ rows[i].ticker = book.lots[ii].ticker /\ rows[i].opened = book.lots[ii].opened
      BY <1>1, <1>2, <1>4, <2>1, <3>1
    <3>3. \A x, y \in DOMAIN book.lots :
            x < y /\ book.lots[x].ticker = book.lots[y].ticker =>
              book.lots[x].opened <= book.lots[y].opened
      BY DEF Ordered
    <3> QED BY <3>1, <3>2, <3>3
  <2> QED BY <2>2, <2>3
<1> QED BY <1>6, <1>7

\* The open rows add up to the net position.
LEMMA RowsHoldNet ==
  ASSUME NEW book, book \in Books, NEW t,
         NEW u, u = [r \in Rows |-> IF r.ticker = t /\ ~r.closed THEN r.direction * r.quantity
                                    ELSE 0]
  PROVE  u \in [Rows -> Int] /\ SeqSum(u, book.closed \o OpenRows(book)) = Net(book, t)
<1>1. u \in [Rows -> Int]
  <2>1. \A r \in Rows : r.direction * r.quantity \in Int
    BY DEF Rows, Directions
  <2> QED BY <2>1
<1>2. SeqSum(u, book.closed) = 0
  <2>1. /\ \A i \in DOMAIN book.closed : book.closed[i] \in Rows /\ book.closed[i].closed
        /\ IsFiniteSet(DOMAIN book.closed)
    BY BookType, SeqView DEF ClosedRows
  <2> DEFINE f == [i \in DOMAIN book.closed |-> u[book.closed[i]]]
             D == DOMAIN book.closed
  <2>2. f \in [D -> {0}] /\ IsFiniteSet(D)
    BY <2>1
  <2>3. SumFunction(f) = 0
    <3> HIDE DEF f, D
    <3> QED BY ONLY <2>2, SumOfZeros
  <2> QED BY <2>3 DEF SeqSum
<1>3. SeqSum(u, OpenRows(book)) = SeqSum(NetWeight(t), book.lots)
  <2> DEFINE o == OpenRows(book)
             l == book.lots
             w == NetWeight(t)
  <2>1. \A i \in DOMAIN l : l[i] \in Lots /\ o[i] = OpenRow(l[i])
    BY RowsView, BookType
  <2>2. DOMAIN o = DOMAIN l
    BY RowsView
  <2> HIDE DEF o, l
  <2>3. \A i \in DOMAIN l : u[o[i]] = w[l[i]]
    <3> SUFFICES ASSUME NEW i \in DOMAIN l PROVE u[o[i]] = w[l[i]]
      OBVIOUS
    <3>1. /\ o[i] \in Rows /\ ~o[i].closed /\ o[i].ticker = l[i].ticker
          /\ o[i].direction = l[i].direction /\ o[i].quantity = l[i].quantity /\ l[i] \in Lots
      BY <2>1, OpenRowType
    <3> QED BY <3>1 DEF NetWeight
  <2> HIDE DEF w
  <2>4. SeqSum(u, o) = SeqSum(w, l)
    BY ONLY <2>2, <2>3, SeqSumOfMap
  <2> QED BY <2>4 DEF o, l, w
<1>4. SeqSum(NetWeight(t), book.lots) \in Int
  BY BookType, WeightTypes, SeqSumIsInt
<1>5. SeqSum(u, book.closed \o OpenRows(book)) =
        SeqSum(u, book.closed) + SeqSum(u, OpenRows(book))
  BY <1>1, RowsView
<1> QED BY <1>1, <1>2, <1>3, <1>4, <1>5 DEF Net

LEMMA MarkArithmetic ==
  ASSUME NEW d, d \in {1, -1}, NEW q, q \in Nat, NEW x, x \in Nat, NEW y, y \in Nat,
         NEW f, f \in Nat
  PROVE  /\ d * (x - y) * q \in Int /\ q * f \in Int /\ q * (d * y + f) \in Int
         /\ (d * q) * x = (d * (x - y) * q - q * f) + q * (d * y + f)
<1> DEFINE a == q * x
           b == q * y
           c == q * f
<1>1. a \in Int /\ b \in Int /\ c \in Int /\ (x - y) * q = a - b
  OBVIOUS
<1>2. d = 1 \/ d = -1
  OBVIOUS
<1>3. d = 1 => /\ d * (x - y) * q = a - b /\ q * (d * y + f) = b + c /\ (d * q) * x = a
  BY <1>1
<1>4. d = -1 => /\ d * (x - y) * q = b - a /\ q * (d * y + f) = c - b /\ (d * q) * x = -a
  BY <1>1
<1>5. q * f = c
  OBVIOUS
<1> HIDE DEF a, b, c
<1> QED BY <1>1, <1>2, <1>3, <1>4, <1>5

MarkWeight(prices) == [l \in Lots |-> (l.direction * l.quantity) * prices[l.ticker]]

\* The positions are the book's, and their value at the prices.
Holds(held, book) == held \in [Tickers -> Int] /\ \A t \in Tickers : held[t] = Net(book, t)

MarketValue(held, prices) == SumFunction([t \in Tickers |-> held[t] * prices[t]])

\* What the open lots are worth at the prices is what the positions are worth.
LEMMA LotsAreWorthNet ==
  ASSUME NEW book, book \in Books, NEW prices, prices \in [Tickers -> Nat],
         NEW held, Holds(held, book)
  PROVE  SeqSum(MarkWeight(prices), book.lots) = MarketValue(held, prices)
<1> USE DEF Holds
<1> DEFINE mark == MarkWeight(prices)
           lots == book.lots
           D == DOMAIN lots
           k == [i \in D |-> lots[i].ticker]
           q == [i \in D |-> lots[i].direction * lots[i].quantity]
           parts == [t \in Tickers |-> [i \in D |-> NetWeight(t)[lots[i]]]]
           a == [t \in Tickers |-> held[t] * prices[t]]
           b == [i \in D |-> mark[lots[i]]]
<1>1. IsFiniteSet(D) /\ \A i \in D : lots[i] \in Lots
  BY BookType, SeqView
<1>2. \A l \in Lots : l.direction * l.quantity \in Int /\ l.ticker \in Tickers
  BY DEF Lots, Directions
<1>3. \A l \in Lots : (l.direction * l.quantity) * prices[l.ticker] \in Int
  <2> SUFFICES ASSUME NEW l \in Lots
               PROVE  (l.direction * l.quantity) * prices[l.ticker] \in Int
    OBVIOUS
  <2> DEFINE x == l.direction * l.quantity
  <2>1. x \in Int /\ prices[l.ticker] \in Int
    BY <1>2
  <2> HIDE DEF x
  <2>2. x * prices[l.ticker] \in Int
    BY <2>1
  <2> QED BY <2>2 DEF x
<1>4. /\ mark \in [Lots -> Int]
      /\ \A l \in Lots : mark[l] = (l.direction * l.quantity) * prices[l.ticker]
  BY <1>3 DEF MarkWeight
<1> HIDE DEF lots, mark
<1>5. k \in [D -> Tickers] /\ q \in [D -> Int] /\ b \in [D -> Int]
  <2> HIDE DEF D
  <2> QED BY <1>1, <1>2, <1>4
<1>6. \A t \in Tickers : /\ parts[t] \in [D -> Int] /\ Net(book, t) = SumFunction(parts[t])
                         /\ \A i \in D : parts[t][i] = IF k[i] = t THEN q[i] ELSE 0
  <2> SUFFICES ASSUME NEW t \in Tickers
               PROVE  /\ parts[t] \in [D -> Int] /\ Net(book, t) = SumFunction(parts[t])
                      /\ \A i \in D : parts[t][i] = IF k[i] = t THEN q[i] ELSE 0
    OBVIOUS
  <2>1. Net(book, t) = SumFunction(parts[t])
    BY DEF Net, SeqSum, lots
  <2>2. \A i \in D : parts[t][i] = IF k[i] = t THEN q[i] ELSE 0
    BY <1>1 DEF NetWeight
  <2>3. parts[t] \in [D -> Int]
    <3> HIDE DEF D
    <3> QED BY <1>1, WeightTypes
  <2> QED BY <2>1, <2>2, <2>3
<1>7. prices \in [Tickers -> Int]
  OBVIOUS
<1>8. a \in [Tickers -> Int]
  <2>1. \A t \in Tickers : held[t] \in Int /\ prices[t] \in Int
    OBVIOUS
  <2> QED BY <2>1
<1>9. \A i \in D : b[i] = q[i] * prices[k[i]]
  BY <1>1, <1>4
<1>10. Grouping(D, Tickers, k, q, prices, parts, held, a, b)
  <2>1. \A t \in Tickers : held[t] = SumFunction(parts[t]) /\ a[t] = held[t] * prices[t]
    <3> HIDE DEF parts
    <3> QED BY <1>6
  <2> HIDE DEF D, k, q, parts, a, b
  <2> QED BY <1>1, <1>5, <1>6, <1>7, <1>8, <1>9, <2>1, AccountAssumption DEF Grouping
<1>11. SumFunction(a) = SumFunction(b)
  <2> HIDE DEF D, k, q, parts, a, b
  <2> QED BY ONLY <1>10, SumByGroup
<1>12. SeqSum(mark, lots) = SumFunction(b)
  BY DEF SeqSum
<1> HIDE DEF b
<1> QED BY <1>11, <1>12 DEF lots, mark, MarketValue

\* The rows of pair_fills: the round trips, then the open lots.
Table(book) == book.closed \o OpenRows(book)

\* What a row adds to the realised profit, the unrealised profit and the fees.
RowValues(pnl, open, paid, prices) ==
    /\ pnl = [r \in Rows |-> r.pnl]
    /\ open = [r \in Rows |-> IF r.closed THEN 0
                              ELSE r.direction * (prices[r.ticker] - r.entry) * r.quantity]
    /\ paid = [r \in Rows |-> r.fees]

\* Profits less fees, row by row, are what the book and the positions are worth.
LEMMA RowsAddUp ==
  ASSUME NEW book, book \in Books, NEW prices, prices \in [Tickers -> Nat],
         NEW held, Holds(held, book),
         NEW pnl, NEW open, NEW paid, RowValues(pnl, open, paid, prices)
  PROVE  /\ Table(book) \in Seq(Rows)
         /\ SeqSum(pnl, Table(book)) + SeqSum(open, Table(book)) - SeqSum(paid, Table(book)) =
              Worth(book) + MarketValue(held, prices)
         /\ SeqSum(pnl, Table(book)) \in Int /\ SeqSum(open, Table(book)) \in Int
         /\ SeqSum(paid, Table(book)) \in Int
         /\ Worth(book) \in Int /\ MarketValue(held, prices) \in Int
<1> USE DEF RowValues
<1> DEFINE rows == Table(book)
           c == book.closed
           o == OpenRows(book)
           l == book.lots
           both == [r \in Rows |-> pnl[r] + open[r]]
           all == [r \in Rows |-> both[r] - paid[r]]
           z == [e \in Lots |-> e.direction * (prices[e.ticker] - e.price) * e.quantity
                                  - e.quantity * e.fee]
           mark == MarkWeight(prices)
<1>1. /\ c \in Seq(Rows) /\ o \in Seq(Rows) /\ DOMAIN o = DOMAIN l
      /\ \A i \in DOMAIN l : o[i] = OpenRow(l[i]) /\ l[i] \in Lots
      /\ \A i \in DOMAIN c : c[i] \in ClosedRows
      /\ c \in Seq(ClosedRows) /\ l \in Seq(Lots)
  BY RowsView, BookType
<1>2. rows \in Seq(Rows)
  <2> HIDE DEF c, o
  <2> QED BY <1>1 DEF c, o, Table
<1>3. pnl \in [Rows -> Int] /\ paid \in [Rows -> Int] /\ open \in [Rows -> Int]
  <2>1. \A r \in Rows : r.pnl \in Int /\ r.fees \in Int
    BY DEF Rows
  <2>2. \A r \in Rows : r.direction * (prices[r.ticker] - r.entry) * r.quantity \in Int
    <3> SUFFICES ASSUME NEW r \in Rows
                 PROVE  r.direction * (prices[r.ticker] - r.entry) * r.quantity \in Int
      OBVIOUS
    <3>1. /\ r.direction \in {1, -1} /\ r.quantity \in Nat /\ prices[r.ticker] \in Nat
          /\ r.entry \in Nat /\ 0 \in Nat
      BY DEF Rows, Directions
    <3> DEFINE x == prices[r.ticker]
    <3> HIDE DEF x
    <3> QED BY <3>1, MarkArithmetic DEF x
  <2> QED BY <2>1, <2>2
<1>4. both \in [Rows -> Int] /\ all \in [Rows -> Int]
  BY <1>3
<1>5. SeqSum(both, rows) = SeqSum(pnl, rows) + SeqSum(open, rows)
  <2>1. Adds(both, pnl, open, Rows)
    BY <1>3, <1>4 DEF Adds
  <2> HIDE DEF both
  <2> QED BY ONLY <1>2, <2>1, SeqSumOfSums
<1>6. SeqSum(both, rows) = SeqSum(all, rows) + SeqSum(paid, rows)
  <2>1. \A r \in Rows : both[r] = all[r] + paid[r]
    BY <1>3, <1>4
  <2>2. Adds(both, all, paid, Rows)
    BY <1>3, <1>4, <2>1 DEF Adds
  <2> HIDE DEF both, all
  <2> QED BY ONLY <1>2, <2>2, SeqSumOfSums
<1>7. SeqSum(all, rows) = SeqSum(all, c) + SeqSum(all, o)
  <2> HIDE DEF all
  <2> QED BY <1>4, RowsView DEF Table
<1>8. SeqSum(all, c) = SeqSum(GainWeight, c)
  <2>1. \A i \in DOMAIN c : all[c[i]] = GainWeight[c[i]]
    <3> SUFFICES ASSUME NEW i \in DOMAIN c PROVE all[c[i]] = GainWeight[c[i]]
      OBVIOUS
    <3> DEFINE r == c[i]
    <3>1. r \in ClosedRows /\ r \in Rows /\ r.closed /\ r.pnl \in Int
      BY <1>1 DEF ClosedRows, Rows
    <3> HIDE DEF r
    <3> QED BY <3>1 DEF GainWeight, r
  <2>2. DOMAIN c = DOMAIN c
    OBVIOUS
  <2> HIDE DEF c, all
  <2> QED BY ONLY <2>1, <2>2, SeqSumOfMap
<1>9. /\ z \in [Lots -> Int] /\ mark \in [Lots -> Int]
      /\ \A e \in Lots : mark[e] = z[e] + CostWeight[e]
  <2>1. ASSUME NEW e \in Lots
        PROVE  /\ z[e] \in Int /\ mark[e] = z[e] + CostWeight[e] /\ CostWeight[e] \in Int
               /\ z[e] = e.direction * (prices[e.ticker] - e.price) * e.quantity
                           - e.quantity * e.fee
    <3> DEFINE d == e.direction
               q == e.quantity
               x == prices[e.ticker]
               y == e.price
               f == e.fee
    <3>1. d \in {1, -1} /\ q \in Nat /\ x \in Nat /\ y \in Nat /\ f \in Nat
      BY DEF Lots, Directions
    <3>2. z[e] = d * (x - y) * q - q * f /\ mark[e] = (d * q) * x
      BY DEF MarkWeight
    <3>3. CostWeight[e] = q * (d * y + f)
      BY DEF CostWeight
    <3> HIDE DEF z, mark, d, q, x, y, f
    <3>4. /\ d * (x - y) * q \in Int /\ q * f \in Int /\ q * (d * y + f) \in Int
          /\ (d * q) * x = (d * (x - y) * q - q * f) + q * (d * y + f)
      BY ONLY <3>1, MarkArithmetic
    <3> QED BY <3>2, <3>3, <3>4 DEF d, q, x, y, f
  <2>2. \A e \in Lots : z[e] \in Int /\ mark[e] \in Int /\ mark[e] = z[e] + CostWeight[e]
    <3> HIDE DEF z, mark
    <3> QED BY <2>1
  <2> QED BY <2>2 DEF MarkWeight
<1>10. \A r \in Rows : open[r] = IF r.closed THEN 0
                               ELSE r.direction * (prices[r.ticker] - r.entry) * r.quantity
  OBVIOUS
<1>11. \A r \in Rows : /\ all[r] = pnl[r] + open[r] - paid[r]
                       /\ pnl[r] = r.pnl /\ paid[r] = r.fees
  <2>1. \A r \in Rows : pnl[r] = r.pnl /\ paid[r] = r.fees
    OBVIOUS
  <2>2. \A r \in Rows : all[r] = pnl[r] + open[r] - paid[r]
    <3>1. \A r \in Rows : both[r] = pnl[r] + open[r]
      OBVIOUS
    <3> HIDE DEF both
    <3>2. \A r \in Rows : all[r] = both[r] - paid[r]
      OBVIOUS
    <3> HIDE DEF all
    <3> QED BY ONLY <1>3, <3>1, <3>2
  <2> QED BY <2>1, <2>2
<1>12. SeqSum(all, o) = SeqSum(z, l)
  <2>1. \A i \in DOMAIN l : all[o[i]] = z[l[i]]
    <3> SUFFICES ASSUME NEW i \in DOMAIN l PROVE all[o[i]] = z[l[i]]
      OBVIOUS
    <3> DEFINE e == l[i]
               r == o[i]
    <3>1. e \in Lots /\ r = OpenRow(e)
      BY <1>1
    <3> HIDE DEF e, r
    <3>2. /\ r \in Rows /\ ~r.closed /\ r.ticker = e.ticker /\ r.direction = e.direction
          /\ r.entry = e.price /\ r.quantity = e.quantity /\ r.pnl = 0
          /\ r.fees = e.quantity * e.fee
      BY <3>1, OpenRowType
    <3>3. open[r] = e.direction * (prices[e.ticker] - e.price) * e.quantity
      <4>1. open[r] = IF r.closed THEN 0
                      ELSE r.direction * (prices[r.ticker] - r.entry) * r.quantity
        BY ONLY <1>10, <3>2
      <4> QED BY ONLY <3>2, <4>1
    <3>4. all[r] = pnl[r] + open[r] - paid[r] /\ pnl[r] = 0 /\ paid[r] = e.quantity * e.fee
      BY ONLY <1>11, <3>2
    <3>5. z[e] = e.direction * (prices[e.ticker] - e.price) * e.quantity - e.quantity * e.fee
      BY <3>1
    <3>6. open[r] \in Int
      BY <1>3, <3>2
    <3> DEFINE v == e.direction * (prices[e.ticker] - e.price) * e.quantity
               w == e.quantity * e.fee
    <3>7. /\ open[r] = v /\ v \in Int /\ w \in Int
          /\ all[r] = 0 + open[r] - w /\ z[e] = v - w
      <4>1. w \in Int
        BY <3>1 DEF Lots
      <4> QED BY <3>3, <3>4, <3>5, <3>6, <4>1
    <3> HIDE DEF all, z, v, w
    <3>8. all[r] = z[e]
      BY ONLY <3>7
    <3> QED BY <3>8 DEF e, r
  <2>2. DOMAIN o = DOMAIN l
    BY <1>1
  <2> HIDE DEF o, l, all, z
  <2> QED BY ONLY <2>1, <2>2, SeqSumOfMap
<1>13. SeqSum(mark, l) = SeqSum(z, l) + SeqSum(CostWeight, l)
  <2>1. l \in Seq(Lots)
    BY <1>1
  <2>2. Adds(mark, z, CostWeight, Lots)
    <3> HIDE DEF z, mark
    <3> QED BY <1>9, WeightTypes DEF Adds
  <2> HIDE DEF l, z, mark
  <2> QED BY ONLY <2>1, <2>2, SeqSumOfSums
<1>14. SeqSum(mark, l) = MarketValue(held, prices)
  BY LotsAreWorthNet
<1>15. /\ SeqSum(GainWeight, c) \in Int /\ SeqSum(CostWeight, l) \in Int /\ SeqSum(z, l) \in Int
       /\ SeqSum(pnl, rows) \in Int /\ SeqSum(open, rows) \in Int /\ SeqSum(paid, rows) \in Int
       /\ SeqSum(all, rows) \in Int
  <2>1. SeqSum(GainWeight, c) \in Int /\ SeqSum(CostWeight, l) \in Int
    BY <1>1, WeightTypes, SeqSumIsInt
  <2>2. SeqSum(z, l) \in Int
    <3> HIDE DEF z, l
    <3> QED BY ONLY <1>1, <1>9, SeqSumIsInt
  <2>3. SeqSum(all, rows) \in Int
    <3> HIDE DEF all
    <3> QED BY ONLY <1>2, <1>4, SeqSumIsInt
  <2>4. SeqSum(pnl, rows) \in Int /\ SeqSum(open, rows) \in Int /\ SeqSum(paid, rows) \in Int
    BY ONLY <1>2, <1>3, SeqSumIsInt
  <2> QED BY <2>1, <2>2, <2>3, <2>4
<1>16. Worth(book) = SeqSum(GainWeight, c) - SeqSum(CostWeight, l)
  BY DEF Worth
<1> DEFINE x1 == SeqSum(pnl, rows)
           x2 == SeqSum(open, rows)
           x3 == SeqSum(paid, rows)
           x4 == SeqSum(all, rows)
           x5 == SeqSum(GainWeight, c)
           x6 == SeqSum(CostWeight, l)
           x7 == SeqSum(z, l)
           total == MarketValue(held, prices)
<1>17. /\ x1 \in Int /\ x2 \in Int /\ x3 \in Int /\ x4 \in Int /\ x5 \in Int /\ x6 \in Int
       /\ x7 \in Int /\ x1 + x2 = x4 + x3 /\ x4 = x5 + x7 /\ total = x7 + x6
       /\ Worth(book) = x5 - x6
  <2>1. x1 + x2 = x4 + x3
    BY ONLY <1>5, <1>6
  <2>2. x4 = x5 + x7
    BY ONLY <1>7, <1>8, <1>12
  <2>3. total = x7 + x6
    BY ONLY <1>13, <1>14
  <2> HIDE DEF both, all, z, mark, c, o, l
  <2> QED BY ONLY <1>15, <1>16, <2>1, <2>2, <2>3
<1> HIDE DEF x1, x2, x3, x4, x5, x6, x7, total
<1>18. x1 + x2 - x3 = Worth(book) + total /\ Worth(book) \in Int /\ total \in Int
  BY ONLY <1>17
<1> QED BY <1>2, <1>17, <1>18 DEF x1, x2, x3, total

LEMMA ExplainedSuffices ==
  ASSUME TypeOK, Explained
  PROVE  EquityExplained
<1> DEFINE book == Book(trade_log)
           rows == Trades
           pnl == [r \in Rows |-> r.pnl]
           paid == [r \in Rows |-> r.fees]
           open == [r \in Rows |-> IF r.closed THEN 0
                                   ELSE r.direction * (latest_prices[r.ticker] - r.entry)
                                          * r.quantity]
<1>1. book \in Books /\ Ordered(book)
  BY BookView DEF Explained
<1>2. rows = Table(book)
  BY DEF Trades, pair_fills, Book, EmptyBook, OpenRows, Table
<1>3. latest_prices \in [Tickers -> Nat] /\ Holds(positions, book) /\ cash \in Int
  BY DEF TypeOK, AccountTypeOK, Explained, Holds
<1>4. Equity(latest_prices) = cash + MarketValue(positions, latest_prices)
  BY DEF Equity, MarketValue
<1>5. cash = Capital + Worth(book)
  BY DEF Explained
<1>6. RowValues(pnl, open, paid, latest_prices)
  BY DEF RowValues
<1> HIDE DEF book, rows, pnl, open, paid
<1>7. /\ rows \in Seq(Rows)
      /\ SeqSum(pnl, rows) + SeqSum(open, rows) - SeqSum(paid, rows) =
           Worth(book) + MarketValue(positions, latest_prices)
      /\ SeqSum(pnl, rows) \in Int /\ SeqSum(open, rows) \in Int /\ SeqSum(paid, rows) \in Int
      /\ Worth(book) \in Int /\ MarketValue(positions, latest_prices) \in Int
  BY ONLY <1>1, <1>2, <1>3, <1>6, RowsAddUp
<1>8. \A i, k \in DOMAIN rows :
        i < k /\ rows[i].ticker = rows[k].ticker => rows[i].opened <= rows[k].opened
  BY <1>1, <1>2, RowsAreOrdered DEF Table
<1>9. Equity(latest_prices) =
        Capital + SeqSum(pnl, rows) + SeqSum(open, rows) - SeqSum(paid, rows)
  <2> DEFINE x1 == SeqSum(pnl, rows)
             x2 == SeqSum(open, rows)
             x3 == SeqSum(paid, rows)
             w == Worth(book)
             m == MarketValue(positions, latest_prices)
             e == Equity(latest_prices)
  <2>1. /\ e = cash + m /\ cash = Capital + w /\ x1 + x2 - x3 = w + m
        /\ x1 \in Int /\ x2 \in Int /\ x3 \in Int /\ Capital \in Int /\ cash \in Int
        /\ w \in Int /\ m \in Int
    BY <1>3, <1>4, <1>5, <1>7, AccountAssumption
  <2> HIDE DEF x1, x2, x3, w, m, e
  <2>2. e = Capital + x1 + x2 - x3
    BY ONLY <2>1
  <2> QED BY <2>2 DEF x1, x2, x3, e
<1>10. \A i \in DOMAIN rows : rows[i] \in Rows
  BY <1>7
<1>11. \A t \in Tickers :
         positions[t] = SumFunction([i \in DOMAIN rows |->
                          IF rows[i].ticker = t /\ ~rows[i].closed
                          THEN rows[i].direction * rows[i].quantity ELSE 0])
  <2> SUFFICES ASSUME NEW t \in Tickers
               PROVE  positions[t] = SumFunction([i \in DOMAIN rows |->
                                       IF rows[i].ticker = t /\ ~rows[i].closed
                                       THEN rows[i].direction * rows[i].quantity ELSE 0])
    OBVIOUS
  <2> DEFINE net == [r \in Rows |-> IF r.ticker = t /\ ~r.closed THEN r.direction * r.quantity
                                    ELSE 0]
             f == [i \in DOMAIN rows |-> net[rows[i]]]
             g == [i \in DOMAIN rows |-> IF rows[i].ticker = t /\ ~rows[i].closed
                                         THEN rows[i].direction * rows[i].quantity ELSE 0]
  <2>1. f = g
    BY ONLY <1>10
  <2>2. SeqSum(net, rows) = SumFunction(f)
    BY DEF SeqSum
  <2>3. net = [r \in Rows |-> IF r.ticker = t /\ ~r.closed THEN r.direction * r.quantity ELSE 0]
    OBVIOUS
  <2> HIDE DEF net, f, g
  <2>4. SeqSum(net, rows) = Net(book, t)
    BY <1>1, <1>2, <2>3, RowsHoldNet DEF Table
  <2> QED BY <1>3, <2>1, <2>2, <2>4 DEF Holds, g
<1>12. /\ SeqSum(pnl, rows) = SumFunction([i \in DOMAIN rows |-> rows[i].pnl])
       /\ SeqSum(open, rows) =
            SumFunction([i \in DOMAIN rows |->
              IF rows[i].closed THEN 0
              ELSE rows[i].direction * (latest_prices[rows[i].ticker] - rows[i].entry)
                     * rows[i].quantity])
       /\ SeqSum(paid, rows) = SumFunction([i \in DOMAIN rows |-> rows[i].fees])
  <2>1. [i \in DOMAIN rows |-> pnl[rows[i]]] = [i \in DOMAIN rows |-> rows[i].pnl]
    BY ONLY <1>10 DEF pnl
  <2>2. [i \in DOMAIN rows |-> open[rows[i]]] =
          [i \in DOMAIN rows |->
             IF rows[i].closed THEN 0
             ELSE rows[i].direction * (latest_prices[rows[i].ticker] - rows[i].entry)
                    * rows[i].quantity]
    BY ONLY <1>10 DEF open
  <2>3. [i \in DOMAIN rows |-> paid[rows[i]]] = [i \in DOMAIN rows |-> rows[i].fees]
    BY ONLY <1>10 DEF paid
  <2> QED BY <2>1, <2>2, <2>3 DEF SeqSum
<1> QED BY <1>8, <1>9, <1>11, <1>12 DEF EquityExplained, rows

\* The trade table and the account tell the same story after any orders at any
\* prices: the open lots are the positions, capital with realised and unrealised
\* profit less fees is the equity, and a ticker's lots close in the order they
\* opened (pair_fills against execute_trade).
THEOREM TradesExplainEquity == Spec => []EquityExplained
<1>1. Init => Solvent /\ Explained
  BY SolventInit, ExplainedInit
<1>2. Solvent /\ Explained /\ [Next]_vars => (Solvent /\ Explained)'
  BY SolventNext, ExplainedNext
<1>3. Solvent /\ Explained => EquityExplained
  BY ExplainedSuffices DEF Solvent
<1> QED BY <1>1, <1>2, <1>3, PTL DEF Spec
===============================================================================

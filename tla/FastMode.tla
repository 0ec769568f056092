------------------------------ MODULE FastMode ------------------------------
(***************************************************************************)
(* The vectorised engine: four strategies as functions from a matrix of    *)
(* daily closes to target weights (vector_strategy_adapters.py), and the   *)
(* returns the engine books for them (_run_fast_vectorized and             *)
(* VectorBacktester.run_from_returns).                                     *)
(*                                                                         *)
(* A matrix is a function from tickers to sequences of closes, one per     *)
(* trade date, Missing where there is none.  Prices divide Scale and the   *)
(* number of tickers divides Shares, so returns in units of 1 / Scale and  *)
(* weights in units of 1 / Shares are integers.  The windows, in the code  *)
(* 5 to 50 days, are the fields of Win.                                    *)
(***************************************************************************)
EXTENDS Indicators, FiniteSets

CONSTANTS Scale, Shares,
          Win,        \* [fast, slow, shift, rsi, momentum, vol, jump]
          Slip,       \* slippage, in units of 1 / Scale
          Vix,        \* the column the regime adapter reads as ^VIX
          HighVol,    \* its level for a high-volatility regime
          RiskOff     \* the columns whose name starts with TLT, in trend_rotate

Rows(m) == 1..Len(m[CHOOSE t \in DOMAIN m : TRUE])

(* pivot_table, sort_index, ffill: a day without a close repeats the last. *)
LastClose(c, i) ==
    LET known == {j \in 1..i : c[j] # Missing}
    IN  IF known = {} THEN Missing ELSE c[CHOOSE j \in known : \A k \in known : k <= j]

Filled(raw) ==
    [t \in DOMAIN raw |-> <<>> \o [i \in 1..Len(raw[t]) |-> LastClose(raw[t], i)]]

(* pivot_table has no column for a ticker without any close, and no row    *)
(* for a date without any.                                                 *)
Pivot(raw) == [t \in {t \in DOMAIN raw : \E i \in DOMAIN raw[t] : raw[t][i] # Missing} |-> raw[t]]

Closes(raw) == Filled(Pivot(raw))

Prefix(raw, n) == [t \in DOMAIN raw |-> SubSeq(raw[t], 1, n)]

(* pct_change(k), NaN as Missing and as 0 where the code fills it with 0.  *)
Change(c, i, k) ==
    IF i <= k \/ c[i] = Missing \/ c[i - k] = Missing THEN Missing
    ELSE ((c[i] - c[i - k]) * Scale) \div c[i - k]

Return(c, i) == IF Change(c, i, 1) = Missing THEN 0 ELSE Change(c, i, 1)

----------------------------------------------------------------------------
(* Rolling statistics of one column; NoValue until the window is full.     *)

Greater(a, b) == a.d > 0 /\ b.d > 0 /\ a.n * b.d > b.n * a.d

Mean(c, i, w) ==
    IF i < w \/ c[i - w + 1] = Missing THEN NoValue
    ELSE Frac(Total(SubSeq(c, i - w + 1, i)), w)

(* w * (w - 1) times the variance of the last w returns, or Missing.       *)
Spread(c, i, w) ==
    IF i <= w \/ c[i - w] = Missing THEN Missing
    ELSE LET r == [j \in 1..w |-> Change(c, i - w + j, 1)]
         IN  w * Total([j \in 1..w |-> r[j] * r[j]]) - Total(r) * Total(r)

(* _compute_rsi and _compute_rmi: exponential means that start at the      *)
(* first change, after lead days, 50 before period changes and when there  *)
(* was no loss.                                                            *)
StrengthAt(c, i, period, k) ==
    LET lead == Cardinality({j \in 1..i : c[j] = Missing}) + k
        changes == [j \in 1..(i - lead) |-> c[lead + j] - c[lead + j - k]]
        ewm(q) == LET mean[j \in 1..Len(q)] == IF j = 1 THEN Frac(q[1], 1)
                                                 ELSE Wilder(mean[j - 1], q[j], period)
                  IN  mean[Len(q)]
        loss == ewm([j \in DOMAIN changes |-> Positive(-changes[j])])
    IN  IF i - lead < period \/ loss.n = 0 THEN Frac(50, 1)
        ELSE Strength(ewm([j \in DOMAIN changes |-> Positive(changes[j])]), loss)

Between(lo, v, hi) == Greater(v, Frac(lo, 1)) /\ Greater(Frac(hi, 1), v)

----------------------------------------------------------------------------
(* The adapters' buy and sell signals for a column on a day.               *)

Bullish(c, i) ==
    LET slow == Mean(c, i, Win.slow)
    IN  /\ Greater(Mean(c, i, Win.fast), slow)
        /\ i > Win.shift /\ Greater(Mean(c, i - Win.shift, Win.fast), slow)

Bearish(c, i) ==
    LET slow == Mean(c, i, Win.slow)
    IN  /\ Greater(slow, Mean(c, i, Win.fast))
        /\ i > Win.shift /\ Greater(slow, Mean(c, i - Win.shift, Win.fast))

MomentumEntry(c, i) ==
    \/ Bullish(c, i)
    \/ Between(10, StrengthAt(c, i, Win.rsi, 1), 30)
    \/ Between(10, StrengthAt(c, i, Win.rsi, Win.momentum), 30)

(* Entry has priority over exit when the conditions mix.                   *)
MomentumExit(c, i) ==
    /\ ~MomentumEntry(c, i)
    /\ \/ Bearish(c, i)
       \/ Between(70, StrengthAt(c, i, Win.rsi, 1), 90)
       \/ Between(70, StrengthAt(c, i, Win.rsi, Win.momentum), 90)

(* |roc| > 1.5 * std * sqrt(w), the squares compared.                      *)
BeyondThreshold(c, i) ==
    /\ Spread(c, i, Win.vol) # Missing
    /\ LET roc == Change(c, i, Win.vol)
       IN  4 * (Win.vol - 1) * roc * roc > 9 * Spread(c, i, Win.vol)

VolEntry(c, i) == BeyondThreshold(c, i) /\ Change(c, i, Win.vol) > 0

VolExit(c, i) == BeyondThreshold(c, i) /\ Change(c, i, Win.vol) < 0

(* |close - mean| > close * std, with a std of 0 giving no z-score.        *)
Stretched(c, i) ==
    /\ Spread(c, i, Win.vol) \notin {Missing, 0}
    /\ LET w == Win.vol
           off == Total(SubSeq(c, i - w + 1, i)) - w * c[i]
       IN  off * off * w * (w - 1) * Scale * Scale > c[i] * c[i] * Spread(c, i, w) * w * w

Below(c, i) == Greater(Mean(c, i, Win.vol), Frac(c[i], 1))

Jump(c, i, sign) ==
    Change(c, i, Win.jump) # Missing /\ sign * Change(c, i, Win.jump) * 1000 > 2 * Scale

(* Fading in a high-volatility regime, momentum otherwise.                 *)
HighVolatility(m, i) == Vix \in DOMAIN m /\ m[Vix][i] # Missing /\ m[Vix][i] > HighVol

RegimeEntry(m, t, i) ==
    t # Vix /\ IF HighVolatility(m, i) THEN Stretched(m[t], i) /\ Below(m[t], i)
                                       ELSE Jump(m[t], i, 1)

RegimeExit(m, t, i) ==
    t = Vix \/ IF HighVolatility(m, i) THEN Stretched(m[t], i) /\ ~Below(m[t], i)
                                       ELSE Jump(m[t], i, -1)

(* The last signal before or on the day, out of the market before any.     *)
Latched(entries, exits) ==
    entries \union exits # {}
    /\ (CHOOSE j \in entries \union exits : \A k \in entries \union exits : k <= j) \notin exits

(* SMA regime rotation: the group with more columns in an uptrend, the     *)
(* risky one on a tie.                                                     *)
TrendUp(c, i) == Greater(Mean(c, i, Win.fast), Mean(c, i, Win.slow))

(* The defensive group, the last column when none is called TLT.           *)
OffColumns(m, order) ==
    LET columns == {i \in DOMAIN order : order[i] \in DOMAIN m}
    IN  IF RiskOff \intersect DOMAIN m # {} THEN RiskOff \intersect DOMAIN m
        ELSE {order[i] : i \in {i \in columns : \A j \in columns : j <= i}}

Rotated(m, order, t, i) ==
    LET off == OffColumns(m, order)
        up(S) == {s \in S : TrendUp(m[s], i)}
        riskOn == Cardinality(up(DOMAIN m \ off)) >= Cardinality(up(off))
    IN  TrendUp(m[t], i) /\ (t \notin off <=> riskOn)

Adapters == {"MomentumStrategy", "VolMomentum", "RegimeAdaptiveStrategy", "TrendRotateStrategy"}

Active(a, m, order, i) ==
    {t \in DOMAIN m :
       CASE a = "MomentumStrategy" ->
              Latched({j \in 1..i : MomentumEntry(m[t], j)}, {j \in 1..i : MomentumExit(m[t], j)})
         [] a = "VolMomentum" ->
              Latched({j \in 1..i : VolEntry(m[t], j)}, {j \in 1..i : VolExit(m[t], j)})
         [] a = "RegimeAdaptiveStrategy" ->
              Latched({j \in 1..i : RegimeEntry(m, t, j)}, {j \in 1..i : RegimeExit(m, t, j)})
         [] a = "TrendRotateStrategy" -> Rotated(m, order, t, i)}

(* The positions of every day, and _normalise_active_weights: equal shares *)
(* of the active columns.                                                  *)
Positions(a, m, order) == <<>> \o [i \in Rows(m) |-> Active(a, m, order, i)]

Weight(on, t) == IF t \in on THEN Shares \div Cardinality(on) ELSE 0

----------------------------------------------------------------------------
(* The books: yesterday's weights earn today's returns, a change of weight *)
(* costs slippage, and the first row of a series costs nothing because     *)
(* sum() skips the NaN that fillna is there for.                           *)

\* Mutant of Held: weights are not shifted by a day.
Held_SameDay(p, i) == p[i]

Held(p, i) == IF i = 1 THEN {} ELSE p[i - 1]

Gross(m, p, i) ==
    SumFunction([t \in DOMAIN m |-> Weight(Held(p, i), t) * Return(m[t], i)])

Turnover(m, p, i, first) ==
    IF i = first THEN 0
    ELSE SumFunction([t \in DOMAIN m |-> Abs(Weight(p[i], t) - Weight(p[i - 1], t))])

(* strategy_returns of the rows from first on, in 1 / (Scale * Shares).    *)
StrategyReturn(m, p, i, first) == Gross(m, p, i) - Turnover(m, p, i, first) * Slip

(* cum_strategy: the product of 1 + return over the window.                *)
Growth(m, p, first, i) ==
    FoldFunction(LAMBDA x, a : x * a, 1,
                 [j \in 1..(i - first + 1) |->
                     Scale * Shares + StrategyReturn(m, p, first + j - 1, first)])

----------------------------------------------------------------------------
(* What the queries return, by ticker of the run: prices of one set of     *)
(* dates, each with some close, and the tickers in the portfolio's order.  *)
MatrixRead(raw, order) ==
    /\ order \in Seq(DOMAIN raw) /\ order # <<>> /\ raw[order[1]] # <<>>
    /\ \A t \in DOMAIN raw : \E i \in DOMAIN order : order[i] = t
    /\ \A i, j \in DOMAIN order : order[i] = order[j] => i = j
    /\ \A t \in DOMAIN raw : /\ raw[t] \in Seq((Nat \ {0}) \union {Missing})
                             /\ Len(raw[t]) = Len(raw[order[1]])
    /\ \A i \in DOMAIN raw[order[1]] : \E t \in DOMAIN raw : raw[t][i] # Missing

----------------------------------------------------------------------------
(* Nothing that is held or booked on a day depends on a later close: what  *)
(* is held is what the closes up to the evening before give, and the value *)
(* of the account what the closes up to that day give.  But the columns    *)
(* are those of the whole run, and which of them trend_rotate takes for    *)
(* defensive can rest on a ticker that has no close yet.                   *)
SameGroups(a, m, known, order) ==
    a = "TrendRotateStrategy" =>
        OffColumns(m, order) \intersect DOMAIN known = OffColumns(known, order)

Causal(raw, order) ==
    LET m == Closes(raw)
        known == [i \in Rows(m) |-> Closes(Prefix(raw, i))]
    IN  \A a \in Adapters :
          LET p == Positions(a, m, order)
              then == [i \in Rows(m) |-> Positions(a, known[i], order)]
          IN  \A i \in Rows(m) :
                /\ i > 1 /\ SameGroups(a, m, known[i - 1], order) =>
                      Held(p, i) = then[i - 1][i - 1]
                /\ SameGroups(a, m, known[i], order) =>
                      \A first \in 1..i :
                        Growth(m, p, first, i) = Growth(known[i], then[i], first, i)
=============================================================================

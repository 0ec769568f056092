------------------------------ MODULE Reporting ------------------------------
(***************************************************************************)
(* What a finished run says about itself: the buy-and-hold benchmark and   *)
(* the replay of the fills (engine/analytics/reporting.py), and the curve  *)
(* the two make (engine/run_single.py, _equity_curve).                     *)
(*                                                                         *)
(* A price row is [time, ticker, price], in the order of the frame; its    *)
(* price may be Missing, or no price at all (0).  A fill is [time, ticker, *)
(* shares, price, fees], with negative shares when it sells.  Weights are  *)
(* in units of 1 / Unit, and allocations are multiples of the prices.      *)
(***************************************************************************)
EXTENDS Integers, Sequences, FiniteSets, Functions

CONSTANTS Missing, Unit

Greatest(S) == CHOOSE x \in S : \A y \in S : y <= x
Least(S) == CHOOSE x \in S : \A y \in S : x <= y

----------------------------------------------------------------------------
(* _generate_buy_and_hold_benchmark.                                       *)

(* The rows it keeps: a price of a ticker it weighs, inside the window,    *)
(* and the last one of a ticker and a time.                                *)
Kept(rows, weights, from, to) ==
    {i \in DOMAIN rows :
        /\ rows[i].ticker \in DOMAIN weights
        /\ rows[i].price # Missing /\ rows[i].price > 0
        /\ from <= rows[i].time /\ rows[i].time <= to}

\* Mutant of Observed: a ticker may have two rows of one time.
Observed_Twice(rows, weights, from, to) == {rows[i] : i \in Kept(rows, weights, from, to)}

Observed(rows, weights, from, to) ==
    LET kept == Kept(rows, weights, from, to)
    IN  {rows[i] : i \in {j \in kept : \A k \in kept :
                             rows[k].time = rows[j].time /\ rows[k].ticker = rows[j].ticker
                                => k <= j}}

Quotes(obs, t) == {o \in obs : o.ticker = t}

Latest(quotes) == CHOOSE o \in quotes : o.time = Greatest({p.time : p \in quotes})

Entry(obs, t) ==
    CHOOSE o \in Quotes(obs, t) : o.time = Least({p.time : p \in Quotes(obs, t)})

(* pnl: what the allocation of a ticker earned since its first close.      *)
Pnl(obs, weights, capital, o) ==
    LET entry == Entry(obs, o.ticker).price
    IN  (capital * weights[o.ticker] * (o.price - entry)) \div (Unit * entry)

(* diff() of it along the ticker's rows, nothing at the first of them.     *)
Difference(obs, weights, capital, o) ==
    LET before == {p \in Quotes(obs, o.ticker) : p.time < o.time}
    IN  IF before = {} THEN 0
        ELSE Pnl(obs, weights, capital, o) - Pnl(obs, weights, capital, Latest(before))

(* The capital and the running sum of the differences, at observed times.  *)
BuyAndHold(rows, weights, capital, from, to) ==
    LET obs == Observed(rows, weights, from, to)
    IN  [time \in {o.time : o \in obs} |->
            capital + SumFunction([o \in {p \in obs : p.time <= time} |->
                                     Difference(obs, weights, capital, o)])]

----------------------------------------------------------------------------
(* _generate_minute_by_minute_performance, on a grid of minutes.           *)

(* pivot: one row per time and one column per ticker, and no table when a  *)
(* ticker has two rows of one time.                                        *)
Pivots(rows) ==
    \A i, j \in DOMAIN rows :
        rows[i].time = rows[j].time /\ rows[i].ticker = rows[j].ticker => i = j

(* resample, ffill: what the last row up to a minute says of a ticker,     *)
(* nothing included.                                                       *)
InForce(rows, t, m) ==
    LET times == {rows[i].time : i \in {j \in DOMAIN rows : rows[j].time <= m}}
        cell == {i \in DOMAIN rows : rows[i].ticker = t /\ rows[i].time = Greatest(times)}
    IN  IF times = {} \/ cell = {} THEN Missing ELSE rows[CHOOSE i \in cell : TRUE].price

(* bfill: what is missing then is taken from the next minute that has it,  *)
(* and counts nothing when none has.                                       *)
GridPrice(rows, grid, t, m) ==
    LET priced == {g \in grid : m <= g /\ InForce(rows, t, g) # Missing}
    IN  IF priced = {} THEN 0 ELSE InForce(rows, t, Least(priced))

(* The cumulative sums of the fills up to a time.                          *)
Done(fills, m) == {i \in DOMAIN fills : fills[i].time <= m}

CashAfter(fills, capital, m) ==
    capital - SumFunction([i \in Done(fills, m) |->
                             fills[i].shares * fills[i].price + fills[i].fees])

PositionAfter(fills, t, m) ==
    SumFunction([i \in {j \in Done(fills, m) : fills[j].ticker = t} |-> fills[i].shares])

(* reindex and ffill: the sums of the last fill time that is on the grid.  *)
MinuteValue(fills, rows, capital, grid, m) ==
    LET times == {fills[i].time : i \in DOMAIN fills} \intersect {g \in grid : g <= m}
    IN  IF times = {} THEN capital
        ELSE CashAfter(fills, capital, Greatest(times))
               + SumFunction([t \in {rows[i].ticker : i \in DOMAIN rows} |->
                                PositionAfter(fills, t, Greatest(times)) * GridPrice(rows, grid, t, m)])

----------------------------------------------------------------------------
(* _equity_curve: samples sorted by time, each with the last benchmark     *)
(* mark at or before it, after a baseline on the first sample's date.      *)
(* day gives the date of a time.                                           *)
MarkAt(marks, time) ==
    LET before == {m \in DOMAIN marks : m <= time}
    IN  IF before = {} THEN Missing ELSE marks[Greatest(before)]

(* sort_values(kind = "stable"): by time, and in the order they came.      *)
Rank(perf, i) ==
    Cardinality({k \in DOMAIN perf : \/ perf[k].time < perf[i].time
                                     \/ perf[k].time = perf[i].time /\ k <= i})

Sorted(perf) ==
    [j \in DOMAIN perf |-> perf[CHOOSE i \in DOMAIN perf : Rank(perf, i) = j]]

EquityCurve(perf, marks, capital, day) ==
    LET sorted == Sorted(perf)
        points == [i \in DOMAIN sorted |->
                     [date |-> day[sorted[i].time], equity |-> sorted[i].value,
                      benchmark |-> MarkAt(marks, sorted[i].time)]]
    IN  IF points = <<>> THEN <<>>
        ELSE <<[date |-> points[1].date, equity |-> capital,
                benchmark |-> IF points[1].benchmark = Missing THEN Missing ELSE capital]>>
             \o points

(* _compute_max_drawdown, of positive values: the deepest fall below the   *)
(* running peak, as the pair of the value and the peak.                    *)
Peak(values, i) == Greatest({values[j] : j \in 1..i})

Drawdown(values) ==
    LET pairs == {<<values[i], Peak(values, i)>> : i \in DOMAIN values}
    IN  IF Len(values) < 2 THEN <<1, 1>>
        ELSE CHOOSE p \in pairs : \A q \in pairs : p[1] * q[2] <= q[1] * p[2]

----------------------------------------------------------------------------
(* What a run leaves: quotes with a time and a price or none, allocations  *)
(* that are multiples of the prices; fills at minutes of the grid, of a    *)
(* quoted ticker; and samples of a positive value.                         *)
FrameRead(rows, weights, capital, from, to) ==
    /\ {capital, from, to} \subseteq Int
    /\ IsFiniteSet(DOMAIN weights) /\ weights \in [DOMAIN weights -> Int]
    /\ rows \in Seq([time : Int, ticker : {rows[i].ticker : i \in DOMAIN rows},
                     price : Int \union {Missing}])
    /\ \A i \in DOMAIN rows : rows[i].ticker \in DOMAIN weights /\ rows[i].price \in Nat \ {0} =>
          (capital * weights[rows[i].ticker]) % (Unit * rows[i].price) = 0

LedgerRead(fills, rows, capital, grid) ==
    /\ capital \in Int /\ grid \subseteq Int
    /\ IsFiniteSet(grid)
    /\ rows \in Seq([time : Int, ticker : {rows[i].ticker : i \in DOMAIN rows},
                     price : Int \union {Missing}])
    /\ fills \in Seq([time : grid, ticker : {rows[i].ticker : i \in DOMAIN rows},
                      shares : Int, price : Int, fees : Int])

CurveRead(perf, marks, day) ==
    /\ IsFiniteSet(DOMAIN marks) /\ DOMAIN marks \subseteq Int
    /\ DOMAIN day \subseteq Int /\ day \in [DOMAIN day -> Int]
    /\ \A a, b \in DOMAIN day : a <= b => day[a] <= day[b]
    /\ perf \in Seq([time : DOMAIN day, value : Nat \ {0}])

----------------------------------------------------------------------------
(* What a reader of the report may rely on.                                *)

(* The benchmark is an account that buys a fixed number of shares of every *)
(* ticker at its first close in the window, keeps the rest in cash and     *)
(* never sells; and no later row changes what it was worth.                *)
BenchmarkIsHeld(rows, weights, capital, from, to) ==
    LET obs == Observed(rows, weights, from, to)
        curve == BuyAndHold(rows, weights, capital, from, to)
        seen(t, time) == {o \in Quotes(obs, t) : o.time <= time}
        held(time) == {t \in DOMAIN weights : seen(t, time) # {}}
        allocated(t) == (capital * weights[t]) \div Unit
        shares(t) == allocated(t) \div Entry(obs, t).price
    IN  \A time \in DOMAIN curve :
          /\ curve[time] = capital
               + SumFunction([t \in held(time) |->
                                shares(t) * Latest(seen(t, time)).price - allocated(t)])
          /\ curve[time] = BuyAndHold(rows, weights, capital, from, time)[time]

(* The account replayed from the fills is worth, at a minute whose last    *)
(* row has a price of all that is held, the cash and shares the fills left *)
(* by then at the last prices by then; and a run that filled nothing keeps *)
(* its capital.  At any other minute a later price is used, or none.       *)
ReplayIsTheAccount(fills, rows, capital, grid) ==
    \A m \in grid :
        LET held == {t \in {rows[i].ticker : i \in DOMAIN rows} : PositionAfter(fills, t, m) # 0}
            known(t) == {rows[i] : i \in {j \in DOMAIN rows :
                            /\ rows[j].ticker = t /\ rows[j].time <= m
                            /\ rows[j].price # Missing}}
        IN  Pivots(rows) /\ (\A t \in held : InForce(rows, t, m) # Missing)
              => MinuteValue(fills, rows, capital, grid, m)
                   = CashAfter(fills, capital, m)
                       + SumFunction([t \in held |->
                                        PositionAfter(fills, t, m) * Latest(known(t)).price])

(* The curve begins with the capital, its dates never go back, it shows    *)
(* every sample, no mark of the benchmark comes from after the sample, and *)
(* the drawdown is the worst loss between any two of its samples.          *)
CurveIsTheRun(perf, marks, capital, day) ==
    LET curve == EquityCurve(perf, marks, capital, day)
        values == [i \in 1..Len(perf) |-> curve[i + 1].equity]
        d == Drawdown(values)
    IN  perf # <<>> =>
          /\ curve[1].equity = capital /\ Len(curve) = Len(perf) + 1
          /\ \A i, j \in DOMAIN curve : i < j => curve[i].date <= curve[j].date
          /\ \A i \in DOMAIN perf : \E j \in 2..Len(curve) :
                /\ curve[j].date = day[perf[i].time] /\ curve[j].equity = perf[i].value
                /\ \A m \in DOMAIN marks :
                      m <= perf[i].time /\ (\A n \in DOMAIN marks : n <= perf[i].time => n <= m)
                        => curve[j].benchmark = marks[m]
          /\ \A i, j \in DOMAIN values : i <= j => d[1] * values[i] <= values[j] * d[2]
=============================================================================

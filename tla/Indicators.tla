----------------------------- MODULE Indicators -----------------------------
(***************************************************************************)
(* The streaming indicators of engine/indicators: one Update per bar over  *)
(* a bounded window or a running average, so that a strategy reads         *)
(* .Current and .IsReady without looking at the history again.             *)
(*                                                                         *)
(* Prices are integers and a value is a fraction [n, d]; an indicator is a *)
(* record with the attributes of its class.  A bar has a close, a high, a  *)
(* low and a volume, each of which the data may leave out (Missing).       *)
(***************************************************************************)
EXTENDS Integers, Sequences, Functions

CONSTANT Missing    \* a NaN cell of a bar

NoValue == [n |-> 0, d |-> 0]   \* _current_value before the first value

Frac(n, d) == [n |-> n, d |-> d]

Same(a, b) == (a.d = 0) = (b.d = 0) /\ a.n * b.d = b.n * a.d

Add(a, b) == Frac(a.n * b.d + b.n * a.d, a.d * b.d)

\* deque(maxlen = m): the oldest element leaves when a full one is appended to.
Push(q, x, m) == IF Len(q) = m THEN Append(Tail(q), x) ELSE Append(q, x)

Total(q) == SumFunction(q)

\* The running sum after Push: the oldest value is subtracted when it leaves.
Slide(sum, q, x, m) == (IF Len(q) = m THEN sum - Head(q) ELSE sum) + x

Positive(x) == IF x > 0 THEN x ELSE 0

Abs(x) == IF x < 0 THEN -x ELSE x

----------------------------------------------------------------------------
(* What an indicator is given of a bar: no update at all without a price,  *)
(* and the parts that are missing replaced by the defaults of Update.      *)

HasPrice(bar) == bar.close # Missing

Payload(bar) ==
    [ price  |-> bar.close,
      high   |-> IF bar.high = Missing THEN bar.close ELSE bar.high,
      low    |-> IF bar.low = Missing THEN bar.close ELSE bar.low,
      volume |-> IF bar.volume = Missing THEN 1 ELSE bar.volume ]

----------------------------------------------------------------------------
(* The indicators: c is the configuration [class, period, shift], where    *)
(* shift is a DMA's displacement and an RMI's momentum_period.             *)

NewIndicator(c) ==
    CASE c.class \in {"SMA", "DMA", "ROC"} ->
           [ready |-> FALSE, value |-> NoValue, window |-> <<>>, sum |-> 0]
      [] c.class = "EMA" ->
           [ready |-> FALSE, value |-> NoValue, ema |-> NoValue, count |-> 0, sum |-> 0]
      [] c.class = "RSI" ->
           [ready |-> FALSE, value |-> NoValue, previous |-> Missing,
            gains |-> <<>>, losses |-> <<>>, avgGain |-> NoValue, avgLoss |-> NoValue]
      [] c.class = "RMI" ->
           [ready |-> FALSE, value |-> NoValue, window |-> <<>>,
            gains |-> <<>>, losses |-> <<>>, avgGain |-> NoValue, avgLoss |-> NoValue]
      [] c.class = "ATR" ->
           [ready |-> FALSE, value |-> NoValue, previous |-> Missing, window |-> <<>>, sum |-> 0]
      [] c.class = "VWAP" ->
           [ready |-> FALSE, value |-> NoValue, pv |-> <<>>, vol |-> <<>>,
            sumPv |-> 0, sumVol |-> 0]

(* A value once there are enough bars; nothing changes before.             *)
Publish(s, enough, value) ==
    IF enough THEN [s EXCEPT !.ready = TRUE, !.value = value] ELSE s

UpdateSMA(c, s, p) ==
    LET w == Push(s.window, p.price, c.period)
        sum == Slide(s.sum, s.window, p.price, c.period)
    IN  Publish([s EXCEPT !.window = w, !.sum = sum], Len(w) = c.period, Frac(sum, c.period))

(* Mutant of UpdateDMA: the newest part of the buffer.                     *)
UpdateDMA_Newest(c, s, p) ==
    LET w == Push(s.window, p.price, c.period + c.shift)
    IN  Publish([s EXCEPT !.window = w], Len(w) = c.period + c.shift,
                Frac(Total(SubSeq(w, c.shift + 1, Len(w))), c.period))

(* The window that ended shift bars ago, the oldest part of the buffer.    *)
UpdateDMA(c, s, p) ==
    LET w == Push(s.window, p.price, c.period + c.shift)
    IN  Publish([s EXCEPT !.window = w], Len(w) = c.period + c.shift,
                Frac(Total(SubSeq(w, Len(w) - c.shift - c.period + 1, Len(w) - c.shift)), c.period))

(* A simple average of the first bars is the seed of the exponential one.  *)
UpdateEMA(c, s, p) ==
    IF s.ema = NoValue
    THEN LET sum == s.sum + p.price
             full == s.count + 1 = c.period
             seeded == [s EXCEPT !.count = @ + 1, !.sum = sum,
                                 !.ema = IF full THEN Frac(sum, c.period) ELSE @]
         IN  Publish(seeded, full, seeded.ema)
    ELSE LET ema == Add(Frac(2 * p.price, c.period + 1),
                        Frac(s.ema.n * (c.period - 1), s.ema.d * (c.period + 1)))
         IN  [s EXCEPT !.count = @ + 1, !.ema = ema, !.value = ema]

(* The change since period bars ago, in percent; nothing to divide by, 0.  *)
UpdateROC(c, s, p) ==
    LET w == Push(s.window, p.price, c.period + 1)
    IN  Publish([s EXCEPT !.window = w], Len(w) = c.period + 1,
                IF w[1] = 0 THEN Frac(0, 1) ELSE Frac((p.price - w[1]) * 100, w[1]))

(* 100 - 100 / (1 + gain / loss), and 100 when there was no loss; the two  *)
(* averages are over the same bars and have one denominator.               *)
Strength(gain, loss) ==
    IF loss.n = 0 THEN Frac(100, 1) ELSE Frac(100 * gain.n, gain.n + loss.n)

Wilder(avg, x, period) == Frac(avg.n * (period - 1) + x * avg.d, avg.d * period)

(* The lists hold at most period changes: one is dropped with every value. *)
UpdateRSI(c, s, p) ==
    IF s.previous = Missing THEN [s EXCEPT !.previous = p.price]
    ELSE LET change == p.price - s.previous
             gains  == Append(s.gains, Positive(change))
             losses == Append(s.losses, Positive(-change))
             full == Len(gains) = c.period
             first == s.avgGain = NoValue
             avgGain  == IF first THEN Frac(Total(gains), c.period)
                                  ELSE Wilder(s.avgGain, Positive(change), c.period)
             avgLoss == IF first THEN Frac(Total(losses), c.period)
                                 ELSE Wilder(s.avgLoss, Positive(-change), c.period)
             moved == [s EXCEPT !.previous = p.price,
                                !.gains  = IF full THEN Tail(gains) ELSE gains,
                                !.losses = IF full THEN Tail(losses) ELSE losses,
                                !.avgGain = IF full THEN avgGain ELSE @,
                                !.avgLoss = IF full THEN avgLoss ELSE @]
         IN  Publish(moved, full, Strength(avgGain, avgLoss))

(* The same over momentum_period bars, seeded once period changes are in.  *)
UpdateRMI(c, s, p) ==
    LET w == Push(s.window, p.price, c.shift + 1)
        momentum == p.price - w[1]
        gain == Positive(momentum)
        loss == Positive(-momentum)
        gains == Push(s.gains, gain, c.period)
        losses == Push(s.losses, loss, c.period)
        seeded == [s EXCEPT !.window = w, !.gains = gains, !.losses = losses,
                            !.avgGain = IF Len(gains) = c.period
                                        THEN Frac(Total(gains), c.period) ELSE @,
                            !.avgLoss = IF Len(gains) = c.period
                                        THEN Frac(Total(losses), c.period) ELSE @]
        smoothed == [s EXCEPT !.window = w, !.avgGain = Wilder(@, gain, c.period),
                              !.avgLoss = Wilder(@, loss, c.period)]
        next == IF s.ready THEN smoothed ELSE seeded
    IN  IF Len(w) < c.shift + 1 THEN [s EXCEPT !.window = w]
        ELSE Publish(next, s.ready \/ Len(gains) = c.period,
                     Strength(next.avgGain, next.avgLoss))

TrueRange(p, previous) ==
    LET a == p.high - p.low
        b == Abs(p.high - previous)
        c == Abs(p.low - previous)
    IN  IF a >= b /\ a >= c THEN a ELSE IF b >= c THEN b ELSE c

UpdateATR(c, s, p) ==
    IF s.previous = Missing THEN [s EXCEPT !.previous = p.price]
    ELSE LET tr  == TrueRange(p, s.previous)
             w   == Push(s.window, tr, c.period)
             sum == Slide(s.sum, s.window, tr, c.period)
         IN  Publish([s EXCEPT !.previous = p.price, !.window = w, !.sum = sum],
                     Len(w) = c.period, Frac(sum, c.period))

(* The bar's own price when nothing was traded in the whole window.        *)
UpdateVWAP(c, s, p) ==
    LET pv == p.price * p.volume
        sumPv  == Slide(s.sumPv, s.pv, pv, c.period)
        sumVol == Slide(s.sumVol, s.vol, p.volume, c.period)
        next == [s EXCEPT !.pv = Push(@, pv, c.period), !.vol = Push(@, p.volume, c.period),
                          !.sumPv = sumPv, !.sumVol = sumVol]
    IN  Publish(next, Len(next.pv) = c.period,
                IF sumVol > 0 THEN Frac(sumPv, sumVol) ELSE Frac(p.price, 1))

(* _update_indicator_from_row: a row without a price updates nothing.      *)
UpdateFromRow(c, s, bar) ==
    LET p == Payload(bar)
    IN  IF ~HasPrice(bar) THEN s
        ELSE CASE c.class = "SMA"  -> UpdateSMA(c, s, p)
               [] c.class = "DMA"  -> UpdateDMA(c, s, p)
               [] c.class = "EMA"  -> UpdateEMA(c, s, p)
               [] c.class = "ROC"  -> UpdateROC(c, s, p)
               [] c.class = "RSI"  -> UpdateRSI(c, s, p)
               [] c.class = "RMI"  -> UpdateRMI(c, s, p)
               [] c.class = "ATR"  -> UpdateATR(c, s, p)
               [] c.class = "VWAP" -> UpdateVWAP(c, s, p)

(* An indicator after the bars it was fed, in order.                       *)
After(c, bars) ==
    LET state[i \in 0..Len(bars)] ==
          IF i = 0 THEN NewIndicator(c) ELSE UpdateFromRow(c, state[i - 1], bars[i])
    IN  state[Len(bars)]

----------------------------------------------------------------------------
(* What the classes say they compute, from the whole history at once.      *)

Pow(b, e) ==
    LET p[i \in 0..e] == IF i = 0 THEN 1 ELSE b * p[i - 1]
    IN  p[e]

LastOf(q, n) == SubSeq(q, Len(q) - n + 1, Len(q))

(* A mean of the first period values, then v' = (w x + (d - w) v) / d,     *)
(* written out: every value with its weight.                               *)
Smoothed(xs, period, w, d) ==
    LET k == Len(xs) - period
    IN  Frac(Total(SubSeq(xs, 1, period)) * Pow(d - w, k)
               + Total([i \in 1..k |-> period * w * xs[period + i] * Pow(d - w, k - i)
                                         * Pow(d, i - 1)]),
             period * Pow(d, k))

(* The bars that reach an indicator, and the changes over m bars.          *)
Prices(bars) ==
    LET in[i \in 0..Len(bars)] ==
          IF i = 0 THEN <<>>
          ELSE IF HasPrice(bars[i]) THEN Append(in[i - 1], Payload(bars[i])) ELSE in[i - 1]
    IN  in[Len(bars)]

Momenta(ps, m) == [i \in 1..(IF Len(ps) > m THEN Len(ps) - m ELSE 0)
                     |-> ps[i + m].price - ps[i].price]

(* The number of bars with a price that an indicator needs for a value.    *)
Needed(c) == CASE c.class \in {"SMA", "EMA", "VWAP"} -> c.period
               [] c.class \in {"ROC", "RSI", "ATR"}  -> c.period + 1
               [] c.class \in {"DMA", "RMI"}         -> c.period + c.shift

Defined(c, bars) ==
    LET ps == Prices(bars)
        closes == [i \in DOMAIN ps |-> ps[i].price]
        momenta == Momenta(ps, IF c.class = "RSI" THEN 1 ELSE c.shift)
        wilder(q) == Smoothed(q, c.period, 1, c.period)
        recent == LastOf(ps, c.period)
        traded == Total([i \in DOMAIN recent |-> recent[i].volume])
    IN  CASE c.class = "SMA" -> Frac(Total(LastOf(closes, c.period)), c.period)
          [] c.class = "DMA" ->
               Frac(Total(LastOf(SubSeq(closes, 1, Len(closes) - c.shift), c.period)), c.period)
          [] c.class = "EMA" -> Smoothed(closes, c.period, 2, c.period + 1)
          [] c.class = "ROC" ->
               LET old == closes[Len(closes) - c.period]
               IN  IF old = 0 THEN Frac(0, 1)
                   ELSE Frac((closes[Len(closes)] - old) * 100, old)
          [] c.class \in {"RSI", "RMI"} ->
               Strength(wilder([i \in DOMAIN momenta |-> Positive(momenta[i])]),
                        wilder([i \in DOMAIN momenta |-> Positive(-momenta[i])]))
          [] c.class = "ATR" ->
               Frac(Total([i \in 1..c.period |->
                             LET j == Len(ps) - c.period + i
                             IN  TrueRange(ps[j], ps[j - 1].price)]), c.period)
          [] c.class = "VWAP" ->
               IF traded = 0 THEN Frac(closes[Len(closes)], 1)
               ELSE Frac(Total([i \in DOMAIN recent |-> recent[i].price * recent[i].volume]),
                         traded)

(* What a strategy may register, and the bars there are: no constructor    *)
(* takes a period of 0, nor an RMI a momentum_period of 0.  A negative     *)
(* period of an RSI and a negative displacement, which nothing refuses,    *)
(* are left out.                                                           *)
StreamRead(c, bars) ==
    /\ c \in [class : {"SMA", "DMA", "ROC", "EMA", "RSI", "RMI", "ATR", "VWAP"},
              period : Nat \ {0}, shift : Nat]
    /\ c.class = "RMI" => c.shift # 0
    /\ bars \in Seq([close : Int \union {Missing}, high : Int \union {Missing},
                     low : Int \union {Missing}, volume : Nat \union {Missing}])

(* An indicator is ready once it has seen enough priced bars, and has the  *)
(* defined value then; an RMI of momentum 1 is an RSI.                     *)
Exact(c, bars) ==
    LET s == After(c, bars)
        enough == Len(Prices(bars)) >= Needed(c)
    IN  /\ s.ready = enough
        /\ enough => Same(s.value, Defined(c, bars))
        /\ c.class = "RMI" /\ c.shift = 1 /\ enough =>
             Same(s.value, After([c EXCEPT !.class = "RSI"], bars).value)
=============================================================================

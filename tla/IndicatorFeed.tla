---------------------------- MODULE IndicatorFeed ----------------------------
(***************************************************************************)
(* Which bars an indicator of a strategy consumes: the warm-up when        *)
(* AddIndicator builds it, and what generate_signals_and_trade passes on   *)
(* at every poll of the event loop; and which bars the strategy's context  *)
(* shows it at the same poll.                                              *)
(*                                                                         *)
(* Times are ticks, DayTicks of them a day.  A data set d has the bars of  *)
(* every ticker ([bars]: ticker -> set of ticks), the first day of the     *)
(* simulation ([start], a tick at midnight), POLL_INTERVAL ([poll]),       *)
(* LOOKBACK_DAYS ([lookback]) and an indicator's period ([period]).        *)
(***************************************************************************)
EXTENDS Integers, Sequences, FiniteSets, Functions

CONSTANT DayTicks

Ascending(S) ==
    [j \in 1..Cardinality(S) |-> CHOOSE x \in S : Cardinality({y \in S : y <= x}) = j]

Latest(S) == CHOOSE x \in S : \A y \in S : y <= x

Day(t) == t \div DayTicks

(* _prepare_data: the lookback window is loaded before the first day.      *)
Loaded(d, t) == {b \in d.bars[t] : b >= d.start - d.lookback * DayTicks}

(* The timestamps of the loop: every bar of any ticker, from the start on. *)
LoopTimes(d) ==
    Ascending({b \in UNION {Loaded(d, t) : t \in DOMAIN d.bars} : b >= d.start})

(* The poll gate: the first timestamp, then those a poll interval later.   *)
Polls(d) ==
    LET times == LoopTimes(d)
        polls[k \in 0..Len(times)] ==
          IF k = 0 THEN <<>>
          ELSE LET before == polls[k - 1]
               IN  IF before # <<>> /\ times[k] - before[Len(before)] < d.poll THEN before
                   ELSE Append(before, times[k])
    IN  polls[Len(times)]

(* historical_slice_df: one ticker's part of what a poll hands on.         *)
Slice(d, t, now) ==
    {b \in Loaded(d, t) : now - d.lookback * DayTicks <= b /\ b <= now}

----------------------------------------------------------------------------

(* The calendar days of AddIndicator's warm-up: period * 1.7, and the date *)
(* of the day it starts in.                                                *)
WarmupDays(period) == (17 * period + 9) \div 10

(* Completed days only, from the source of the run, in time order.         *)
Warmup(d, t) ==
    {b \in d.bars[t] : /\ Day(b) >= Day(d.start) - WarmupDays(d.period)
                       /\ b < d.start}

(* Mutant of NewBars: a poll feeds the last poll's bar again.              *)
NewBars_Inclusive(d, t, i) ==
    LET polls == Polls(d)
        slice == Slice(d, t, polls[i])
    IN  IF i = 1 THEN IF slice = {} THEN {} ELSE {Latest(slice)}
        ELSE {b \in slice : b >= polls[i - 1]}

(* The bars since the last poll; at the first one "only the single latest  *)
(* point" of each ticker in the window, whenever that was.                 *)
NewBars(d, t, i) ==
    LET polls == Polls(d)
        slice == Slice(d, t, polls[i])
    IN  IF i = 1 THEN IF slice = {} THEN {} ELSE {Latest(slice)}
        ELSE {b \in slice : b > polls[i - 1]}

(* Everything an indicator of t has consumed after the i-th poll.          *)
Fed(d, t, i) ==
    LET fed[j \in 0..i] == IF j = 0 THEN Ascending(Warmup(d, t))
                           ELSE fed[j - 1] \o Ascending(NewBars(d, t, j))
    IN  fed[i]

(* AssetData: the last row of the slice up to the poll; nothing without.   *)
Exists(d, t, i) == Slice(d, t, Polls(d)[i]) # {}

LatestRow(d, t, i) == Latest(Slice(d, t, Polls(d)[i]))

----------------------------------------------------------------------------
(* What a run may be given: finitely many bars, and settings that are no   *)
(* less than zero.                                                         *)
FeedRead(d) ==
    /\ d.start \in Int /\ {d.poll, d.lookback, d.period} \subseteq Nat
    /\ IsFiniteSet(DOMAIN d.bars)
    /\ \A t \in DOMAIN d.bars : IsFiniteSet(d.bars[t]) /\ d.bars[t] \subseteq Int

(* What the indicators may rely on.                                        *)

(* The bars that the first poll feeds although the warm-up had them.       *)
Repeated(d, t) == NewBars(d, t, 1) \intersect Warmup(d, t)

(* Every bar of the run up to the poll that the next poll's window still   *)
(* reaches is consumed, in time order and once, after the warm-up; only    *)
(* what the first poll repeats comes twice; and the last bar an indicator  *)
(* consumed is the one the strategy's context shows.                       *)
FeedIsFaithful(d) ==
    \A t \in DOMAIN d.bars : \A i \in DOMAIN Polls(d) :
        LET fed   == Fed(d, t, i)
            times == {fed[j] : j \in DOMAIN fed}
            polls == Polls(d)
            next(b) == CHOOSE j \in DOMAIN polls :
                          b <= polls[j] /\ \A k \in 1..(j - 1) : polls[k] < b
        IN  /\ \A j, k \in DOMAIN fed : j < k => fed[j] <= fed[k]
            /\ \A j, k \in DOMAIN fed : j < k /\ fed[j] = fed[k] => fed[j] \in Repeated(d, t)
            /\ \A b \in d.bars[t] :
                  d.start <= b /\ b <= polls[i]
                     => (b \in times <=> b >= polls[next(b)] - d.lookback * DayTicks)
            /\ Exists(d, t, i) => fed # <<>> /\ fed[Len(fed)] = LatestRow(d, t, i)

(* What "ALL new data points" says: no bar is fed twice.                   *)
FedOnce(d) ==
    \A t \in DOMAIN d.bars : \A i \in DOMAIN Polls(d) : IsInjective(Fed(d, t, i))
=============================================================================

------------------------------ MODULE Intraday ------------------------------
(***************************************************************************)
(* Intraday bars (engine/data/intraday.py, bar_interval.py and the run's   *)
(* FMPDataAdapter): which days a run gets from a provider that answers     *)
(* only the latest days of a window, when a bar is known, whether the      *)
(* stored rows can be bucketed at all, and how much history a warm-up      *)
(* asks for.                                                               *)
(*                                                                         *)
(* Days are numbers, day 0 a Monday; times of day are minutes after 09:30. *)
(***************************************************************************)
EXTENDS Integers, Sequences, FiniteSets

SessionMinutes == 390

Sizes == {1, 5, 15, 30, 60}

(* Bars of one session; the last may be short.                             *)
BarsPerSession(m) == (SessionMinutes + m - 1) \div m

(* Calendar days of one request, and the latest days FMP answers with.     *)
ChunkDays(m) == CASE m = 1 -> 3 [] m = 5 -> 7 [] m = 15 -> 30 [] m = 30 -> 21 [] m = 60 -> 60

AnswerDays(m) == CASE m = 1 -> 3 [] m = 5 -> 10 [] m = 15 -> 45 [] m = 30 -> 30 [] m = 60 -> 90

SlabDays == 30

(* Consecutive inclusive windows of at most span days: fmp_chunks, and the *)
(* slabs of the database path.                                             *)
Windows(first, last, span) ==
    [k \in 1..(IF last < first THEN 0 ELSE (last - first) \div span + 1) |->
        << first + (k - 1) * span,
           IF first + k * span - 1 < last THEN first + k * span - 1 ELSE last >>]

(* The provider: the days that have bars, of the latest part of a request. *)
Answer(data, w, m) == {d \in data : w[1] <= d /\ d <= w[2] /\ d > w[2] - AnswerDays(m)}

(* fetch_fmp_intraday_bars: every chunk, duplicates dropped, and no day    *)
(* outside the window.                                                     *)
Download(data, first, last, m) ==
    LET windows == {Windows(first, last, ChunkDays(m))[k] :
                      k \in DOMAIN Windows(first, last, ChunkDays(m))}
    IN  {d \in UNION {Answer(data, w, m) : w \in windows} : first <= d /\ d <= last}

(* fetch_db_intraday_bars: the slabs, half-open at midnight of the next day.*)
Selected(data, first, last) ==
    UNION {{d \in data : w[1] <= d /\ d < w[2] + 1} :
              w \in {Windows(first, last, SlabDays)[k] :
                       k \in DOMAIN Windows(first, last, SlabDays)}}

----------------------------------------------------------------------------
(* The run's memo for one ticker and bar size: the widest window asked for *)
(* and what it returned, empty days included.                              *)

NoMemo == [first |-> 0, last |-> -1, days |-> {}]

\* Mutant of Remember: only a request that begins earlier is downloaded.
Remember_Earlier(data, memo, r, m) ==
    IF memo # NoMemo /\ r[1] >= memo.first THEN memo
    ELSE [first |-> r[1], last |-> r[2], days |-> Download(data, r[1], r[2], m)]

Remember(data, memo, r, m) ==
    LET empty == memo = NoMemo
        first == IF empty \/ r[1] < memo.first THEN r[1] ELSE memo.first
        last  == IF empty \/ r[2] > memo.last THEN r[2] ELSE memo.last
    IN  IF ~empty /\ r[1] >= memo.first /\ r[2] <= memo.last THEN memo
        ELSE [first |-> first, last |-> last, days |-> Download(data, first, last, m)]

Served(data, memo, r, m) == Remember(data, memo, r, m).days \intersect r[1]..r[2]

(* The memo after the requests of a run: warm-ups, then the simulation.    *)
MemoAfter(data, requests, m) ==
    LET memo[k \in 0..Len(requests)] ==
          IF k = 0 THEN NoMemo ELSE Remember(data, memo[k - 1], requests[k], m)
    IN  memo[Len(requests)]

----------------------------------------------------------------------------
(* Bars and the rows they are built from.                                  *)

(* label_bar_close: the end of the bar, at the latest the close.           *)
Label(start, m) == IF start + m <= SessionMinutes THEN start + m ELSE SessionMinutes

(* A row of the store stands for the minutes up to the next one.           *)
InSession(start) == 0 <= start /\ start < SessionMinutes

Rows(spacing) == {r \in {k * spacing : k \in 0..(SessionMinutes \div spacing)} : InSession(r)}

BucketStart(row, m) == (row \div m) * m

(* spacing_probe_windows: the start, every 60 days, and the end.           *)
SampleDays == 5
SampleEvery == 60

ProbeWindows(first, last) ==
    LET cursors == {first + k * SampleEvery : k \in 0..((last - first) \div SampleEvery)}
        lowest == IF last - SampleDays + 1 > first THEN last - SampleDays + 1 ELSE first
        end(c) == IF c + SampleDays - 1 < last THEN c + SampleDays - 1 ELSE last
        final == first + ((last - first) \div SampleEvery) * SampleEvery
    IN  IF lowest <= end(final)
        THEN {<<c, end(c)>> : c \in cursors \ {final}} \union {<<final, last>>}
        ELSE {<<c, end(c)>> : c \in cursors} \union {<<lowest, last>>}

(* The most common gap of a probe over a store with one spacing per day,   *)
(* the smaller on a tie; none when every day has a single row.             *)
Gap(spacing, w) ==
    LET gaps == {spacing[d] : d \in {e \in w[1]..w[2] : BarsPerSession(spacing[e]) > 1}}
        count(g) == Cardinality({d \in w[1]..w[2] : spacing[d] = g}) * (BarsPerSession(g) - 1)
    IN  {g \in gaps : \A h \in gaps : count(h) < count(g) \/ (count(h) = count(g) /\ g <= h)}

(* require_resolution of the least common multiple of the gaps.            *)
ResolutionAccepted(spacing, first, last, m) ==
    \A w \in ProbeWindows(first, last) : \A g \in Gap(spacing, w) : m % g = 0

----------------------------------------------------------------------------
(* Sizes and warm-ups.                                                     *)

Weekday(d) == d % 7 < 5

WeekdaysBetween(first, last) ==
    LET days == IF last < first THEN 0 ELSE last - first + 1
    IN  (days \div 7) * 5
          + Cardinality({o \in 0..((days % 7) - 1) : Weekday(first + o)})

EstimateBars(tickers, first, last, m) ==
    tickers * WeekdaysBetween(first, last) * BarsPerSession(m)

(* ceil(sessions * 7 / 5 * 1.2) + 4.                                       *)
WarmupCalendarDays(period, m) ==
    LET sessions == ((IF period > 1 THEN period ELSE 1) + BarsPerSession(m) - 1)
                      \div BarsPerSession(m)
    IN  (sessions * 42 + 24) \div 25 + 4

(* late_starting_tickers: the first bar inside the window comes too late.  *)
LateTolerance == 4

StartsLate(days, start) ==
    LET inside == {d \in days : d >= start}
    IN  inside = {} \/ \A d \in inside : d > start + LateTolerance

----------------------------------------------------------------------------
(* What the loader promises.                                               *)

(* A run is served every day the provider has in every window it asks for, *)
(* whatever it asked for before, and so is a run on the database.          *)
ServedInFull(data, requests, m) ==
    \A k \in DOMAIN requests :
        LET r == requests[k]
            in == {d \in data : r[1] <= d /\ d <= r[2]}
        IN  /\ Served(data, MemoAfter(data, SubSeq(requests, 1, k - 1), m), r, m) = in
            /\ Selected(data, r[1], r[2]) = in

(* The labels of a session's bars increase, and a bar only holds what is   *)
(* over by its label, in a store that changes from coarse to fine rows on  *)
(* some day, when that day is not inside a sampled window.                 *)
NothingFromTheFuture(coarse, fine, from, first, last, m) ==
    LET spacing == [d \in first..last |-> IF d < from THEN coarse ELSE fine]
        unseen == \E w \in ProbeWindows(first, last) : w[1] < from /\ from <= w[2]
    IN  /\ \A r \in Rows(m) : InSession(r + m) => Label(r, m) < Label(r + m, m)
        /\ ~unseen /\ ResolutionAccepted(spacing, first, last, m)
             => \A s \in {spacing[first], spacing[last]} : \A r \in Rows(s) :
                   Label(r, s) <= Label(BucketStart(r, m), m)

(* The warm-up window has period bars, even with one weekday a holiday, a  *)
(* window is estimated at no fewer bars than its weekdays have, and a      *)
(* holiday at its start makes no ticker late, as a missing week would.     *)
WarmupCovers(period, m, start) ==
    LET w == WarmupCalendarDays(period, m)
        sessions == Cardinality({d \in (start - w)..(start - 1) : Weekday(d)})
    IN  /\ (sessions - 1) * BarsPerSession(m) >= period
        /\ EstimateBars(1, start - w, start - 1, m) = sessions * BarsPerSession(m)
        /\ \A holiday \in start..(start + 7) :
              ~StartsLate({d \in start..(start + 14) : Weekday(d)} \ {holiday}, start)
        /\ StartsLate({d \in (start - 7)..(start + 14) : d \notin start..(start + 6)}, start)
=============================================================================

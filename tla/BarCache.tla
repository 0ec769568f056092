------------------------------ MODULE BarCache ------------------------------
(***************************************************************************)
(* The daily bars a run reads when the database is its price source:       *)
(* public.market_data (repositories/market_data.py), the parquet file per  *)
(* ticker in front of it (engine/data/cache.py) and the loader that        *)
(* extends the files to a run's window (engine/core/utils.py).  Runs are   *)
(* processes of the pool: two of them read and write the same files        *)
(* without a lock.                                                         *)
(*                                                                         *)
(* A day has one bar, labelled at the close.  Times are half days: day d   *)
(* begins at Midnight(d), its bar is at Close(d), it ends at DayEnd(d).    *)
(* A query that starts after a day's open aggregates only the rest of the  *)
(* day: its bar is "partial".                                              *)
(***************************************************************************)
EXTENDS Integers

CONSTANTS
    Tickers,        \* the tickers of a run
    Workers,        \* pool workers
    LastDay,        \* bound: the last day that may have a bar
    Slab,           \* DATE_SLAB_DAYS
    InitialTables,  \* what the database may hold at first
    NoTicker

Days == 1..LastDay

ASSUME BarsAssumption ==
    /\ LastDay \in Nat /\ Slab \in Nat \ {0}
    /\ NoTicker \notin Tickers
    /\ InitialTables \subseteq [Tickers -> SUBSET Days]

Midnight(d) == 2 * d - 1
Close(d)    == 2 * d
DayEnd(d)   == 2 * d + 1

VARIABLES
    table,    \* public.market_data: the days that have bars, by ticker
    file,     \* the parquet files
    job,      \* each worker's load of its run's history
    stepped   \* history: tickers extended to the left in more than one slab

barVars == <<table, file, job, stepped>>

Bars   == [Days -> {"none", "whole", "partial"}]
NoBars == [d \in Days |-> "none"]
Held(bars) == {d \in Days : bars[d] # "none"}

First(D) == CHOOSE d \in D : \A e \in D : d <= e
Final(D) == CHOOSE d \in D : \A e \in D : e <= d

Absent == [state |-> "absent", bars |-> NoBars]

NoGap == [lo |-> 0, hi |-> 0, tickers |-> {}]

NoJob == [ pc |-> "idle", from |-> 0, to |-> 0, bars |-> [t \in Tickers |-> NoBars],
           gaps |-> {}, gap |-> NoGap, at |-> 0, save |-> {}, writing |-> NoTicker,
           want |-> [t \in Tickers |-> {}] ]

BarInit ==
    /\ table \in InitialTables
    /\ file = [t \in Tickers |-> Absent]
    /\ job = [w \in Workers |-> NoJob]
    /\ stepped = {}

Busy(w) == job[w].pc \in {"fetch", "save", "splice"}

----------------------------------------------------------------------------
(* The database.                                                           *)

(* The live system appends a session's bars; a load takes seconds, so none *)
(* is under way.                                                           *)
AppendBar(t, d) ==
    /\ table[t] # {} /\ \A e \in table[t] : e < d
    /\ \A w \in Workers : ~Busy(w)
    /\ table' = [table EXCEPT ![t] = @ \union {d}]
    /\ UNCHANGED <<file, job, stepped>>

(* _fetch_from_db: the closes of the window, joined with the aggregates of *)
(* the part of each day that lies in it.                                   *)
Rows(t, lo, hi) ==
    [d \in Days |-> IF ~(d \in table[t] /\ lo <= Close(d) /\ Close(d) <= hi) THEN "none"
                    ELSE IF lo <= Midnight(d) THEN "whole" ELSE "partial"]

(* drop_duplicates keeps the first, and the cached rows come first.        *)
Merge_KeepLast(old, new) == [d \in Days |-> IF new[d] # "none" THEN new[d] ELSE old[d]]

Merge(old, new) == [d \in Days |-> IF old[d] # "none" THEN old[d] ELSE new[d]]

(* missing_ranges: before the first cached bar and after the last one.     *)
Missing(bars, lo, hi) ==
    LET D == Held(bars)
    IN  IF D = {} THEN {[lo |-> lo, hi |-> hi]}
        ELSE {r \in {[lo |-> lo, hi |-> Close(First(D))], [lo |-> Close(Final(D)), hi |-> hi]} :
                r.lo < r.hi}

----------------------------------------------------------------------------
(* fetch_historical_data in worker w.                                      *)

(* cache.load: a file that cannot be read is a miss.                       *)
Load(t) == IF file[t].state = "whole" THEN file[t].bars ELSE NoBars

(* range_to_tickers: each missing range once, with the tickers that miss   *)
(* it.                                                                     *)
Gaps(bars, lo, hi) ==
    {[lo |-> r.lo, hi |-> r.hi, tickers |-> {t \in Tickers : r \in Missing(bars[t], lo, hi)}] :
        r \in UNION {Missing(bars[t], lo, hi) : t \in Tickers}}

(* The next gap of those that are left; when none is, the caches are       *)
(* spliced.  The code takes them in the order it met them, here any.       *)
NextGap(j, gaps) ==
    IF gaps = {} THEN {[j EXCEPT !.pc = "splice", !.gaps = {}, !.gap = NoGap, !.at = 0]}
    ELSE {[j EXCEPT !.pc = "fetch", !.gaps = gaps \ {g}, !.gap = g, !.at = g.lo] : g \in gaps}

LoadStart(w, from, to) ==
    /\ job[w].pc \in {"idle", "served"} /\ from <= to
    /\ LET cached == [t \in Tickers |-> Load(t)]
           j == [NoJob EXCEPT !.from = from, !.to = to, !.bars = cached,
                              !.want = [t \in Tickers |-> table[t] \intersect (from..to)]]
       IN  \E k \in NextGap(j, Gaps(cached, Midnight(from), DayEnd(to))) :
             job' = [job EXCEPT ![w] = k]
    /\ UNCHANGED <<table, file, stepped>>

Gap(w) == job[w].gap
SlabEnd(w) == IF job[w].at + 2 * Slab < Gap(w).hi THEN job[w].at + 2 * Slab ELSE Gap(w).hi

(* One query per slab, for the tickers that miss the range.  It fails and  *)
(* the run with it, or its rows are merged into what the worker holds, and *)
(* the tickers that got rows are saved.                                    *)
FetchSlab(w) ==
    /\ job[w].pc = "fetch"
    /\ LET new == [t \in Tickers |-> IF t \in Gap(w).tickers THEN Rows(t, job[w].at, SlabEnd(w))
                                     ELSE NoBars]
       IN  job' = [job EXCEPT ![w].pc = "save",
                              ![w].bars = [t \in Tickers |-> Merge(@[t], new[t])],
                              ![w].save = {t \in Tickers : Held(new[t]) # {}}]
    /\ UNCHANGED <<table, file, stepped>>

(* A query that does not complete raises MarketDataUnavailable, a worker   *)
(* may die; the files stay as they are.                                    *)
JobFails(w) ==
    /\ Busy(w)
    /\ job' = [job EXCEPT ![w] = NoJob]
    /\ UNCHANGED <<table, file, stepped>>

(* cache.save truncates the file, then writes it.  What two writers at     *)
(* once leave behind cannot be read.  A failed write is logged.            *)
SaveStart(w, t) ==
    /\ job[w].pc = "save" /\ job[w].writing = NoTicker /\ t \in job[w].save
    /\ job' = [job EXCEPT ![w].writing = t]
    /\ file' = [file EXCEPT ![t] = [@ EXCEPT !.state = "torn"]]
    /\ UNCHANGED <<table, stepped>>

SaveEnd(w, t) ==
    /\ job[w].pc = "save" /\ job[w].writing = t /\ t # NoTicker
    /\ job' = [job EXCEPT ![w].writing = NoTicker, ![w].save = @ \ {t}]
    /\ \/ /\ \A v \in Workers \ {w} : job[v].writing # t
          /\ file' = [file EXCEPT ![t] = [state |-> "whole", bars |-> job[w].bars[t]]]
          /\ stepped' = IF /\ SlabEnd(w) < Gap(w).hi
                           /\ \E d \in Held(job[w].bars[t]) : Gap(w).hi <= Close(d)
                        THEN stepped \union {t} ELSE stepped
       \/ UNCHANGED <<file, stepped>>
    /\ UNCHANGED table

(* The next slab of the gap, or the next gap.                              *)
SlabDone(w) ==
    /\ job[w].pc = "save" /\ job[w].save = {}
    /\ IF SlabEnd(w) < Gap(w).hi
       THEN job' = [job EXCEPT ![w].pc = "fetch", ![w].at = SlabEnd(w)]
       ELSE \E k \in NextGap(job[w], job[w].gaps) : job' = [job EXCEPT ![w] = k]
    /\ UNCHANGED <<table, file, stepped>>

(* The bars of the window are handed to the run.                           *)
Serve(w) ==
    /\ job[w].pc = "splice"
    /\ job' = [job EXCEPT ![w].pc = "served",
                          ![w].bars = [t \in Tickers |->
                              [d \in Days |-> IF d \in job[w].from..job[w].to
                                              THEN job[w].bars[t][d] ELSE "none"]]]
    /\ UNCHANGED <<table, file, stepped>>

BarStep ==
    \/ \E t \in Tickers, d \in Days : AppendBar(t, d)
    \/ \E w \in Workers :
         \/ \E from, to \in Days : LoadStart(w, from, to)
         \/ FetchSlab(w) \/ JobFails(w) \/ SlabDone(w) \/ Serve(w)
         \/ \E t \in Tickers : SaveStart(w, t) \/ SaveEnd(w, t)

----------------------------------------------------------------------------
(* A run that was served has every bar the database held in its window     *)
(* when it started, each of them a whole day's: whatever other workers     *)
(* wrote to the files, whichever loads failed or died half way, the file   *)
(* never skips a stored day between its first and its last bar.  Tickers   *)
(* that were extended to the left in several slabs are excepted: between   *)
(* two of them the file has a hole that missing_ranges does not see.       *)
ServedWhole ==
    \A w \in Workers : job[w].pc = "served" =>
        \A t \in Tickers \ stepped :
            /\ job[w].want[t] \subseteq Held(job[w].bars[t])
            /\ \A d \in Days : job[w].bars[t][d] # "partial"
=============================================================================

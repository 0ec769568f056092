------------------------------ MODULE Algorithms ------------------------------
(***************************************************************************)
(* The pure parts of the program, each for every input it may be given: a  *)
(* behaviour takes one case, and a property says what the operators of a   *)
(* module return for it.  The sets of cases are constants, and so is what  *)
(* a deployment configures; the assumptions say what the code guarantees   *)
(* of both.                                                                *)
(***************************************************************************)
EXTENDS Integers, Sequences, FiniteSets

CONSTANTS
    Missing, Absent, Malformed,
    AllowedRoots, BannedNames, BannedRoots, BannedAttributes, KnownIndicators,
    Reserved, Offset, Base, MaxLines,
    DayTicks,
    Scale, Shares, Win, Slip, Vix, HighVol, RiskOff,
    Symbols, Registry, Coverage, Day0, NameLimit, MaxWindow, MaxBars, MaxTickers,
    Unit, ValidationDays, RunModes, NewsConfigured, Adapted,
    Share

\* The cases.
CONSTANTS
    Files, Drafts,                  \* of StrategyScan
    Streams,                        \* [config, bars], of Indicators
    Feeds,                          \* of IndicatorFeed
    Matrices,                       \* [closes, order], of FastMode
    Requests,                       \* of RunRequest
    Downloads, Stores, Warmups,     \* of Intraday
    Frames, Ledgers, Curves         \* of Reporting

VARIABLES kind, data

vars == <<kind, data>>

Scan   == INSTANCE StrategyScan
Stream == INSTANCE Indicators
Feed   == INSTANCE IndicatorFeed
Fast   == INSTANCE FastMode
Run    == INSTANCE RunRequest
Intra  == INSTANCE Intraday
Report == INSTANCE Reporting WITH Unit <- Share

-------------------------------------------------------------------------------
(* Absent and Malformed are no values; RUN_MODES is ("event",), and fast    *)
(* mode, should it be offered, is for the strategies it has an adapter for. *)

ASSUME AbsentIsNoValue ==
    /\ Absent \notin Int /\ Malformed \notin Int /\ Absent # Malformed /\ Missing \notin Int
    /\ \A S \in SUBSET Symbols : Absent \notin [S -> Int]

ASSUME LimitsArePositive ==
    /\ Unit \in Nat \ {0} /\ MaxTickers \in 0..Unit /\ ValidationDays \in Nat
    /\ Scale \in Int /\ Shares \in Int
    /\ \A k \in {"fast", "slow", "shift", "rsi", "momentum", "vol", "jump"} : Win[k] \in Nat \ {0}

ASSUME StrategiesAreRegistered ==
    \A k \in DOMAIN Registry : Run!Registered(Registry[k])

ASSUME ModesAreKnown ==
    /\ RunModes \subseteq {"event", "fast"}
    /\ "fast" \in RunModes => \A k \in DOMAIN Registry : Registry[k].class \in Adapted

ASSUME CoverageIsDays == Coverage \in [DOMAIN Coverage -> Int \X Int]

ASSUME FilesAreRead ==
    /\ Offset \in Nat /\ MaxLines \in Nat
    /\ \A file \in Files : Scan!FileRead(file)
    /\ \A d \in Drafts : Scan!DraftRead(d)

ASSUME RequestsAreParsed == \A r \in Requests : Run!Parsed(r)

ASSUME StreamsAreRead == \A s \in Streams : Stream!StreamRead(s.config, s.bars)

ASSUME MatricesAreRead == \A k \in Matrices : Fast!MatrixRead(k.closes, k.order)

ASSUME DownloadsAreRead ==
    \A d \in Downloads : d.days \subseteq Int /\ d.requests \in Seq(Int \X Int)
                           /\ d.size \in Intra!Sizes

ASSUME StoresAreRead ==
    \A s \in Stores : /\ {s.coarse, s.fine, s.size} \subseteq Intra!Sizes
                      /\ {s.from, s.first, s.last} \subseteq Int /\ s.first <= s.last

ASSUME WarmupsAreRead ==
    \A w \in Warmups : w.period \in Nat \ {0} /\ w.size \in Intra!Sizes /\ w.start \in Int

ASSUME FeedsAreRead == DayTicks \in Nat \ {0} /\ \A d \in Feeds : Feed!FeedRead(d)

ASSUME ReportsAreRead ==
    /\ Share \in Nat \ {0}
    /\ \A f \in Frames : Report!FrameRead(f.rows, f.weights, f.capital, f.from, f.to)
    /\ \A l \in Ledgers : Report!LedgerRead(l.fills, l.rows, l.capital, l.grid)
    /\ \A c \in Curves : Report!CurveRead(c.perf, c.marks, c.day)

-------------------------------------------------------------------------------

Init == kind = "none" /\ data = {}

Case(k, inputs) == kind' = k /\ data' \in inputs

Next ==
    /\ kind = "none"
    /\ \/ Case("file", Files)         \/ Case("draft", Drafts)
       \/ Case("stream", Streams)     \/ Case("feed", Feeds)
       \/ Case("matrix", Matrices)    \/ Case("request", Requests)
       \/ Case("download", Downloads) \/ Case("store", Stores)
       \/ Case("warmup", Warmups)     \/ Case("frame", Frames)
       \/ Case("ledger", Ledgers)     \/ Case("curve", Curves)

Spec == Init /\ [][Next]_vars

-------------------------------------------------------------------------------
(* Properties.                                                              *)

\* check_compatibility, scan_source and load_user_strategy read a file by rules of
\* their own: a file that checks clean is taken; when the worker finds a class it is
\* the one that was shown; and a file the scan takes only fails to load because its
\* import fails or a name stands for something else than it says (the class is bound
\* again, its BasePortfolio is no strategy, a strategy has two names or comes from
\* outside).  A draft that checks clean is taken and loads, and what is wrong with a
\* draft is reported on a line of the draft.
CheckedIsAccepted ==
    /\ kind = "file" => Scan!FileAgrees(data)
    /\ kind = "draft" => Scan!DraftAgrees(data, MaxLines)

\* "IsReady" and "Current" of every indicator, updated bar by bar over a bounded
\* window, are what its class is defined to be over the whole history; and an RMI
\* of momentum 1 is an RSI.
IndicatorsAreExact == kind = "stream" => Stream!Exact(data.config, data.bars)

\* Between AddIndicator's warm-up and generate_signals_and_trade no bar is lost,
\* reordered or shown before the indicators had it, and none but the first is
\* consumed twice.
FeedIsFaithful == kind = "feed" => Feed!FeedIsFaithful(data)

\* "Updates indicators with ALL new data points": an indicator "counts the same bars
\* before and during the simulation", each of them once.
FedOnce == kind = "feed" => Feed!FedOnce(data)

\* Fast mode holds on a day what a run that ended the evening before would hold, and
\* books what one that ended that day would, save that trend_rotate groups the columns
\* of the whole run.
NoLookAhead == kind = "matrix" => Fast!Causal(data.closes, data.order)

\* The worker runs what the API accepted, as it was submitted.
RunAsSubmitted == kind = "request" => Run!RunAsSubmitted(data)

\* A run on intraday bars is served every day there is, warms up on enough of them
\* and never sees a bar before it is over.
IntradayIsWhole ==
    /\ kind = "download" => Intra!ServedInFull(data.days, data.requests, data.size)
    /\ kind = "store" =>
         Intra!NothingFromTheFuture(data.coarse, data.fine, data.from, data.first, data.last,
                                    data.size)
    /\ kind = "warmup" => Intra!WarmupCovers(data.period, data.size, data.start)

\* The benchmark of a report is an account that was bought once, its minute table is
\* the account the fills left wherever the last row prices what is held, and its curve
\* is the samples of the run.
ReportIsExact ==
    /\ kind = "frame" =>
         Report!BenchmarkIsHeld(data.rows, data.weights, data.capital, data.from, data.to)
    /\ kind = "ledger" =>
         Report!ReplayIsTheAccount(data.fills, data.rows, data.capital, data.grid)
    /\ kind = "curve" =>
         Report!CurveIsTheRun(data.perf, data.marks, data.capital, data.day)
===============================================================================

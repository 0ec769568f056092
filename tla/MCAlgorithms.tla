----------------------------- MODULE MCAlgorithms -----------------------------
(***************************************************************************)
(* The cases of Algorithms that TLC takes, and the deployment they are     *)
(* taken in.  Every bound is a definition of this module.                  *)
(***************************************************************************)
EXTENDS Algorithms, SequencesExt, TLC

CONSTANTS x, y, z, late

-------------------------------------------------------------------------------
(* Uploaded files and drafts.                                               *)

Is(what)  == [kind |-> what, class |-> "none"]
Named(n)  == [id |-> n, dotted |-> FALSE, outer |-> Is("unbound")]
From(n, what) == [id |-> n, dotted |-> TRUE, outer |-> Is(what)]
Direct == Named("BasePortfolio")

Class(name, bases, form) ==
    [ form |-> form, name |-> name, line |-> 3, bases |-> bases, onData |-> "def",
      dataLine |-> 4, args |-> 2, vararg |-> FALSE, static |-> FALSE, init |-> "none",
      indicators |-> {} ]

Bind(name, of) == [form |-> "bind", name |-> name, of |-> of]

Import == Bind("BasePortfolio", From("BasePortfolio", "base"))

Node(form, root) == [form |-> form, root |-> root, attr |-> root, level |-> 0, line |-> 2]

File(body) ==
    [parses |-> TRUE, badLine |-> 1, nodes |-> {}, body |-> body, raises |-> FALSE]

\* Up to three statements after the import of BasePortfolio, or without it: classes of
\* two names that extend each other in every order, under a builtin, an attribute or
\* an impostor, and names that are given to an imported strategy, to another class of
\* the file, or to nothing of the kind.
Statements ==
    {Class(c, b, k) : c \in {"A", "B"}, k \in {"class", "nested"},
        b \in {{}, {Direct}, {From("BasePortfolio", "base")}, {From("BasePortfolio", "class")},
               {Named("A")}, {Named("B"), Direct}}}
    \union {Bind("A", From("f", "other")), Bind("X", From("S", "strategy")),
            Bind("X", From("BasePortfolio", "base")), Bind("B", Named("A")),
            Class("B", {Named("X")}, "class"),
            Bind("BasePortfolio", From("BasePortfolio", "class")),
            Class("A", {[id |-> "object", dotted |-> FALSE, outer |-> Is("class")], Direct},
                  "class")}

Shapes ==
    {File(p \o cs) : p \in {<<>>, <<Import>>}, cs \in UNION {[1..n -> Statements] : n \in 0..3}}

\* One class, with every OnData, and a file that is wrong in other ways.
Contracts ==
    {[File(<<Import, [Class("A", {Direct}, "class") EXCEPT
                !.onData = o, !.args = n, !.vararg = v, !.static = s, !.indicators = i]>>)
        EXCEPT !.parses = p, !.nodes = w, !.raises = r] :
       o \in {"def", "async", "assigned", "misspelled", "absent"}, n \in 0..2,
       v \in BOOLEAN, s \in BOOLEAN, i \in {{}, {<<5, "SMA">>}, {<<5, "XYZ">>}},
       p \in BOOLEAN, r \in BOOLEAN,
       w \in {{}, {Node("import", "pandas")}, {Node("import", "os")}, {Node("name", "eval")}}}

UploadedFiles == Shapes \union Contracts

SubmittedDrafts ==
    {[ rows |-> r, state |-> s, named |-> i, classes |-> cs, nodes |-> w,
       parses |-> p, badLine |-> 2, lines |-> 4, escapes |-> e ] :
       r \in UNION {[1..k -> [attribute : {"fast", "logger"}, indicator : {"SMA", "XYZ"}]] :
                      k \in 0..2},
       s \in {{}, {"fast"}, {"logger"}}, i \in {{}, {<<1, "SMA">>}, {<<4, "XYZ">>}},
       cs \in {<<>>, <<Class("A", {}, "nested")>>, <<Class("A", {Direct}, "nested")>>},
       w \in {{}, {Node("name", "eval")}}, p \in BOOLEAN, e \in BOOLEAN}

-------------------------------------------------------------------------------
(* Indicators and the bars they are fed.                                    *)

Bar(c, h, l, v) == [close |-> c, high |-> h, low |-> l, volume |-> v]

Closes == {Bar(c, Missing, Missing, Missing) : c \in {Missing, 0, 1, 3}}
Ranges == {Bar(c, h, l, Missing) : c \in {Missing, 2}, h \in {Missing, 5}, l \in {Missing, 1}}
          \union {Bar(6, 7, 5, 1)}
Traded == {Bar(c, Missing, Missing, v) : c \in {Missing, 1, 3}, v \in {Missing, 0, 2}}

UpTo(n, S) == UNION {[1..l -> S] : l \in 0..n}

Configs(classes, shifts) ==
    [class : classes, period : 1..3, shift : shifts]

BarStreams ==
    [config : Configs({"SMA", "EMA", "ROC", "RSI"}, {1}) \union Configs({"DMA", "RMI"}, 1..2),
     bars : UpTo(5, Closes)]
    \union [config : Configs({"ATR"}, {1}), bars : UpTo(4, Ranges)]
    \union [config : Configs({"VWAP"}, {1}), bars : UpTo(4, Traded)]

\* Two bars a day at most, four days, of which the simulation sees two.
BarFeeds ==
    {[bars |-> (x :> a) @@ (y :> b), start |-> 4, poll |-> p, lookback |-> l, period |-> n] :
       a \in SUBSET (0..7), b \in {{}, {5}, {1, 4}, {3, 7}}, p \in {0, 2, 3}, l \in 1..2,
       n \in 1..2}

-------------------------------------------------------------------------------
(* Fast mode: closes that divide 4, windows of one to three days.           *)

Windows ==
    [fast |-> 1, slow |-> 2, shift |-> 1, rsi |-> 2, momentum |-> 2, vol |-> 2, jump |-> 1]

\* Two tickers; with a third that is listed late, or never, first or last.
Late == <<Missing, Missing, 2, 4>>
Never == <<Missing, Missing, Missing, Missing>>

CloseMatrices ==
    {[closes |-> (x :> a) @@ b, order |-> <<x, CHOOSE t \in DOMAIN b : TRUE>>] :
       a \in [1..4 -> {Missing, 1, 4}],
       b \in {y :> <<1, 4, 1, 4>>, z :> <<4, 2, 1, 4>>}}
    \union
    {[closes |-> (x :> a) @@ (y :> <<1, 4, 1, 4>>) @@ b,
      order |-> LET t == CHOOSE t \in DOMAIN b : TRUE
                IN  IF last THEN <<x, y, t>> ELSE <<t, x, y>>] :
       a \in [1..4 -> {Missing, 1, 4}], last \in BOOLEAN,
       b \in {late :> Late, z :> Late, late :> Never}}

-------------------------------------------------------------------------------
(* Requests: good ones with some of their fields replaced.                  *)

Row(universe, config) ==
    [enabled |-> TRUE, packaged |-> TRUE, universe |-> universe, class |-> "S",
     specs |-> ("LOOKBACK_DAYS" :> [type |-> "integer", min |-> 5, max |-> 365]),
     config |-> config]

Half == [tickers |-> <<x, y>>, weights |-> (x :> 5 @@ y :> 5), bar |-> Absent,
         poll |-> 60, lookback |-> 30]

Part == [tickers |-> <<x>>, weights |-> (x :> 8), bar |-> Absent, poll |-> 3600,
         lookback |-> Absent]

Strategies ==
    ("half" :> Row(<<x, y>>, Half) @@ "part" :> Row(<<x>>, Part)
       @@ "off" :> [Row(<<x>>, Part) EXCEPT !.enabled = FALSE])

PricedDays == (x :> <<0, 100>> @@ y :> <<50, 90>>)

Gate(on, t) == [enabled |-> on, threshold |-> t]

Lookback(k, t) == ("LOOKBACK_DAYS" :> [kind |-> k, tenths |-> t])

\* Its universe, weights, bar size, gate, window and lookback.
Chosen ==
    [ name : {3}, strategy : {"half", "part"}, start : {48, 53, 59}, end : {60}, capital : {1},
      mode : {"event"},
      universe : {Absent, Malformed, <<>>, <<x>>, <<y, x>>, <<x, x>>, <<y>>, <<z>>},
      weights : {Absent, Malformed, x :> 10, x :> 6 @@ y :> 4, x :> 6 @@ y :> 5,
                 x :> 11 @@ y :> -1, x :> 0 @@ y :> 0},
      slippageBps : {1000}, commission : {1},
      interval : {Absent, Malformed, 86400, 3600, 900, 120},
      gate : {Absent, Malformed, Gate(FALSE, Malformed), Gate(TRUE, 0), Gate(TRUE, 1)},
      signals : {FALSE}, params : {<<>>, Lookback("number", 60), Lookback("number", 65)} ]

\* Everything else.
Others ==
    [ name : {0, 3, 4}, strategy : {"half", "off", "none"}, start : {56},
      end : {Malformed, 55, 60, 80, 95}, capital : {Malformed, 0, 1},
      mode : {"event", "fast", "both"}, universe : {Absent}, weights : {Absent},
      slippageBps : {Absent, Malformed, 0, 1001}, commission : {Absent, Malformed, 0, 100},
      interval : {Absent}, gate : {Absent}, signals : BOOLEAN, params : {<<>>} ]

SubmittedRequests == Chosen \union Others

-------------------------------------------------------------------------------
(* Intraday bars.                                                           *)

Span == 0..130

DayDownloads ==
    [days : {Span, {d \in Span : Intra!Weekday(d)}, {d \in Span : d % 29 = 3}},
     requests : UpTo(3, {<<20, 60>>, <<59, 59>>, <<60, 130>>, <<0, 24>>, <<3, 40>>}),
     size : Intra!Sizes]

RowStores ==
    {[coarse |-> c, fine |-> f, from |-> from, first |-> first, last |-> first + w, size |-> m] :
       c \in Intra!Sizes, f \in Intra!Sizes, m \in Intra!Sizes, first \in {0, 5},
       w \in {0, 3, 30, 62, 121}, from \in {0, 1, 4, 6, 40, 70, 121, 200}}

WarmupRequests ==
    [period : {1, 2, 5, 6, 7, 14, 27, 50, 79, 200, 391, 800}, size : Intra!Sizes,
     start : 100..106]

-------------------------------------------------------------------------------
(* Reports: two tickers, quotes in any order, one of them too early.        *)

Quote(s, t, p) == [time |-> s, ticker |-> t, price |-> p]

PriceFrames ==
    {[rows |-> rows, weights |-> (x :> 1) @@ (y :> 2), capital |-> 16, from |-> 1, to |-> 3] :
       rows \in UpTo(3, {Quote(s, t, p) : s \in 0..3, t \in {x, y}, p \in {1, 2}}
                          \union {Quote(2, x, Missing)})
                \union {<<Quote(1, x, 2), Quote(1, y, 4)>> \o rest :
                          rest \in [1..2 -> {Quote(s, t, p) : s \in 2..3, t \in {x, y},
                                                              p \in {1, 4}}]}}

Fill(s, t, n, p) == [time |-> s, ticker |-> t, shares |-> n, price |-> p, fees |-> 1]

\* Quotes of one time, of different times, without a price, after the minute, and
\* two of one ticker.
QuoteTables ==
    {<<Quote(1, x, 2), Quote(1, y, 4), Quote(3, y, 2), Quote(3, x, 8)>>,
     <<Quote(1, x, 2), Quote(2, y, 4), Quote(3, x, 8)>>,
     <<Quote(1, y, 4), Quote(2, y, 1), Quote(2, x, Missing), Quote(3, x, 8)>>,
     <<Quote(2, x, 8), Quote(2, y, 4), Quote(2, x, 2)>>}

FillLedgers ==
    {[fills |-> fills, rows |-> rows, capital |-> 50, grid |-> 1..4] :
       fills \in {<<>>} \union {<<Fill(a, x, 2, 2), Fill(b, t, n, 4)>> :
                                  a \in 1..2, b \in 2..4, t \in {x, y}, n \in {-3, -2, 1}},
       rows \in QuoteTables}

SampledCurves ==
    [perf : UpTo(3, [time : 1..4, value : {2, 3, 6}]),
     marks : {(2 :> 7), (1 :> 5 @@ 3 :> 9), <<>>},
     capital : {5}, day : {[s \in 0..9 |-> s \div 2]}]
===============================================================================

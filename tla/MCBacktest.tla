----------------------------- MODULE MCBacktest -----------------------------
(***************************************************************************)
(* Instances of Backtest: tickers, the configured weights and the news.    *)
(***************************************************************************)
EXTENDS Backtest

CONSTANTS x, y

\* Half of the capital in each ticker, or all in the only one.
EqualAllocation == [t \in Tickers |-> WDen \div Cardinality(Tickers)]

\* Bad news about x just inside and just outside the loaded window, good news
\* that makes the gate open again, and news that is not available before the end.
News == {[ticker |-> x, published |-> -4, score |-> -3],
         [ticker |-> x, published |-> -1, score |-> -2],
         [ticker |-> x, published |-> 0,  score |-> 2]}

Quiet == {}

ShortOnly == {-2}

Levered == {-4, 3}
=============================================================================

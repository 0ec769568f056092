----------------------------- MODULE TradePairing -----------------------------
(***************************************************************************)
(* FIFO pairing of fills into round trips (src/services/trade_pairing.py). *)
(* A fill is a record with ticker, side, shares, price and fees; the fee   *)
(* of a fill is per share, so a part of it carries its share of the fees.  *)
(* The executor logs fills in time order, which the stable sort keeps.     *)
(***************************************************************************)
EXTENDS Integers, Sequences, SequencesExt

\* _round_trip and _open_row: exit = 0 for a lot that was never closed.
RoundTrip(lot, fill, matched) ==
    [ticker |-> fill.ticker, direction |-> lot.direction, opened |-> lot.opened,
     entry |-> lot.price, exit |-> fill.price, closed |-> TRUE, quantity |-> matched,
     pnl |-> (fill.price - lot.price) * matched * lot.direction,
     fees |-> matched * (lot.fee + fill.fee)]

OpenRow(lot) ==
    [ticker |-> lot.ticker, direction |-> lot.direction, opened |-> lot.opened,
     entry |-> lot.price, exit |-> 0, closed |-> FALSE, quantity |-> lot.quantity,
     pnl |-> 0, fees |-> lot.quantity * lot.fee]

\* The head of the fill's own book: its oldest open lot.
Oldest(lots, fill) ==
    CHOOSE i \in DOMAIN lots :
        /\ lots[i].ticker = fill.ticker
        /\ \A k \in DOMAIN lots : lots[k].ticker = fill.ticker => i <= k

\* lots and lots[0].direction != fill.direction
Closes(lots, fill) ==
    /\ \E i \in DOMAIN lots : lots[i].ticker = fill.ticker
    /\ lots[Oldest(lots, fill)].direction # fill.direction

\* One turn of the closing loop.  The books of all tickers are one sequence in
\* opening order, so a ticker's own lots stand in it oldest first.
CloseOldest(book, fill) ==
    LET i == Oldest(book.lots, fill)
        lot == book.lots[i]
        matched == IF book.remaining < lot.quantity THEN book.remaining ELSE lot.quantity
    IN  [book EXCEPT
          !.remaining = @ - matched,
          !.closed = Append(@, RoundTrip(lot, fill, matched)),
          !.lots = IF matched = lot.quantity THEN RemoveAt(@, i)
                   ELSE [@ EXCEPT ![i].quantity = lot.quantity - matched]]

\* The closing loop ends after at most one turn for each open lot.
CloseLots(book, fill) ==
    LET Turn(b, i) == IF b.remaining > 0 /\ Closes(b.lots, fill) THEN CloseOldest(b, fill) ELSE b
    IN  FoldLeft(Turn, book, [i \in DOMAIN book.lots |-> i])

\* What is left of the fill opens or extends a position in its own direction.
OpenRest(book, fill) ==
    IF book.remaining = 0 THEN book
    ELSE [book EXCEPT !.remaining = 0, !.index = @ + 1,
            !.lots = Append(@, [ticker |-> fill.ticker, direction |-> fill.direction,
                                quantity |-> book.remaining, price |-> fill.price,
                                fee |-> fill.fee, opened |-> book.index])]

\* _normalise for one fill; the executor logs none of zero shares.
Normalised(f) ==
    [ticker |-> f.ticker, direction |-> IF f.side = "BUY" THEN 1 ELSE -1,
     quantity |-> f.shares, price |-> f.price, fee |-> f.fees \div f.shares]

PairFill(book, f) ==
    LET fill == Normalised(f)
    IN  OpenRest(CloseLots([book EXCEPT !.remaining = fill.quantity], fill), fill)

\* pair_fills: the round trips in the order they closed, then the open lots in
\* the order they opened.
pair_fills(fills) ==
    LET book == FoldLeft(PairFill, [lots |-> <<>>, closed |-> <<>>, index |-> 0, remaining |-> 0],
                         fills)
    IN  book.closed \o [i \in DOMAIN book.lots |-> OpenRow(book.lots[i])]
===============================================================================

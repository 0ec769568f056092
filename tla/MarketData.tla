----------------------------- MODULE MarketData -----------------------------
(***************************************************************************)
(* The market-data service of the API process (services/market_data.py)    *)
(* over the tables of BarCache: exact symbol checks and prefix searches,   *)
(* which share one provider (data/fmp.py) through coalesced requests and   *)
(* caches, the index of known tickers, and the coverage requests that      *)
(* backfill tickers the database has never seen.                           *)
(*                                                                         *)
(* A query is a symbol (validate_tickers) or the one prefix (search).      *)
(* Each caller is a request's thread of asyncio.to_thread; sections under  *)
(* _symbol_lock are single steps.  Cache entries leave by age or by the    *)
(* LRU bound: Forget.  What the provider lists does not change.            *)
(***************************************************************************)
EXTENDS BarCache, FiniteSets

CONSTANTS
    Callers,    \* requests for symbols
    Loaders,    \* requests for the coverage of a ticker set
    Symbols,    \* the symbols people ask about
    Listed,     \* the symbols the provider lists: its US page for the prefix
    Prefix,     \* the prefix that is searched, matching every symbol
    Permits,    \* _symbol_requests
    NoAnswer

Queries == Symbols \union {Prefix}
Verdicts == {"valid", "unknown", "page", "error"}

ASSUME SymbolsAssumption ==
    /\ Listed \subseteq Symbols /\ Tickers \subseteq Symbols
    /\ Prefix \notin Symbols
    /\ Permits \in Nat \ {0} /\ IsFiniteSet(Callers) /\ IsFiniteSet(Loaders)
    /\ Callers \intersect Loaders = {}
    /\ NoAnswer \notin Verdicts \union {"open"}

VARIABLES
    cache,    \* _symbol_cache and _search_cache: verdicts that are kept
    pending,  \* _symbol_pending and _search_pending: the leader's query is open
    caller,   \* the requests
    loader,   \* the coverage requests: tickers left, the one at hand, those written
    index,    \* _known_tickers: its value, and whether it is there
    behind    \* history: tickers the stored index lacks and nobody will drop it for

symVars == <<cache, pending, caller, loader, index, behind>>
vars == <<barVars, symVars>>

NoCaller == [pc |-> "idle", query |-> Prefix, known |-> {},
             lacks |-> {}, answer |-> NoAnswer]

NoLoader == [pc |-> "idle", todo |-> {}, at |-> NoTicker, wrote |-> {}]

Init ==
    /\ BarInit
    /\ cache = [q \in Queries |-> NoAnswer]
    /\ pending = [q \in Queries |-> NoAnswer]
    /\ caller = [c \in Callers |-> NoCaller]
    /\ loader = [l \in Loaders |-> NoLoader]
    /\ index = [there |-> FALSE, known |-> {}]
    /\ behind = {}

At(c, step) == caller[c].pc = step
Goto(c, step) == caller' = [caller EXCEPT ![c].pc = step]
Query(c) == caller[c].query

----------------------------------------------------------------------------
(* The index of known tickers.                                             *)

(* loaded_tickers: the tickers with at least one bar.                      *)
Loaded == {t \in Tickers : table[t] # {}}

(* A known ticker is valid without the provider; a page of known matches   *)
(* is never full here.                                                     *)
Routed(r, known) ==
    IF r.query \in known THEN [r EXCEPT !.pc = "done", !.answer = "valid", !.known = {}, !.lacks = {}]
    ELSE [r EXCEPT !.pc = "enter", !.lacks = {},
                   !.known = IF r.query = Prefix THEN known ELSE {}]

(* known_tickers: the index while it is young, or the tables.              *)
Ask(c, q) ==
    /\ At(c, "idle")
    /\ LET r == [NoCaller EXCEPT !.pc = "load_bars", !.query = q]
       IN  caller' = [caller EXCEPT ![c] = IF index.there THEN Routed(r, index.known) ELSE r]
    /\ UNCHANGED <<barVars, cache, pending, loader, index, behind>>

(* load_known_tickers: the bars (a table that cannot be read is skipped),  *)
(* then the tickers of saved reports, which were traded from the database. *)
IndexBars(c) ==
    /\ At(c, "load_bars")
    /\ \E bars \in {Loaded, {}} :
          caller' = [caller EXCEPT ![c] = [@ EXCEPT !.pc = "load_runs", !.known = bars,
                                                    !.lacks = Loaded \ bars]]
    /\ UNCHANGED <<barVars, cache, pending, loader, index, behind>>

(* The load is stored whenever it ends; a failed one as an empty index.    *)
(* A report that is saved later does not drop the index.                   *)
IndexRuns(c) ==
    /\ At(c, "load_runs")
    /\ \/ \E runs \in SUBSET Loaded :
            LET known == caller[c].known \union runs
            IN  /\ caller' = [caller EXCEPT ![c] = Routed(@, known)]
                /\ index' = [there |-> TRUE, known |-> known]
                /\ behind' = caller[c].lacks \ runs
       \/ /\ caller' = [caller EXCEPT ![c] = Routed(@, {})]
          /\ index' = [there |-> TRUE, known |-> {}]
          /\ behind' = Loaded
    /\ UNCHANGED <<barVars, cache, pending, loader>>

----------------------------------------------------------------------------
(* _fmp_symbol_exists and _fmp_search_symbols                              *)

(* Under the lock: a kept verdict, somebody's open request, or a new one.  *)
Enter(c) ==
    /\ At(c, "enter")
    /\ \/ /\ cache[Query(c)] # NoAnswer
          /\ caller' = [caller EXCEPT ![c] = [@ EXCEPT !.pc = "done", !.answer = cache[Query(c)]]]
          /\ UNCHANGED pending
       \/ /\ cache[Query(c)] = NoAnswer /\ pending[Query(c)] = NoAnswer
          /\ pending' = [pending EXCEPT ![Query(c)] = "open"]
          /\ Goto(c, "permit")
       \/ /\ cache[Query(c)] = NoAnswer /\ pending[Query(c)] = "open"
          /\ Goto(c, "wait") /\ UNCHANGED pending
       \/ /\ cache[Query(c)] = NoAnswer /\ pending[Query(c)] \in Verdicts
          /\ caller' = [caller EXCEPT ![c] = [@ EXCEPT !.pc = "done", !.answer = pending[Query(c)]]]
          /\ UNCHANGED pending
    /\ UNCHANGED <<barVars, cache, loader, index, behind>>

Holding == {c \in Callers : caller[c].pc \in {"request", "retry", "yahoo"}}
             \union {l \in Loaders : loader[l].pc = "exchange"}

Acquire(c) ==
    /\ At(c, "permit") /\ Cardinality(Holding) < Permits
    /\ Goto(c, "request")
    /\ UNCHANGED <<barVars, cache, pending, loader, index, behind>>

(* _request_list repeats a transient failure once, with the permit held.   *)
Retry(c) ==
    /\ At(c, "request")
    /\ Goto(c, "retry")
    /\ UNCHANGED <<barVars, cache, pending, loader, index, behind>>

(* symbol_exists and the page of a search.                                 *)
Verdict(q) == IF q = Prefix THEN "page" ELSE IF q \in Listed THEN "valid" ELSE "unknown"

(* What is kept: the verdict, and for a page that its symbols exist,       *)
(* except where somebody is looking one up (_remember_symbols).            *)
Remember(q) ==
    [s \in Queries |->
        IF s = q THEN Verdict(q)
        ELSE IF q = Prefix /\ s \in Listed /\ pending[s] = NoAnswer THEN "valid"
        ELSE cache[s]]

(* The provider answered; the permit is released, the verdict kept.        *)
Keep(c) ==
    /\ caller[c].pc \in {"request", "retry"}
    /\ cache' = Remember(Query(c))
    /\ Goto(c, "publish")
    /\ UNCHANGED <<barVars, pending, loader, index, behind>>

(* The future is set, for those who wait on it and those who still come.   *)
Settle(c, verdict, next) ==
    /\ pending' = [pending EXCEPT ![Query(c)] = verdict]
    /\ caller' = [d \in Callers |->
          IF d = c THEN [caller[c] EXCEPT !.pc = next, !.answer = verdict]
          ELSE IF At(d, "wait") /\ Query(d) = Query(c)
          THEN [caller[d] EXCEPT !.pc = IF verdict = "error" /\ Query(d) = Prefix
                                        THEN "fallback" ELSE "done",
                                 !.answer = verdict]
          ELSE caller[d]]

Publish(c) ==
    /\ At(c, "publish")
    /\ Settle(c, Verdict(Query(c)), "pop")
    /\ UNCHANGED <<barVars, cache, loader, index, behind>>

\* Mutant: a failure is kept as the absence of the symbol.
RequestFails_Cached(c) ==
    /\ caller[c].pc \in {"request", "retry"} /\ Query(c) # Prefix
    /\ cache' = [cache EXCEPT ![Query(c)] = "unknown"]
    /\ Settle(c, "unknown", "pop")
    /\ UNCHANGED <<barVars, loader, index, behind>>

\* Mutant: a failure leaves without setting the future.
RequestFails_Silent(c) ==
    /\ caller[c].pc \in {"request", "retry"}
    /\ caller' = [caller EXCEPT ![c].pc = "pop", ![c].answer = "error"]
    /\ UNCHANGED <<barVars, cache, pending, loader, index, behind>>

(* FMPUnavailable, after the retry or without one: nothing is kept.        *)
RequestFails(c) ==
    /\ caller[c].pc \in {"request", "retry"}
    /\ Settle(c, "error", "pop")
    /\ UNCHANGED <<barVars, cache, loader, index, behind>>

(* finally: the next caller asks again.  A failed search falls back.       *)
Pop(c) ==
    /\ At(c, "pop")
    /\ pending' = [pending EXCEPT ![Query(c)] = NoAnswer]
    /\ Goto(c, IF caller[c].answer = "error" /\ Query(c) = Prefix THEN "fallback" ELSE "done")
    /\ UNCHANGED <<barVars, cache, loader, index, behind>>

(* Yahoo's search needs a permit too; its page warms nothing.  If it fails *)
(* as well, the known tickers are shown, or the error when there are none. *)
Fallback(c) ==
    /\ At(c, "fallback") /\ Cardinality(Holding) < Permits
    /\ Goto(c, "yahoo")
    /\ UNCHANGED <<barVars, cache, pending, loader, index, behind>>

Yahoo(c) ==
    /\ At(c, "yahoo")
    /\ \E answer \in {"page", IF caller[c].known = {} THEN "error" ELSE "page"} :
          caller' = [caller EXCEPT ![c] = [@ EXCEPT !.pc = "done", !.answer = answer]]
    /\ UNCHANGED <<barVars, cache, pending, loader, index, behind>>

(* The request is answered.                                                *)
Answered(c) ==
    /\ At(c, "done")
    /\ caller' = [caller EXCEPT ![c] = NoCaller]
    /\ UNCHANGED <<barVars, cache, pending, loader, index, behind>>

Forget(q) ==
    /\ cache[q] # NoAnswer
    /\ cache' = [cache EXCEPT ![q] = NoAnswer]
    /\ UNCHANGED <<barVars, pending, caller, loader, index, behind>>

IndexExpires ==
    /\ index.there
    /\ index' = [there |-> FALSE, known |-> {}]
    /\ UNCHANGED <<barVars, cache, pending, caller, loader, behind>>

----------------------------------------------------------------------------
(* Writers of the tables.                                                  *)

(* coverage_for finds tickers without bars; backfill_missing takes them    *)
(* one at a time, over the window of the others (here: all days).          *)
Coverage(l, absent) ==
    /\ loader[l].pc = "idle" /\ absent # {} /\ \A t \in absent : table[t] = {}
    /\ loader' = [loader EXCEPT ![l].pc = "fetch", ![l].todo = absent]
    /\ UNCHANGED <<barVars, cache, pending, caller, index, behind>>

(* Its history is fetched; where it is listed takes one of the permits.    *)
Place(l, t) ==
    /\ loader[l].pc = "fetch" /\ t \in loader[l].todo /\ Cardinality(Holding) < Permits
    /\ loader' = [loader EXCEPT ![l].pc = "exchange", ![l].todo = @ \ {t}, ![l].at = t]
    /\ UNCHANGED <<barVars, cache, pending, caller, index, behind>>

Placed(l) ==
    /\ loader[l].pc = "exchange"
    /\ loader' = [loader EXCEPT ![l].pc = "commit"]
    /\ UNCHANGED <<barVars, cache, pending, caller, index, behind>>

(* FMPUnavailable, for the history or the listing: 0 bars, the next one.   *)
Skipped(l) ==
    /\ \/ /\ loader[l].pc = "fetch"
          /\ \E t \in loader[l].todo : loader' = [loader EXCEPT ![l].todo = @ \ {t}]
       \/ /\ loader[l].pc = "exchange"
          /\ loader' = [loader EXCEPT ![l].pc = "fetch", ![l].at = NoTicker]
    /\ UNCHANGED <<barVars, cache, pending, caller, index, behind>>

(* What the provider has of a ticker.                                      *)
History(t) == IF t \in Listed THEN {Days, Days \ {LastDay}} ELSE {{}}

(* insert_daily_bars commits the rows that the table had not, and counts   *)
(* them.  A load of the index that has read the bars before will store     *)
(* what it read.                                                           *)
Insert(l, t, rows, wrote) ==
    /\ wrote = IF rows \subseteq table[t] THEN {} ELSE {t}
    /\ table' = [table EXCEPT ![t] = @ \union rows]
    /\ loader' = [loader EXCEPT ![l].pc = "fetch", ![l].at = NoTicker,
                                ![l].wrote = @ \union wrote]
    /\ caller' = [c \in Callers |->
                     IF At(c, "load_runs") THEN [caller[c] EXCEPT !.lacks = @ \union wrote]
                     ELSE caller[c]]

(* Of two requests that insert the same ticker, the second finds its rows  *)
(* there or adds the last session, when no load is under way (AppendBar).  *)
Committed(l) ==
    /\ loader[l].pc = "commit"
    /\ \E rows \in History(loader[l].at), wrote \in SUBSET Tickers :
          /\ Insert(l, loader[l].at, rows, wrote)
          /\ wrote # {} /\ table[loader[l].at] # {} => \A w \in Workers : ~Busy(w)
    /\ UNCHANGED <<file, job, stepped, cache, pending, index, behind>>

(* Any other error, or the request is cancelled: what was committed stays, *)
(* and the index is not dropped for it.                                    *)
BackfillRaises(l) ==
    /\ loader[l].pc # "idle"
    /\ loader' = [loader EXCEPT ![l] = NoLoader]
    /\ behind' = IF index.there THEN behind \union (loader[l].wrote \ index.known) ELSE behind
    /\ UNCHANGED <<barVars, cache, pending, caller, index>>

\* Mutant: the index is not dropped.
BackfillEnds_KeepsIndex(l) ==
    /\ loader[l].pc = "fetch" /\ loader[l].todo = {}
    /\ loader' = [loader EXCEPT ![l] = NoLoader]
    /\ UNCHANGED <<barVars, cache, pending, caller, index, behind>>

(* After the last ticker the index is dropped, if any bars were written.   *)
BackfillEnds(l) ==
    /\ loader[l].pc = "fetch" /\ loader[l].todo = {}
    /\ loader' = [loader EXCEPT ![l] = NoLoader]
    /\ index' = IF loader[l].wrote = {} THEN index ELSE [there |-> FALSE, known |-> {}]
    /\ UNCHANGED <<barVars, cache, pending, caller, behind>>

CallerStep(c) ==
    \/ \E q \in Queries : Ask(c, q)
    \/ IndexBars(c) \/ IndexRuns(c) \/ Enter(c) \/ Acquire(c)
    \/ Retry(c) \/ Keep(c) \/ Publish(c) \/ RequestFails(c) \/ Pop(c)
    \/ Fallback(c) \/ Yahoo(c) \/ Answered(c)

LoaderStep(l) ==
    \/ \E absent \in SUBSET Tickers : Coverage(l, absent)
    \/ \E t \in Tickers : Place(l, t)
    \/ Placed(l) \/ Skipped(l) \/ Committed(l) \/ BackfillRaises(l) \/ BackfillEnds(l)

SymbolStep ==
    \/ \E c \in Callers : CallerStep(c)
    \/ \E l \in Loaders : LoaderStep(l)
    \/ \E q \in Queries : Forget(q)
    \/ IndexExpires

Next == (BarStep /\ UNCHANGED symVars) \/ SymbolStep

Spec == Init /\ [][Next]_vars

----------------------------------------------------------------------------
(* Properties.                                                             *)

Leaders(q) ==
    {c \in Callers : caller[c].pc \in {"permit", "request", "retry", "publish"}
                     /\ Query(c) = q}

(* A query is with the provider once however many callers ask, and nobody  *)
(* waits on a future that no leader will set: not after a failure, a retry *)
(* or an answer that was kept and aged out again.  The provider never has  *)
(* more than _symbol_requests calls.                                       *)
Coalesced ==
    /\ \A q \in Queries :
          /\ \A c, d \in Leaders(q) : c = d
          /\ pending[q] = "open" <=> Leaders(q) # {}
    /\ \A c \in Callers : At(c, "wait") => pending[Query(c)] = "open"
    /\ Cardinality(Holding) <= Permits

(* A symbol is called unknown only because the provider, asked for it, did *)
(* not list it, and valid only because it did or because the database has  *)
(* it: no failure, shared answer or search page turns into a verdict.      *)
AnswersAreTheProviders ==
    /\ \A s \in Symbols : cache[s] # NoAnswer => cache[s] = Verdict(s)
    /\ \A c \in Callers : At(c, "done") /\ Query(c) \in Symbols =>
          \/ caller[c].answer \in {Verdict(Query(c)), "error"}
          \/ caller[c].answer = "valid" /\ Query(c) \in Loaded

(* What the coverage requests under way have committed.                    *)
Written == UNION {loader[l].wrote : l \in Loaders}

(* The index in memory lacks a ticker of the database only if the load     *)
(* that produced it could not read it or read before it was committed, if  *)
(* the backfill that committed it is not over, or if that backfill raised  *)
(* at a later ticker.  Once a coverage request is answered, the next       *)
(* request for a symbol knows every ticker it wrote, however the others'   *)
(* loads, expiries and backfills fell between its commits.                 *)
IndexKnowsTheTables ==
    index.there => Loaded \ index.known \subseteq behind \union Written
=============================================================================

--------------------------- MODULE MarketDataProofs ---------------------------
(***************************************************************************)
(* Proofs about MarketData: the symbol requests, for every set of requests *)
(* and symbols and every number of permits, and the bars a run is served,  *)
(* for every set of workers and tickers, every history and slab length.    *)
(***************************************************************************)
EXTENDS MarketData, FiniteSetTheorems, WellFoundedInduction, TLAPS

----------------------------------------------------------------------------
(* The inductive invariant.                                                *)

Steps == {"idle", "load_bars", "load_runs", "enter", "permit", "request", "retry", "publish",
          "pop", "wait", "fallback", "yahoo", "done"}

Requests == [pc : Steps, query : Queries, known : SUBSET Tickers, lacks : SUBSET Tickers,
             answer : Verdicts \union {NoAnswer}]

LoaderRecords ==
    [pc : {"idle", "fetch", "exchange", "commit"}, todo : SUBSET Tickers,
     at : Tickers \union {NoTicker}, wrote : SUBSET Tickers]

SymTypes ==
    /\ table \in [Tickers -> SUBSET Days]
    /\ cache \in [Queries -> Verdicts \union {NoAnswer}]
    /\ pending \in [Queries -> Verdicts \union {"open", NoAnswer}]
    /\ caller \in [Callers -> Requests]
    /\ loader \in [Loaders -> LoaderRecords]
    /\ \A l \in Loaders : loader[l].pc \in {"exchange", "commit"} => loader[l].at \in Tickers
    /\ index \in [there : BOOLEAN, known : SUBSET Tickers]
    /\ behind \subseteq Tickers

(* The caller that entered a query's future into the pending table and has *)
(* not taken it out again.                                                 *)
Leading == {"permit", "request", "retry", "publish"}
Owns(c, q) == caller[c].pc \in Leading \union {"pop"} /\ Query(c) = q

(* Where a caller is tells what the future of its query holds.             *)
Ownership ==
    /\ \A q \in Queries : pending[q] # NoAnswer => \E c \in Callers : Owns(c, q)
    /\ \A q \in Queries : \A c, d \in Callers : Owns(c, q) /\ Owns(d, q) => c = d
    /\ \A c \in Callers :
          /\ caller[c].pc \in Leading \union {"wait"} => pending[Query(c)] = "open"
          /\ caller[c].pc = "pop" => /\ pending[Query(c)] = caller[c].answer
                                     /\ caller[c].answer \in Verdicts

PermitsKept == Cardinality(Holding) <= Permits

(* What the cache and the futures hold for a symbol, and what is asked of a *)
(* request's record.                                                       *)
SoundTables ==
    /\ \A s \in Symbols : cache[s] \in {NoAnswer, Verdict(s)}
    /\ \A s \in Symbols : pending[s] \in {NoAnswer, "open", Verdict(s), "error"}

Sound(r, loaded) ==
    /\ r.pc \in {"fallback", "yahoo"} => r.query = Prefix
    /\ r.pc = "pop" /\ r.query \in Symbols => r.answer \in {Verdict(r.query), "error"}
    /\ r.pc = "done" /\ r.query \in Symbols =>
          \/ r.answer \in {Verdict(r.query), "error"}
          \/ r.answer = "valid" /\ r.query \in loaded

SoundCallers == \A c \in Callers : Sound(caller[c], Loaded)

(* The index, and the part of it a load under way has read.                *)
Indexed ==
    /\ index.known \subseteq Loaded
    /\ index.there => Loaded \ index.known \subseteq behind \union Written
    /\ \A c \in Callers : At(c, "load_runs") =>
          caller[c].known \subseteq Loaded /\ Loaded \ caller[c].known \subseteq caller[c].lacks

SymInvariant == SymTypes /\ Ownership /\ PermitsKept /\ SoundTables /\ SoundCallers /\ Indexed

-----------------------------------------------------------------------------
(* Lemmas about the operators.                                              *)

LEMMA VerdictType == \A q \in Queries : Verdict(q) \in Verdicts
  BY DEF Verdict, Verdicts, Queries

\* Nothing that the writers of the bars do takes a ticker out of the tables.
LEMMA BarsStayLoaded ==
  ASSUME table \in [Tickers -> SUBSET Days], BarStep
  PROVE  table' \in [Tickers -> SUBSET Days] /\ Loaded' = Loaded
<1>1. ASSUME NEW t \in Tickers, NEW d \in Days, AppendBar(t, d)
      PROVE  table' \in [Tickers -> SUBSET Days] /\ Loaded' = Loaded
  BY <1>1 DEF AppendBar, Loaded
<1>2. CASE UNCHANGED table
  BY <1>2 DEF Loaded
<1> QED
  BY <1>1, <1>2 DEF BarStep, LoadStart, FetchSlab, JobFails, SlabDone, Serve, SaveStart, SaveEnd

LEMMA TickersAreSymbols == Tickers \subseteq Symbols /\ Prefix \notin Tickers
  BY SymbolsAssumption

LEMMA RoutedType ==
  ASSUME NEW r \in Requests, NEW known \in SUBSET Tickers
  PROVE  Routed(r, known) \in Requests
  BY DEF Routed, Requests, Steps, Verdicts

\* A backfill's commit: its ticker, the rows, and what of them the table had not.
LEMMA CommittedView ==
  ASSUME SymTypes, NEW l \in Loaders, Committed(l)
  PROVE  \E t \in Tickers, rows \in SUBSET Days, wrote \in SUBSET Tickers :
            /\ t = loader[l].at /\ Insert(l, t, rows, wrote)
            /\ rows = {} \/ Days \ {LastDay} \subseteq rows
            /\ wrote # {} /\ table[t] # {} => \A w \in Workers : ~Busy(w)
<1>1. loader[l].at \in Tickers
  BY DEF SymTypes, Committed
<1>2. \A rows \in History(loader[l].at) :
         rows \subseteq Days /\ (rows = {} \/ Days \ {LastDay} \subseteq rows)
  BY DEF History
<1> QED BY <1>1, <1>2 DEF Committed

\* The record of the request whose rows were inserted, and the others.
LEMMA InsertedLoader ==
  ASSUME SymTypes, NEW l \in Loaders, NEW t \in Tickers, NEW rows \in SUBSET Days,
         NEW wrote \in SUBSET Tickers, Insert(l, t, rows, wrote)
  PROVE  /\ loader'[l].pc = "fetch" /\ loader'[l].todo = loader[l].todo /\ loader'[l].at = NoTicker
         /\ loader'[l].wrote = loader[l].wrote \union wrote
         /\ \A m \in Loaders : m # l => loader'[m] = loader[m]
         /\ loader' \in [Loaders -> LoaderRecords]
<1>2. [pc |-> "fetch", todo |-> loader[l].todo, at |-> NoTicker,
       wrote |-> loader[l].wrote \union wrote] \in LoaderRecords
  BY DEF SymTypes, LoaderRecords
<1>3. loader' = [loader EXCEPT ![l] = [pc |-> "fetch", todo |-> loader[l].todo, at |-> NoTicker,
                                       wrote |-> loader[l].wrote \union wrote]]
  <2> DEFINE next == [loader EXCEPT ![l].pc = "fetch", ![l].at = NoTicker,
                                    ![l].wrote = @ \union wrote]
  <2>1. next[l] = [pc |-> "fetch", todo |-> loader[l].todo, at |-> NoTicker,
                   wrote |-> loader[l].wrote \union wrote]
    BY DEF SymTypes, LoaderRecords
  <2>2. next \in [Loaders -> LoaderRecords] /\ \A m \in Loaders : m # l => next[m] = loader[m]
    BY <1>2, <2>1 DEF SymTypes
  <2>3. loader' = next
    BY DEF Insert
  <2> HIDE DEF next
  <2> QED BY <1>2, <2>1, <2>2, <2>3 DEF SymTypes
<1> QED BY <1>2, <1>3 DEF SymTypes

\* What a coverage request leaves alone, and what it may add.
LEMMA LoaderFrame ==
  ASSUME SymTypes, NEW l \in Loaders, LoaderStep(l)
  PROVE  /\ UNCHANGED <<file, job, stepped, cache, pending>>
         /\ table' \in [Tickers -> SUBSET Days] /\ \A t \in Tickers : table[t] \subseteq table'[t]
         /\ caller' \in [Callers -> Requests]
         /\ \A c \in Callers : /\ caller'[c].pc = caller[c].pc /\ caller'[c].query = caller[c].query
                               /\ caller'[c].answer = caller[c].answer
                               /\ caller'[c].known = caller[c].known
<1> USE DEF SymTypes
<1>1. CASE Committed(l)
  <2>1. PICK t \in Tickers, rows \in SUBSET Days, wrote \in SUBSET Tickers :
           Insert(l, t, rows, wrote)
    BY <1>1, CommittedView
  <2>2. table' \in [Tickers -> SUBSET Days] /\ \A s \in Tickers : table[s] \subseteq table'[s]
    BY <2>1 DEF Insert
  <2>3. ASSUME NEW c \in Callers
        PROVE  /\ [caller[c] EXCEPT !.lacks = @ \union wrote] \in Requests
               /\ LET r == [caller[c] EXCEPT !.lacks = @ \union wrote]
                  IN  /\ r.pc = caller[c].pc /\ r.query = caller[c].query
                      /\ r.answer = caller[c].answer /\ r.known = caller[c].known
    BY DEF Requests
  <2>4. UNCHANGED <<file, job, stepped, cache, pending>>
    BY <1>1 DEF Committed
  <2> QED BY <2>1, <2>2, <2>3, <2>4 DEF Insert
<1>2. CASE ~Committed(l)
  <2>1. UNCHANGED <<barVars, cache, pending, caller>>
    BY <1>2 DEF LoaderStep, Coverage, Place, Placed, Skipped, BackfillRaises, BackfillEnds
  <2> QED BY <2>1 DEF barVars
<1> QED BY <1>1, <1>2
-----------------------------------------------------------------------------
(* Types.                                                                   *)

LEMMA LoaderTypes ==
  ASSUME SymTypes, NEW l \in Loaders, LoaderStep(l)
  PROVE  /\ loader' \in [Loaders -> LoaderRecords]
         /\ \A m \in Loaders : loader'[m].pc \in {"exchange", "commit"} => loader'[m].at \in Tickers
<1> USE DEF SymTypes
<1>1. ASSUME NEW r \in LoaderRecords, r.pc \in {"exchange", "commit"} => r.at \in Tickers,
             loader' = [loader EXCEPT ![l] = r]
      PROVE  /\ loader' \in [Loaders -> LoaderRecords]
             /\ \A m \in Loaders : loader'[m].pc \in {"exchange", "commit"} => loader'[m].at \in Tickers
  BY <1>1
<1>2. ASSUME NEW absent \in SUBSET Tickers, Coverage(l, absent)
      PROVE  /\ loader' \in [Loaders -> LoaderRecords]
             /\ \A m \in Loaders : loader'[m].pc \in {"exchange", "commit"} => loader'[m].at \in Tickers
  <2> DEFINE r == [loader[l] EXCEPT !.pc = "fetch", !.todo = absent]
  <2>1. r \in LoaderRecords /\ r.pc = "fetch" /\ loader' = [loader EXCEPT ![l] = r]
    BY <1>2 DEF Coverage, LoaderRecords
  <2> QED BY <1>1, <2>1
<1>3. ASSUME NEW t \in Tickers, Place(l, t)
      PROVE  /\ loader' \in [Loaders -> LoaderRecords]
             /\ \A m \in Loaders : loader'[m].pc \in {"exchange", "commit"} => loader'[m].at \in Tickers
  <2> DEFINE r == [loader[l] EXCEPT !.pc = "exchange", !.todo = loader[l].todo \ {t}, !.at = t]
  <2>1. r \in LoaderRecords /\ r.at = t
    BY DEF LoaderRecords
  <2>2. loader' = [loader EXCEPT ![l] = r]
    BY <1>3 DEF Place
  <2> QED BY <1>1, <2>1, <2>2
<1>4. CASE Placed(l)
  <2> DEFINE r == [loader[l] EXCEPT !.pc = "commit"]
  <2>1. r \in LoaderRecords /\ r.at \in Tickers /\ loader' = [loader EXCEPT ![l] = r]
    BY <1>4 DEF Placed, LoaderRecords
  <2> QED BY <1>1, <2>1
<1>5. CASE Skipped(l)
  <2>1. ASSUME NEW t \in Tickers, loader[l].pc = "fetch", loader' = [loader EXCEPT ![l].todo = @ \ {t}]
        PROVE  /\ loader' \in [Loaders -> LoaderRecords]
               /\ \A m \in Loaders : loader'[m].pc \in {"exchange", "commit"} => loader'[m].at \in Tickers
    <3> DEFINE r == [loader[l] EXCEPT !.todo = @ \ {t}]
    <3>1. r \in LoaderRecords /\ r.pc = "fetch" /\ loader' = [loader EXCEPT ![l] = r]
      BY <2>1 DEF LoaderRecords
    <3> QED BY <1>1, <3>1
  <2>2. CASE loader' = [loader EXCEPT ![l].pc = "fetch", ![l].at = NoTicker]
    <3> DEFINE r == [loader[l] EXCEPT !.pc = "fetch", !.at = NoTicker]
    <3>1. r \in LoaderRecords /\ r.pc = "fetch" /\ loader' = [loader EXCEPT ![l] = r]
      BY <2>2 DEF LoaderRecords
    <3> QED BY <1>1, <3>1
  <2>3. loader[l].todo \subseteq Tickers
    BY DEF LoaderRecords
  <2> QED BY <1>5, <2>1, <2>2, <2>3 DEF Skipped
<1>6. CASE Committed(l)
  <2>1. PICK t \in Tickers, rows \in SUBSET Days, wrote \in SUBSET Tickers :
           Insert(l, t, rows, wrote)
    BY <1>6, CommittedView
  <2> QED BY <2>1, InsertedLoader
<1>7. CASE BackfillRaises(l) \/ BackfillEnds(l)
  <2>1. NoLoader \in LoaderRecords /\ NoLoader.pc = "idle" /\ loader' = [loader EXCEPT ![l] = NoLoader]
    BY <1>7 DEF BackfillRaises, BackfillEnds, NoLoader, LoaderRecords
  <2> QED BY <1>1, <2>1
<1> QED BY <1>2, <1>3, <1>4, <1>5, <1>6, <1>7 DEF LoaderStep

LEMMA TypesStep == SymTypes /\ [Next]_vars => SymTypes'
<1> SUFFICES ASSUME SymTypes, [Next]_vars PROVE SymTypes'
  OBVIOUS
<1> USE DEF SymTypes, barVars, symVars, At, Goto, Query
<1>1. CASE UNCHANGED vars
  BY <1>1 DEF vars
<1>2. CASE BarStep /\ UNCHANGED symVars
  BY <1>2, BarsStayLoaded
<1>3. ASSUME NEW c \in Callers, CallerStep(c) PROVE SymTypes'
  <2>1. ASSUME NEW q \in Queries, Ask(c, q) PROVE SymTypes'
    BY <2>1, RoutedType DEF Ask, NoCaller, Steps, Requests
  <2>2. CASE IndexBars(c)
    <3>1. PICK bars \in SUBSET Tickers :
             caller' = [caller EXCEPT ![c] = [@ EXCEPT !.pc = "load_runs", !.known = bars,
                                                       !.lacks = Loaded \ bars]]
      BY <2>2 DEF IndexBars, Loaded
    <3>2. [caller[c] EXCEPT !.pc = "load_runs", !.known = bars, !.lacks = Loaded \ bars]
            \in Requests
      BY ZenonT(60) DEF Loaded, Requests, Steps
    <3> QED BY <2>2, <3>1, <3>2 DEF IndexBars
  <2>3. CASE IndexRuns(c)
    <3>1. PICK known \in SUBSET Tickers :
             /\ caller' = [caller EXCEPT ![c] = Routed(@, known)]
             /\ index' = [there |-> TRUE, known |-> known]
      <4>1. caller[c].known \subseteq Tickers
        BY DEF Requests
      <4> QED BY <2>3, <4>1 DEF IndexRuns, Loaded
    <3>2. Routed(caller[c], known) \in Requests
      BY RoutedType
    <3>3. behind' \subseteq Tickers
      BY <2>3 DEF IndexRuns, Loaded, Requests
    <3> QED BY <2>3, <3>1, <3>2, <3>3 DEF IndexRuns
  <2>4. CASE Enter(c)
    <3>1. caller' \in [Callers -> Requests]
      <4>1. CASE Goto(c, "permit") \/ Goto(c, "wait")
        <5>1. PICK step \in {"permit", "wait"} : caller' = [caller EXCEPT ![c].pc = step]
          BY <4>1
        <5>2. [caller[c] EXCEPT !.pc = step] \in Requests
          BY DEF Steps, Requests
        <5> QED BY <5>1, <5>2
      <4>2. ASSUME NEW answer \in Verdicts \union {NoAnswer},
                   caller' = [caller EXCEPT ![c] = [@ EXCEPT !.pc = "done", !.answer = answer]]
            PROVE  caller' \in [Callers -> Requests]
        <5>1. [caller[c] EXCEPT !.pc = "done", !.answer = answer] \in Requests
          BY DEF Steps, Requests
        <5> QED BY <4>2, <5>1
      <4>3. cache[Query(c)] \in Verdicts \union {NoAnswer}
        BY DEF Requests
      <4> QED BY <2>4, <4>1, <4>2, <4>3 DEF Enter
    <3>4. pending' \in [Queries -> Verdicts \union {"open", NoAnswer}]
      BY <2>4 DEF Enter
    <3> QED BY <2>4, <3>1, <3>4 DEF Enter
  <2>5. CASE Acquire(c) \/ Retry(c) \/ Fallback(c)
    BY <2>5 DEF Acquire, Retry, Fallback, Steps, Requests
  <2>6. CASE Keep(c)
    BY SMTT(30), <2>6, VerdictType DEF Keep, Remember, Steps, Requests, Verdicts
  <2>7. CASE Publish(c) \/ RequestFails(c)
    <3>1. PICK verdict \in Verdicts : Settle(c, verdict, "pop")
      BY <2>7, VerdictType DEF Publish, RequestFails, Requests, Verdicts
    <3>2. ASSUME NEW d \in Callers, NEW step \in {"pop", "done", "fallback"}
          PROVE  [caller[d] EXCEPT !.pc = step, !.answer = verdict] \in Requests
      BY ZenonT(60) DEF Requests, Steps
    <3>3. pending' \in [Queries -> Verdicts \union {"open", NoAnswer}]
      BY <3>1 DEF Settle
    <3>4. caller' \in [Callers -> Requests]
      BY <3>1, <3>2 DEF Settle
    <3> QED BY <2>7, <3>3, <3>4 DEF Publish, RequestFails
  <2>8. CASE Pop(c)
    <3>1. PICK step \in {"fallback", "done"} : caller' = [caller EXCEPT ![c].pc = step]
      BY <2>8 DEF Pop
    <3> QED BY SMTT(30), <2>8, <3>1 DEF Pop, Steps, Requests
  <2>9. CASE Yahoo(c)
    <3>1. PICK answer \in Verdicts :
             caller' = [caller EXCEPT ![c] = [@ EXCEPT !.pc = "done", !.answer = answer]]
      BY <2>9 DEF Yahoo, Verdicts
    <3>2. [caller[c] EXCEPT !.pc = "done", !.answer = answer] \in Requests
      BY DEF Requests, Steps
    <3> QED BY <2>9, <3>1, <3>2 DEF Yahoo
  <2>10. CASE Answered(c)
    BY <2>10 DEF Answered, NoCaller, Steps, Requests, Queries
  <2> QED BY <1>3, <2>1, <2>2, <2>3, <2>4, <2>5, <2>6, <2>7, <2>8, <2>9, <2>10 DEF CallerStep
<1>4. ASSUME NEW q \in Queries, Forget(q) PROVE SymTypes'
  BY <1>4 DEF Forget
<1>5. CASE IndexExpires
  BY <1>5 DEF IndexExpires
<1>6. ASSUME NEW l \in Loaders, LoaderStep(l) PROVE SymTypes'
  <2>1. index' \in [there : BOOLEAN, known : SUBSET Tickers] /\ behind' \subseteq Tickers
    <3>1. loader[l].wrote \subseteq Tickers
      BY DEF LoaderRecords
    <3>2. CASE BackfillRaises(l)
      BY <3>1, <3>2 DEF BackfillRaises
    <3>3. CASE BackfillEnds(l)
      BY <3>3 DEF BackfillEnds
    <3>4. CASE ~BackfillRaises(l) /\ ~BackfillEnds(l)
      <4>1. UNCHANGED <<index, behind>>
        BY <1>6, <3>4 DEF LoaderStep, Coverage, Place, Placed, Skipped, Committed
      <4> QED BY <4>1
    <3> QED BY <3>2, <3>3, <3>4
  <2> QED BY <1>6, <2>1, LoaderFrame, LoaderTypes
<1> QED BY <1>1, <1>2, <1>3, <1>4, <1>5, <1>6 DEF Next, SymbolStep
-----------------------------------------------------------------------------
(* Futures.                                                                 *)

LEMMA OwnershipStep == SymTypes /\ Ownership /\ [Next]_vars => Ownership'
<1> SUFFICES ASSUME SymTypes, Ownership, [Next]_vars PROVE Ownership'
  OBVIOUS
<1>0. \A c \in Callers : Query(c) \in Queries /\ caller[c].answer \in Verdicts \union {NoAnswer}
  BY DEF SymTypes, Requests, Query
<1>a. NoAnswer \notin Verdicts \union {"open"} /\ "open" \notin Verdicts
  BY SymbolsAssumption DEF Verdicts
<1> USE DEF Ownership, Owns, Leading, At, Goto, Query
<1>1. ASSUME UNCHANGED <<pending, caller>> PROVE Ownership'
  BY <1>1
<1>2. ASSUME NEW c \in Callers, NEW q \in Queries, Ask(c, q) PROVE Ownership'
  <2>1. /\ UNCHANGED pending
        /\ \A d \in Callers : d # c => caller'[d] = caller[d]
    BY <1>2 DEF Ask, SymTypes
  <2>2. caller'[c].pc \in {"load_bars", "enter", "done"}
    BY <1>2 DEF Ask, Routed, NoCaller, SymTypes
  <2>3. At(c, "idle")
    BY <1>2 DEF Ask
  <2> QED BY <2>1, <2>2, <2>3
<1>3. ASSUME NEW c \in Callers, IndexBars(c) PROVE Ownership'
  <2>1. /\ UNCHANGED pending /\ caller'[c].pc = "load_runs"
        /\ \A d \in Callers : d # c => caller'[d] = caller[d]
    BY <1>3 DEF IndexBars, SymTypes, Requests
  <2>2. At(c, "load_bars")
    BY <1>3 DEF IndexBars
  <2> QED BY <2>1, <2>2
<1>4. ASSUME NEW c \in Callers, IndexRuns(c) PROVE Ownership'
  <2>1. /\ UNCHANGED pending /\ caller'[c].pc \in {"enter", "done"}
        /\ \A d \in Callers : d # c => caller'[d] = caller[d]
    <3>1. PICK known : caller' = [caller EXCEPT ![c] = Routed(@, known)]
      BY <1>4 DEF IndexRuns
    <3>2. caller'[c] = Routed(caller[c], known) /\ \A d \in Callers : d # c => caller'[d] = caller[d]
      BY <3>1 DEF SymTypes
    <3>3. Routed(caller[c], known).pc \in {"enter", "done"}
      BY DEF Routed, SymTypes, Requests
    <3> QED BY <1>4, <3>2, <3>3 DEF IndexRuns
  <2>2. At(c, "load_runs")
    BY <1>4 DEF IndexRuns
  <2> QED BY <2>1, <2>2
<1>5. ASSUME NEW c \in Callers, Enter(c) PROVE Ownership'
  <2>1. CASE pending' = pending /\ pending[Query(c)] # "open"
    <3>1. caller'[c].pc = "done" /\ \A d \in Callers : d # c => caller'[d] = caller[d]
      <4>1. PICK answer : caller' = [caller EXCEPT ![c] = [@ EXCEPT !.pc = "done",
                                                                    !.answer = answer]]
        <5>1. pending' # [pending EXCEPT ![Query(c)] = "open"]
          BY <2>1 DEF SymTypes, Requests
        <5> QED BY ZenonT(60), <1>5, <2>1, <5>1 DEF Enter
      <4> QED BY <4>1 DEF SymTypes, Requests
    <3> QED BY <1>5, <2>1, <3>1 DEF Enter
  <2>2. CASE pending' = pending /\ pending[Query(c)] = "open"
    <3>1. /\ caller'[c].pc \in {"done", "wait"} /\ caller'[c].query = Query(c)
          /\ \A d \in Callers : d # c => caller'[d] = caller[d]
      <4>1. CASE Goto(c, "wait")
        BY <4>1 DEF SymTypes, Requests
      <4>2. ASSUME NEW answer,
                   caller' = [caller EXCEPT ![c] = [@ EXCEPT !.pc = "done", !.answer = answer]]
            PROVE  /\ caller'[c].pc \in {"done", "wait"} /\ caller'[c].query = Query(c)
                   /\ \A d \in Callers : d # c => caller'[d] = caller[d]
        BY <4>2 DEF SymTypes, Requests
      <4> QED BY <1>5, <2>2, <4>1, <4>2, <1>a DEF Enter
    <3> QED BY <1>5, <2>2, <3>1 DEF Enter
  <2>3. CASE pending' # pending
    <3>1. /\ caller'[c].pc = "permit" /\ caller'[c].query = Query(c)
          /\ \A d \in Callers : d # c => caller'[d] = caller[d]
          /\ pending[Query(c)] = NoAnswer
          /\ pending' = [pending EXCEPT ![Query(c)] = "open"]
      BY <1>5, <2>3 DEF Enter, SymTypes, Requests
    <3>2. \A d \in Callers : ~Owns(d, Query(c)) /\ ~(At(d, "wait") /\ Query(d) = Query(c))
      BY <3>1, <1>0, <1>a
    <3>3. \A q \in Queries : pending'[q] = IF q = Query(c) THEN "open" ELSE pending[q]
      BY <3>1 DEF SymTypes
    <3> QED BY <1>5, <3>1, <3>2, <3>3, <1>0 DEF Enter
  <2> QED BY <2>1, <2>2, <2>3
<1>6. ASSUME NEW c \in Callers, Acquire(c) \/ Retry(c) \/ Keep(c) PROVE Ownership'
  <2>1. /\ UNCHANGED pending
        /\ caller[c].pc \in Leading /\ caller'[c].pc \in Leading
        /\ caller'[c].query = Query(c)
        /\ \A d \in Callers : d # c => caller'[d] = caller[d]
    BY <1>6 DEF Acquire, Retry, Keep, SymTypes, Requests
  <2> QED BY <2>1
<1>7. ASSUME NEW c \in Callers, Publish(c) \/ RequestFails(c) PROVE Ownership'
  <2>1. PICK verdict \in Verdicts : Settle(c, verdict, "pop")
    BY <1>7, <1>0, VerdictType DEF Publish, RequestFails, Verdicts
  <2>2. caller[c].pc \in Leading
    BY <1>7 DEF Publish, RequestFails
  <2>3. /\ caller'[c].pc = "pop" /\ caller'[c].query = Query(c) /\ caller'[c].answer = verdict
        /\ \A d \in Callers : d # c /\ At(d, "wait") /\ Query(d) = Query(c) =>
              caller'[d].pc \in {"done", "fallback"}
        /\ \A d \in Callers : d # c /\ ~(At(d, "wait") /\ Query(d) = Query(c)) =>
              caller'[d] = caller[d]
    <3>1. caller'[c] = [caller[c] EXCEPT !.pc = "pop", !.answer = verdict]
      BY <2>1 DEF Settle
    <3>2. \A d \in Callers : d # c /\ At(d, "wait") /\ Query(d) = Query(c) =>
            \E step \in {"done", "fallback"} :
              caller'[d] = [caller[d] EXCEPT !.pc = step, !.answer = verdict]
      BY <2>1 DEF Settle
    <3>3. \A d \in Callers : d # c /\ ~(At(d, "wait") /\ Query(d) = Query(c)) =>
            caller'[d] = caller[d]
      BY <2>1 DEF Settle
    <3>4. ASSUME NEW d \in Callers, d # c, At(d, "wait"), Query(d) = Query(c)
          PROVE  caller'[d].pc \in {"done", "fallback"}
      <4>1. PICK step \in {"done", "fallback"} :
               caller'[d] = [caller[d] EXCEPT !.pc = step, !.answer = verdict]
        BY <3>2, <3>4
      <4> QED BY <4>1 DEF SymTypes, Requests
    <3>5. caller'[c].pc = "pop" /\ caller'[c].query = Query(c) /\ caller'[c].answer = verdict
      BY <3>1 DEF SymTypes, Requests
    <3> QED BY <3>3, <3>4, <3>5
  <2>4. \A q \in Queries : pending'[q] = IF q = Query(c) THEN verdict ELSE pending[q]
    BY ZenonT(60), <2>1 DEF Settle, SymTypes
  <2>5. \A d \in Callers : d # c /\ Query(d) = Query(c) => caller[d].pc \notin Leading \union {"pop"}
    BY <2>2, <1>0
  <2> QED BY <2>2, <2>3, <2>4, <2>5, <1>0, <1>a
<1>8. ASSUME NEW c \in Callers, Pop(c) PROVE Ownership'
  <2>1. /\ At(c, "pop") /\ caller'[c].pc \in {"fallback", "done"}
        /\ \A d \in Callers : d # c => caller'[d] = caller[d]
    BY <1>8 DEF Pop, SymTypes, Requests
  <2>2. \A q \in Queries : pending'[q] = IF q = Query(c) THEN NoAnswer ELSE pending[q]
    BY <1>8 DEF Pop, SymTypes
  <2>3. \A d \in Callers : d # c /\ Query(d) = Query(c) =>
          caller[d].pc \notin Leading \union {"pop", "wait"}
    BY <2>1, <1>0, <1>a
  <2> QED BY <2>1, <2>2, <2>3, <1>0, <1>a
<1>9. ASSUME NEW c \in Callers, Fallback(c) \/ Yahoo(c) \/ Answered(c) PROVE Ownership'
  <2>1. /\ UNCHANGED pending /\ caller[c].pc \in {"fallback", "yahoo", "done"}
        /\ caller'[c].pc \in {"yahoo", "done", "idle"}
        /\ \A d \in Callers : d # c => caller'[d] = caller[d]
    <3>1. CASE Fallback(c)
      BY <3>1 DEF Fallback, SymTypes, Requests
    <3>2. CASE Yahoo(c)
      <4>1. PICK answer : caller' = [caller EXCEPT ![c] = [@ EXCEPT !.pc = "done",
                                                                    !.answer = answer]]
        BY <3>2 DEF Yahoo
      <4>2. caller'[c] = [caller[c] EXCEPT !.pc = "done", !.answer = answer]
            /\ \A d \in Callers : d # c => caller'[d] = caller[d]
        BY <4>1 DEF SymTypes
      <4>3. caller'[c].pc = "done"
        BY <4>2 DEF SymTypes, Requests
      <4> QED BY <3>2, <4>2, <4>3 DEF Yahoo
    <3>3. CASE Answered(c)
      BY <3>3 DEF Answered, NoCaller, SymTypes
    <3> QED BY <1>9, <3>1, <3>2, <3>3
  <2> QED BY <2>1
<1>10. ASSUME NEW l \in Loaders, LoaderStep(l) PROVE Ownership'
  BY <1>10, LoaderFrame
<1>11. ASSUME (BarStep /\ UNCHANGED symVars) \/ UNCHANGED vars \/ IndexExpires
              \/ \E q \in Queries : Forget(q)
       PROVE  Ownership'
  BY <1>1, <1>11 DEF symVars, vars, IndexExpires, Forget
<1> QED BY <1>2, <1>3, <1>4, <1>5, <1>6, <1>7, <1>8, <1>9, <1>10, <1>11
      DEF Next, SymbolStep, CallerStep
-----------------------------------------------------------------------------
(* Permits.                                                                 *)

LEMMA HoldingIsFinite == IsFiniteSet(Holding)
<1>1. /\ IsFiniteSet({c \in Callers : caller[c].pc \in {"request", "retry", "yahoo"}})
      /\ IsFiniteSet({l \in Loaders : loader[l].pc = "exchange"})
  BY SymbolsAssumption, FS_Subset
<1> QED BY <1>1, FS_Union DEF Holding

LEMMA FewerPermits ==
  ASSUME PermitsKept, Holding' \subseteq Holding
  PROVE  PermitsKept'
<1>1. IsFiniteSet(Holding)
  BY HoldingIsFinite
<1>2. Cardinality(Holding) \in Nat /\ Cardinality(Holding') \in Nat
      /\ Cardinality(Holding') <= Cardinality(Holding)
  BY <1>1, FS_Subset, FS_CardinalityType
<1> QED BY <1>2, SymbolsAssumption DEF PermitsKept

LEMMA OnePermitMore ==
  ASSUME PermitsKept, NEW c, Cardinality(Holding) < Permits,
         Holding' \subseteq Holding \union {c}
  PROVE  PermitsKept'
<1>1. IsFiniteSet(Holding)
  BY HoldingIsFinite
<1>2. /\ IsFiniteSet(Holding \union {c})
      /\ Cardinality(Holding) \in Nat
      /\ Cardinality(Holding \union {c}) <= Cardinality(Holding) + 1
  <2>1. /\ IsFiniteSet(Holding \union {c})
        /\ Cardinality(Holding \union {c})
             = IF c \in Holding THEN Cardinality(Holding) ELSE Cardinality(Holding) + 1
    BY <1>1, FS_AddElement
  <2>2. Cardinality(Holding) \in Nat
    BY <1>1, FS_CardinalityType
  <2> QED BY <2>1, <2>2
<1>3. /\ Cardinality(Holding') \in Nat /\ Cardinality(Holding \union {c}) \in Nat
      /\ Cardinality(Holding') <= Cardinality(Holding \union {c})
  BY <1>2, FS_Subset, FS_CardinalityType
<1> QED BY <1>2, <1>3, SymbolsAssumption DEF PermitsKept

LEMMA PermitsStep == SymTypes /\ PermitsKept /\ [Next]_vars => PermitsKept'
<1> SUFFICES ASSUME SymTypes, PermitsKept, [Next]_vars PROVE PermitsKept'
  OBVIOUS
<1> USE DEF At, Goto, Query
<1>1. ASSUME NEW c \in Callers, Acquire(c) \/ Fallback(c) PROVE PermitsKept'
  <2>1. /\ Cardinality(Holding) < Permits /\ loader' = loader
        /\ \A d \in Callers : d # c => caller'[d] = caller[d]
    BY <1>1 DEF Acquire, Fallback, SymTypes
  <2> QED BY <2>1, OnePermitMore DEF Holding
<1>2. ASSUME \A c \in Callers : caller'[c].pc \in {"request", "retry", "yahoo"} =>
                caller[c].pc \in {"request", "retry", "yahoo"},
             loader' = loader
      PROVE  PermitsKept'
  BY <1>2, FewerPermits DEF Holding
<1>3. ASSUME NEW c \in Callers, NEW q \in Queries, Ask(c, q) PROVE PermitsKept'
  <2>1. loader' = loader /\ \A d \in Callers : d # c => caller'[d] = caller[d]
    BY <1>3 DEF Ask, SymTypes
  <2>2. caller'[c].pc \in {"load_bars", "enter", "done"}
    BY <1>3 DEF Ask, Routed, NoCaller, SymTypes
  <2> QED BY <1>2, <2>1, <2>2
<1>4. ASSUME NEW c \in Callers, NEW r,
             loader' = loader, caller' = [caller EXCEPT ![c] = r], r.pc \notin {"request", "retry", "yahoo"}
      PROVE  PermitsKept'
  BY <1>2, <1>4 DEF SymTypes
<1>5. ASSUME NEW c \in Callers, IndexBars(c) PROVE PermitsKept'
  <2>1. PICK bars :
           caller' = [caller EXCEPT ![c] = [caller[c] EXCEPT !.pc = "load_runs", !.known = bars,
                                                             !.lacks = Loaded \ bars]]
    BY <1>5 DEF IndexBars
  <2>2. [caller[c] EXCEPT !.pc = "load_runs", !.known = bars, !.lacks = Loaded \ bars].pc
          = "load_runs"
    BY DEF SymTypes, Requests
  <2>3. loader' = loader
    BY <1>5 DEF IndexBars
  <2> QED BY <1>4, <2>1, <2>2, <2>3
<1>6. ASSUME NEW c \in Callers, IndexRuns(c) PROVE PermitsKept'
  <2>1. PICK known : caller' = [caller EXCEPT ![c] = Routed(caller[c], known)]
    BY <1>6 DEF IndexRuns
  <2>2. Routed(caller[c], known).pc \in {"enter", "done"}
    BY DEF Routed, SymTypes, Requests
  <2>3. loader' = loader
    BY <1>6 DEF IndexRuns
  <2> QED BY <1>4, <2>1, <2>2, <2>3
<1>7. ASSUME NEW c \in Callers, NEW step, loader' = loader, caller' = [caller EXCEPT ![c].pc = step],
             step \in {"request", "retry", "yahoo"} => caller[c].pc \in {"request", "retry", "yahoo"}
      PROVE  PermitsKept'
  BY <1>2, <1>7 DEF SymTypes, Requests
<1>8. ASSUME NEW c \in Callers, NEW answer, loader' = loader,
             caller' = [caller EXCEPT ![c] = [@ EXCEPT !.pc = "done", !.answer = answer]]
      PROVE  PermitsKept'
  <2>1. [caller[c] EXCEPT !.pc = "done", !.answer = answer].pc = "done"
    BY DEF SymTypes, Requests
  <2> QED BY <1>4, <1>8, <2>1
<1>9. ASSUME NEW c \in Callers, Enter(c) PROVE PermitsKept'
  BY <1>7, <1>8, <1>9 DEF Enter
<1>10. ASSUME NEW c \in Callers, Retry(c) \/ Keep(c) \/ Pop(c) PROVE PermitsKept'
  BY <1>7, <1>10 DEF Retry, Keep, Pop
<1>11. ASSUME NEW c \in Callers, Publish(c) \/ RequestFails(c) PROVE PermitsKept'
  <2>1. PICK verdict : Settle(c, verdict, "pop")
    BY <1>11 DEF Publish, RequestFails
  <2>2. ASSUME NEW d \in Callers
        PROVE  \/ caller'[d] = caller[d]
               \/ \E step \in {"pop", "done", "fallback"} :
                     caller'[d] = [caller[d] EXCEPT !.pc = step, !.answer = verdict]
    BY <2>1 DEF Settle
  <2>3. ASSUME NEW d \in Callers, NEW step \in {"pop", "done", "fallback"}
        PROVE  [caller[d] EXCEPT !.pc = step, !.answer = verdict].pc = step
    BY DEF SymTypes, Requests
  <2>4. ASSUME NEW d \in Callers
        PROVE  caller'[d] = caller[d] \/ caller'[d].pc \in {"pop", "done", "fallback"}
    <3>1. ASSUME NEW step \in {"pop", "done", "fallback"},
                 caller'[d] = [caller[d] EXCEPT !.pc = step, !.answer = verdict]
          PROVE  caller'[d].pc \in {"pop", "done", "fallback"}
      BY <3>1, <2>3
    <3> QED BY <2>2, <3>1
  <2>5. loader' = loader
    BY <1>11 DEF Publish, RequestFails
  <2> QED BY <1>2, <2>4, <2>5
<1>12. ASSUME NEW c \in Callers, Yahoo(c) PROVE PermitsKept'
  BY <1>8, <1>12 DEF Yahoo
<1>13. ASSUME NEW c \in Callers, Answered(c) PROVE PermitsKept'
  BY <1>4, <1>13 DEF Answered, NoCaller
<1>14. ASSUME NEW l \in Loaders, LoaderStep(l) PROVE PermitsKept'
  <2>1. \A c \in Callers : caller'[c].pc = caller[c].pc
    BY <1>14, LoaderFrame
  <2>2. ASSUME NEW t \in Tickers, Place(l, t) PROVE PermitsKept'
    <3>1. /\ Cardinality(Holding) < Permits
          /\ \A m \in Loaders : m # l => loader'[m] = loader[m]
      BY <2>2 DEF Place, SymTypes
    <3> QED BY <2>1, <3>1, OnePermitMore DEF Holding
  <2>3. ASSUME \A m \in Loaders : loader'[m].pc = "exchange" => loader[m].pc = "exchange"
        PROVE  PermitsKept'
    BY <2>1, <2>3, FewerPermits DEF Holding
  <2>4. ASSUME NEW r, r.pc # "exchange", loader' = [loader EXCEPT ![l] = r] PROVE PermitsKept'
    BY <2>3, <2>4 DEF SymTypes
  <2>5. ASSUME NEW absent \in SUBSET Tickers, Coverage(l, absent) PROVE PermitsKept'
    <3>1. [loader[l] EXCEPT !.pc = "fetch", !.todo = absent].pc = "fetch"
      BY DEF SymTypes, LoaderRecords
    <3> QED BY <2>4, <2>5, <3>1 DEF Coverage
  <2>6. CASE Placed(l) \/ Skipped(l)
    BY <2>3, <2>6 DEF Placed, Skipped, SymTypes, LoaderRecords
  <2>7. CASE Committed(l)
    <3>1. PICK t \in Tickers, rows \in SUBSET Days, wrote \in SUBSET Tickers :
             Insert(l, t, rows, wrote)
      BY <2>7, CommittedView
    <3> QED BY <2>3, <3>1, InsertedLoader
  <2>8. CASE BackfillRaises(l) \/ BackfillEnds(l)
    <3>1. NoLoader.pc # "exchange" /\ loader' = [loader EXCEPT ![l] = NoLoader]
      BY <2>8 DEF BackfillRaises, BackfillEnds, NoLoader
    <3> QED BY <2>4, <3>1
  <2> QED BY <1>14, <2>2, <2>5, <2>6, <2>7, <2>8 DEF LoaderStep
<1>15. ASSUME UNCHANGED <<caller, loader>> PROVE PermitsKept'
  BY <1>2, <1>15
<1> QED BY <1>1, <1>3, <1>5, <1>6, <1>9, <1>10, <1>11, <1>12, <1>13, <1>14, <1>15
      DEF Next, SymbolStep, CallerStep, vars, symVars, IndexExpires, Forget
-----------------------------------------------------------------------------
(* Answers.                                                                 *)

LEMMA LoadedGrows == SymTypes /\ [Next]_vars => Loaded \subseteq Loaded'
<1> SUFFICES ASSUME SymTypes, [Next]_vars PROVE Loaded \subseteq Loaded'
  OBVIOUS
<1>1. CASE BarStep
  BY <1>1, BarsStayLoaded DEF SymTypes
<1>2. ASSUME NEW l \in Loaders, LoaderStep(l) PROVE Loaded \subseteq Loaded'
  BY <1>2, LoaderFrame DEF Loaded
<1>3. ASSUME UNCHANGED table PROVE Loaded \subseteq Loaded'
  BY <1>3 DEF Loaded
<1>4. ASSUME NEW c \in Callers, CallerStep(c) PROVE UNCHANGED table
  BY <1>4 DEF CallerStep, Ask, IndexBars, IndexRuns, Enter, Acquire, Retry, Keep, Publish,
    RequestFails, Pop, Fallback, Yahoo, Answered, barVars
<1> QED BY <1>1, <1>2, <1>3, <1>4
      DEF Next, SymbolStep, vars, barVars, symVars, IndexExpires, Forget

LEMMA SoundFrame ==
  ASSUME SoundCallers, Loaded \subseteq Loaded',
         \A c \in Callers : caller'[c] = caller[c] \/ Sound(caller'[c], Loaded')
  PROVE  SoundCallers'
<1> SUFFICES ASSUME NEW c \in Callers PROVE Sound(caller'[c], Loaded')
  BY DEF SoundCallers
<1>1. CASE caller'[c] = caller[c]
  BY <1>1 DEF SoundCallers, Sound
<1> QED BY <1>1

LEMMA RoutedSound ==
  ASSUME NEW r \in Requests, NEW known \in SUBSET Tickers, NEW loaded, known \subseteq loaded
  PROVE  Sound(Routed(r, known), loaded)
<1>1. CASE r.query \in known
  <2>1. /\ Routed(r, known).pc = "done" /\ Routed(r, known).query = r.query
        /\ Routed(r, known).answer = "valid"
    BY <1>1 DEF Routed, Requests
  <2> QED BY <1>1, <2>1 DEF Sound
<1>2. CASE r.query \notin known
  <2>1. Routed(r, known).pc = "enter"
    BY <1>2 DEF Routed, Requests
  <2> QED BY <2>1 DEF Sound
<1> QED BY <1>1, <1>2

LEMMA TablesStep == SymTypes /\ SoundTables /\ [Next]_vars => SoundTables'
<1> SUFFICES ASSUME SymTypes, SoundTables, [Next]_vars PROVE SoundTables'
  OBVIOUS
<1> USE DEF SoundTables, Query
<1>0. Symbols \subseteq Queries /\ Prefix \notin Symbols
  BY SymbolsAssumption DEF Queries
<1>1. ASSUME UNCHANGED <<cache, pending>> PROVE SoundTables'
  BY <1>1
<1>2. ASSUME NEW c \in Callers, Enter(c) PROVE SoundTables'
  <2>1. \A q \in Queries : pending'[q] \in {pending[q], "open"}
    BY <1>2 DEF Enter, SymTypes
  <2> QED BY <1>0, <1>2, <2>1 DEF Enter
<1>3. ASSUME NEW c \in Callers, Keep(c) PROVE SoundTables'
  <2>1. \A s \in Symbols : Remember(Query(c))[s] \in {cache[s], Verdict(s)}
    BY <1>0 DEF Remember, Verdict
  <2> QED BY <1>3, <2>1 DEF Keep
<1>4. ASSUME NEW c \in Callers, Publish(c) \/ RequestFails(c) \/ Pop(c) PROVE SoundTables'
  <2>1. \A q \in Queries : pending'[q] \in {pending[q], Verdict(q), "error", NoAnswer}
    BY ZenonT(60), <1>4 DEF Publish, RequestFails, Settle, Pop, SymTypes
  <2> QED BY <1>0, <1>4, <2>1 DEF Publish, RequestFails, Pop
<1>5. ASSUME NEW q \in Queries, Forget(q) PROVE SoundTables'
  BY <1>0, <1>5 DEF Forget, SymTypes
<1>6. ASSUME NEW l \in Loaders, LoaderStep(l) PROVE SoundTables'
  BY <1>1, <1>6, LoaderFrame
<1> QED BY <1>1, <1>2, <1>3, <1>4, <1>5, <1>6
      DEF Next, SymbolStep, CallerStep, vars, symVars, Ask, IndexBars, IndexRuns, Acquire, Retry,
        Fallback, Yahoo, Answered, IndexExpires

LEMMA CallersStep ==
  SymTypes /\ SoundTables /\ SoundCallers /\ Indexed /\ [Next]_vars => SoundCallers'
<1> SUFFICES ASSUME SymTypes, SoundTables, SoundCallers, Indexed, [Next]_vars PROVE SoundCallers'
  OBVIOUS
<1> USE DEF At, Goto, Query
<1>0. Loaded \subseteq Loaded' /\ Symbols \subseteq Queries /\ Prefix \notin Symbols
  BY LoadedGrows, SymbolsAssumption DEF Queries
<1>1. ASSUME NEW c \in Callers, NEW r, caller' = [caller EXCEPT ![c] = r], Sound(r, Loaded')
      PROVE  SoundCallers'
  <2>1. \A d \in Callers : caller'[d] = caller[d] \/ Sound(caller'[d], Loaded')
    BY <1>1 DEF SymTypes
  <2> QED BY <1>0, <2>1, SoundFrame
<1>2. ASSUME UNCHANGED caller PROVE SoundCallers'
  BY <1>0, <1>2, SoundFrame
<1>3. ASSUME NEW c \in Callers, NEW q \in Queries, Ask(c, q) PROVE SoundCallers'
  <2> DEFINE r == [NoCaller EXCEPT !.pc = "load_bars", !.query = q]
  <2>1. r \in Requests /\ Sound(r, Loaded')
    BY SymbolsAssumption DEF NoCaller, Requests, Steps, Sound, Queries
  <2>2. Sound(Routed(r, index.known), Loaded')
    BY <1>0, <2>1, RoutedSound DEF SymTypes, Indexed
  <2> QED BY <1>1, <1>3, <2>1, <2>2 DEF Ask
<1>4. ASSUME NEW c \in Callers, NEW step, caller' = [caller EXCEPT ![c].pc = step],
             step \notin {"fallback", "yahoo", "pop", "done"}
      PROVE  SoundCallers'
  <2>1. [caller[c] EXCEPT !.pc = step].pc = step
    BY DEF SymTypes, Requests
  <2> QED BY <1>1, <1>4, <2>1 DEF Sound
<1>5. ASSUME NEW c \in Callers, IndexBars(c) PROVE SoundCallers'
  <2>1. PICK bars :
           caller' = [caller EXCEPT ![c] = [caller[c] EXCEPT !.pc = "load_runs", !.known = bars,
                                                             !.lacks = Loaded \ bars]]
    BY <1>5 DEF IndexBars
  <2>2. [caller[c] EXCEPT !.pc = "load_runs", !.known = bars, !.lacks = Loaded \ bars].pc
          = "load_runs"
    BY DEF SymTypes, Requests
  <2> QED BY <1>1, <2>1, <2>2 DEF Sound
<1>6. ASSUME NEW c \in Callers, IndexRuns(c) PROVE SoundCallers'
  <2>1. PICK known \in SUBSET Loaded : caller' = [caller EXCEPT ![c] = Routed(caller[c], known)]
    BY <1>6 DEF IndexRuns, Indexed
  <2>2. Sound(Routed(caller[c], known), Loaded')
    BY <1>0, RoutedSound DEF SymTypes, Loaded
  <2> QED BY <1>1, <2>1, <2>2
<1>7. ASSUME NEW c \in Callers, NEW answer,
             caller' = [caller EXCEPT ![c] = [@ EXCEPT !.pc = "done", !.answer = answer]],
             Query(c) \in Symbols => answer \in {Verdict(Query(c)), "error"}
      PROVE  SoundCallers'
  <2> DEFINE r == [caller[c] EXCEPT !.pc = "done", !.answer = answer]
  <2>1. r.pc = "done" /\ r.query = Query(c) /\ r.answer = answer
    BY DEF SymTypes, Requests
  <2>2. Sound(r, Loaded')
    BY <1>7, <2>1 DEF Sound
  <2> QED BY <1>1, <1>7, <2>2
<1>8. ASSUME NEW c \in Callers, Enter(c) PROVE SoundCallers'
  <2>1. CASE Goto(c, "permit") \/ Goto(c, "wait")
    BY <1>4, <2>1
  <2>2. CASE /\ cache[Query(c)] # NoAnswer
             /\ caller' = [caller EXCEPT ![c] = [@ EXCEPT !.pc = "done",
                                                           !.answer = cache[Query(c)]]]
    <3>1. Query(c) \in Symbols => cache[Query(c)] = Verdict(Query(c))
      BY <2>2 DEF SoundTables
    <3> QED BY <1>7, <2>2, <3>1
  <2>3. CASE /\ pending[Query(c)] \in Verdicts
             /\ caller' = [caller EXCEPT ![c] = [@ EXCEPT !.pc = "done",
                                                           !.answer = pending[Query(c)]]]
    <3>1. Query(c) \in Symbols => pending[Query(c)] \in {Verdict(Query(c)), "error"}
      BY <2>3, SymbolsAssumption DEF SoundTables, Verdicts
    <3> QED BY <1>7, <2>3, <3>1
  <2> QED BY <1>8, <2>1, <2>2, <2>3 DEF Enter
<1>9. ASSUME NEW c \in Callers, Acquire(c) \/ Retry(c) \/ Keep(c) PROVE SoundCallers'
  BY <1>4, <1>9 DEF Acquire, Retry, Keep
<1>10. ASSUME NEW c \in Callers, Publish(c) \/ RequestFails(c) PROVE SoundCallers'
  <2>1. PICK verdict \in {Verdict(Query(c)), "error"} : Settle(c, verdict, "pop")
    BY <1>10 DEF Publish, RequestFails
  <2>2. ASSUME NEW d \in Callers, NEW step \in {"pop", "done"}, Query(d) = Query(c),
               caller'[d] = [caller[d] EXCEPT !.pc = step, !.answer = verdict]
        PROVE  Sound(caller'[d], Loaded')
    <3>1. caller'[d].pc = step /\ caller'[d].query = Query(c) /\ caller'[d].answer = verdict
      BY <2>2 DEF SymTypes, Requests
    <3> QED BY <3>1 DEF Sound
  <2>3. ASSUME NEW d \in Callers, Query(d) = Prefix,
               caller'[d] = [caller[d] EXCEPT !.pc = "fallback", !.answer = verdict]
        PROVE  Sound(caller'[d], Loaded')
    <3>1. caller'[d].pc = "fallback" /\ caller'[d].query = Prefix
      BY <2>3 DEF SymTypes, Requests
    <3> QED BY <3>1, <1>0 DEF Sound
  <2>4. ASSUME NEW d \in Callers
        PROVE  caller'[d] = caller[d] \/ Sound(caller'[d], Loaded')
    <3>1. CASE d = c
      <4>1. caller'[d] = [caller[d] EXCEPT !.pc = "pop", !.answer = verdict]
        BY <2>1, <3>1 DEF Settle
      <4> QED BY <3>1, <4>1, <2>2
    <3>2. CASE d # c /\ At(d, "wait") /\ Query(d) = Query(c)
      <4>1. CASE verdict = "error" /\ Query(d) = Prefix
        BY <2>1, <2>3, <3>2, <4>1 DEF Settle
      <4>2. CASE ~(verdict = "error" /\ Query(d) = Prefix)
        <5>1. caller'[d] = [caller[d] EXCEPT !.pc = "done", !.answer = verdict]
          BY <2>1, <3>2, <4>2 DEF Settle
        <5> QED BY <3>2, <5>1, <2>2
      <4> QED BY <4>1, <4>2
    <3>3. CASE d # c /\ ~(At(d, "wait") /\ Query(d) = Query(c))
      BY <2>1, <3>3 DEF Settle
    <3> QED BY <3>1, <3>2, <3>3
  <2> QED BY <1>0, <2>4, SoundFrame
<1>11. ASSUME NEW c \in Callers, Pop(c) PROVE SoundCallers'
  <2> DEFINE step == IF caller[c].answer = "error" /\ Query(c) = Prefix THEN "fallback" ELSE "done"
             r == [caller[c] EXCEPT !.pc = step]
  <2>1. r.pc = step /\ r.query = Query(c) /\ r.answer = caller[c].answer
    BY DEF SymTypes, Requests
  <2>2. Sound(r, Loaded')
    BY <1>0, <1>11, <2>1 DEF Sound, SoundCallers, Pop
  <2>3. caller' = [caller EXCEPT ![c] = r]
    BY <1>11 DEF Pop
  <2> QED BY <1>1, <2>2, <2>3
<1>12. ASSUME NEW c \in Callers, Fallback(c) \/ Yahoo(c) PROVE SoundCallers'
  <2>1. Query(c) = Prefix
    BY <1>12 DEF Fallback, Yahoo, SoundCallers, Sound
  <2>2. CASE Fallback(c)
    <3> DEFINE r == [caller[c] EXCEPT !.pc = "yahoo"]
    <3>1. r.pc = "yahoo" /\ r.query = Prefix
      BY <2>1 DEF SymTypes, Requests
    <3>2. Sound(r, Loaded') /\ caller' = [caller EXCEPT ![c] = r]
      BY <1>0, <2>2, <3>1 DEF Sound, Fallback
    <3> QED BY <1>1, <3>2
  <2>3. CASE Yahoo(c)
    BY <1>0, <1>7, <2>1, <2>3 DEF Yahoo
  <2> QED BY <1>12, <2>2, <2>3
<1>13. ASSUME NEW c \in Callers, Answered(c) PROVE SoundCallers'
  <2>1. Sound(NoCaller, Loaded')
    BY DEF NoCaller, Sound
  <2> QED BY <1>1, <1>13, <2>1 DEF Answered
<1>14. ASSUME NEW l \in Loaders, LoaderStep(l) PROVE SoundCallers'
  <2>1. ASSUME NEW c \in Callers PROVE Sound(caller'[c], Loaded')
    <3>1. /\ caller'[c].pc = caller[c].pc /\ caller'[c].query = caller[c].query
          /\ caller'[c].answer = caller[c].answer
      BY <1>14, LoaderFrame
    <3> QED BY <1>0, <3>1 DEF SoundCallers, Sound
  <2> QED BY <2>1 DEF SoundCallers
<1> QED BY <1>2, <1>3, <1>5, <1>6, <1>8, <1>9, <1>10, <1>11, <1>12, <1>13, <1>14
      DEF Next, SymbolStep, CallerStep, vars, symVars, IndexExpires, Forget
-----------------------------------------------------------------------------
(* The index.                                                               *)

LEMMA IndexedStep == SymTypes /\ Indexed /\ [Next]_vars => Indexed'
<1> SUFFICES ASSUME SymTypes, Indexed, [Next]_vars PROVE Indexed'
  OBVIOUS
<1> USE DEF At, Goto
<1>0. Loaded \subseteq Loaded'
  BY LoadedGrows
<1>1. ASSUME UNCHANGED <<Loaded, loader, index, behind>>,
             \A c \in Callers :
                \/ caller'[c].pc # "load_runs"
                \/ UNCHANGED <<caller[c].pc, caller[c].known, caller[c].lacks>>
      PROVE  Indexed'
  BY <1>1 DEF Indexed, Written
<1>2. CASE BarStep /\ UNCHANGED symVars
  <2>1. Loaded' = Loaded
    BY <1>2, BarsStayLoaded DEF SymTypes
  <2> QED BY <1>1, <1>2, <2>1 DEF symVars
<1>3. ASSUME NEW c \in Callers, IndexBars(c) PROVE Indexed'
  <2>1. PICK bars \in SUBSET Loaded :
           caller' = [caller EXCEPT ![c] = [caller[c] EXCEPT !.pc = "load_runs", !.known = bars,
                                                             !.lacks = Loaded \ bars]]
    BY <1>3 DEF IndexBars
  <2>2. caller'[c].known = bars /\ caller'[c].lacks = Loaded \ bars
        /\ \A d \in Callers : d # c => caller'[d] = caller[d]
    BY <2>1 DEF SymTypes, Requests
  <2>3. UNCHANGED <<Loaded, loader, index, behind>>
    BY <1>3 DEF IndexBars, barVars, Loaded
  <2> QED BY <2>2, <2>3 DEF Indexed, Written
<1>4. ASSUME NEW c \in Callers, IndexRuns(c) PROVE Indexed'
  <2>1. Loaded' = Loaded
    BY <1>4 DEF IndexRuns, barVars, Loaded
  <2>2. PICK known : caller' = [caller EXCEPT ![c] = Routed(caller[c], known)]
    BY <1>4 DEF IndexRuns
  <2>3. caller'[c].pc # "load_runs" /\ \A d \in Callers : d # c => caller'[d] = caller[d]
    <3>1. Routed(caller[c], known).pc \in {"enter", "done"}
      BY DEF Routed, SymTypes, Requests
    <3> QED BY <2>2, <3>1 DEF SymTypes
  <2>4. index'.known \subseteq Loaded /\ Loaded \ index'.known \subseteq behind'
    <3>1. caller[c].known \subseteq Loaded /\ Loaded \ caller[c].known \subseteq caller[c].lacks
      BY <1>4 DEF IndexRuns, Indexed
    <3>2. CASE \E runs \in SUBSET Loaded :
                 /\ index' = [there |-> TRUE, known |-> caller[c].known \union runs]
                 /\ behind' = caller[c].lacks \ runs
      BY <3>1, <3>2
    <3>3. CASE index' = [there |-> TRUE, known |-> {}] /\ behind' = Loaded
      BY <3>3
    <3> QED BY <1>4, <3>2, <3>3 DEF IndexRuns
  <2> QED BY <2>1, <2>3, <2>4 DEF Indexed
<1>5. CASE IndexExpires
  <2>1. UNCHANGED <<Loaded, caller>> /\ index' = [there |-> FALSE, known |-> {}]
    BY <1>5 DEF IndexExpires, barVars, Loaded
  <2> QED BY <2>1 DEF Indexed
<1>6. ASSUME NEW l \in Loaders, LoaderStep(l) PROVE Indexed'
  <2>1. CASE Committed(l)
    <3>1. PICK t \in Tickers, rows \in SUBSET Days, wrote \in SUBSET Tickers :
             Insert(l, t, rows, wrote)
      BY <2>1, CommittedView
    <3>2. Loaded' \subseteq Loaded \union wrote
      BY <3>1 DEF Insert, Loaded, SymTypes
    <3>3. Written \union wrote \subseteq Written'
      <4>1. loader'[l].wrote = loader[l].wrote \union wrote
        BY <3>1, InsertedLoader
      <4>2. \A m \in Loaders : loader[m].wrote \subseteq loader'[m].wrote
        BY <3>1, <4>1, InsertedLoader
      <4> QED BY <4>1, <4>2 DEF Written
    <3>4. ASSUME NEW c \in Callers, caller'[c].pc = "load_runs"
          PROVE  /\ caller[c].pc = "load_runs" /\ caller'[c].known = caller[c].known
                 /\ caller'[c].lacks = caller[c].lacks \union wrote
      BY <3>1, <3>4 DEF Insert, SymTypes, Requests
    <3>5. UNCHANGED <<index, behind>>
      BY <2>1 DEF Committed
    <3> QED BY <1>0, <3>2, <3>3, <3>4, <3>5 DEF Indexed
  <2>2. CASE BackfillRaises(l) \/ BackfillEnds(l)
    <3>1. UNCHANGED <<Loaded, caller>> /\ loader' = [loader EXCEPT ![l] = NoLoader]
      BY <2>2 DEF BackfillRaises, BackfillEnds, barVars, Loaded
    <3>2. Written \subseteq Written' \union loader[l].wrote
      <4>1. \A m \in Loaders : m # l => loader'[m] = loader[m]
        BY <3>1 DEF SymTypes
      <4> QED BY <4>1 DEF Written
    <3>3. /\ index' = index \/ index' = [there |-> FALSE, known |-> {}]
          /\ index'.there => Loaded \ index.known \subseteq behind' \union Written'
      <4>1. CASE BackfillRaises(l)
        BY <3>2, <4>1 DEF BackfillRaises, Indexed
      <4>2. CASE BackfillEnds(l)
        <5>1. CASE loader[l].wrote = {}
          BY <3>2, <4>2, <5>1 DEF BackfillEnds, Indexed
        <5>2. CASE loader[l].wrote # {}
          BY <4>2, <5>2 DEF BackfillEnds
        <5> QED BY <5>1, <5>2
      <4> QED BY <2>2, <4>1, <4>2
    <3> QED BY <3>1, <3>3 DEF Indexed
  <2>3. CASE \/ \E absent \in SUBSET Tickers : Coverage(l, absent)
             \/ \E t \in Tickers : Place(l, t)
             \/ Placed(l) \/ Skipped(l)
    <3>1. UNCHANGED <<Loaded, caller, index, behind>>
      BY <2>3 DEF Coverage, Place, Placed, Skipped, barVars, Loaded
    <3>2. \A m \in Loaders : loader'[m].wrote = loader[m].wrote
      <4>1. ASSUME NEW r, loader' = [loader EXCEPT ![l] = r], r.wrote = loader[l].wrote
            PROVE  \A m \in Loaders : loader'[m].wrote = loader[m].wrote
        BY <4>1 DEF SymTypes
      <4>2. ASSUME NEW absent \in SUBSET Tickers, Coverage(l, absent)
            PROVE  \A m \in Loaders : loader'[m].wrote = loader[m].wrote
        BY <4>1, <4>2 DEF Coverage, SymTypes, LoaderRecords
      <4>3. ASSUME NEW t \in Tickers, Place(l, t)
            PROVE  \A m \in Loaders : loader'[m].wrote = loader[m].wrote
        <5> DEFINE r == [loader[l] EXCEPT !.pc = "exchange", !.todo = loader[l].todo \ {t}, !.at = t]
        <5>1. r.wrote = loader[l].wrote
          BY DEF SymTypes, LoaderRecords
        <5>2. loader' = [loader EXCEPT ![l] = r]
          BY <4>3 DEF Place
        <5> QED BY <4>1, <5>1, <5>2
      <4>4. CASE Placed(l) \/ Skipped(l)
        BY <4>4 DEF Placed, Skipped, SymTypes, LoaderRecords
      <4> QED BY <2>3, <4>2, <4>3, <4>4
    <3>3. Written' = Written
      BY <3>2 DEF Written
    <3> QED BY <3>1, <3>3 DEF Indexed
  <2> QED BY <1>6, <2>1, <2>2, <2>3 DEF LoaderStep
<1>7. ASSUME NEW c \in Callers, NEW q \in Queries, Ask(c, q) PROVE Indexed'
  <2>1. \A d \in Callers : d # c => caller'[d] = caller[d]
    BY <1>7 DEF Ask, SymTypes
  <2>2. caller'[c].pc \in {"load_bars", "enter", "done"}
    BY <1>7 DEF Ask, Routed, NoCaller, SymTypes
  <2>3. UNCHANGED <<Loaded, loader, index, behind>>
    BY <1>7 DEF Ask, barVars, Loaded
  <2> QED BY <1>1, <2>1, <2>2, <2>3
<1>8. ASSUME NEW c \in Callers,
             \/ Enter(c) \/ Acquire(c) \/ Retry(c) \/ Keep(c) \/ Publish(c) \/ RequestFails(c)
             \/ Pop(c) \/ Fallback(c) \/ Yahoo(c) \/ Answered(c)
      PROVE  Indexed'
  <2>1. UNCHANGED <<Loaded, loader, index, behind>>
    BY <1>8 DEF Enter, Acquire, Retry, Keep, Publish, RequestFails, Pop, Fallback, Yahoo,
      Answered, barVars, Loaded
  <2>2. CASE Publish(c) \/ RequestFails(c)
    <3>1. PICK verdict : Settle(c, verdict, "pop")
      BY <2>2 DEF Publish, RequestFails
    <3>2. \A d \in Callers : \/ caller'[d] = caller[d]
                             \/ \E step \in {"pop", "done", "fallback"} :
                                   caller'[d] = [caller[d] EXCEPT !.pc = step, !.answer = verdict]
      BY <3>1 DEF Settle
    <3>3. ASSUME NEW d \in Callers, NEW step \in {"pop", "done", "fallback"}
          PROVE  [caller[d] EXCEPT !.pc = step, !.answer = verdict].pc = step
      BY DEF SymTypes, Requests
    <3>4. ASSUME NEW d \in Callers PROVE caller'[d] = caller[d] \/ caller'[d].pc # "load_runs"
      <4>1. ASSUME NEW step \in {"pop", "done", "fallback"},
                   caller'[d] = [caller[d] EXCEPT !.pc = step, !.answer = verdict]
            PROVE  caller'[d].pc # "load_runs"
        BY <4>1, <3>3
      <4> QED BY <3>2, <4>1
    <3> QED BY <1>1, <2>1, <3>4
  <2>3. ASSUME NEW r, caller' = [caller EXCEPT ![c] = r], r.pc # "load_runs" PROVE Indexed'
    BY <1>1, <2>1, <2>3 DEF SymTypes
  <2>4. ASSUME NEW step, caller' = [caller EXCEPT ![c].pc = step], step # "load_runs"
        PROVE  Indexed'
    <3>1. [caller[c] EXCEPT !.pc = step].pc = step
      BY DEF SymTypes, Requests
    <3> QED BY <2>3, <2>4, <3>1
  <2>5. ASSUME NEW answer,
               caller' = [caller EXCEPT ![c] = [@ EXCEPT !.pc = "done", !.answer = answer]]
        PROVE  Indexed'
    <3>1. [caller[c] EXCEPT !.pc = "done", !.answer = answer].pc = "done"
      BY DEF SymTypes, Requests
    <3> QED BY <2>3, <2>5, <3>1
  <2>6. CASE Enter(c)
    BY <2>4, <2>5, <2>6 DEF Enter
  <2>7. CASE Acquire(c) \/ Retry(c) \/ Keep(c) \/ Pop(c) \/ Fallback(c)
    BY <2>4, <2>7 DEF Acquire, Retry, Keep, Pop, Fallback
  <2>8. CASE Yahoo(c)
    BY <2>5, <2>8 DEF Yahoo
  <2>9. CASE Answered(c)
    <3>1. NoCaller.pc # "load_runs"
      BY DEF NoCaller
    <3> QED BY <2>3, <2>9, <3>1 DEF Answered
  <2> QED BY <1>8, <2>2, <2>6, <2>7, <2>8, <2>9
<1>9. ASSUME UNCHANGED <<Loaded, loader, index, behind, caller>> PROVE Indexed'
  BY <1>1, <1>9
<1> QED BY <1>2, <1>3, <1>4, <1>5, <1>6, <1>7, <1>8, <1>9
      DEF Next, SymbolStep, CallerStep, vars, barVars, symVars, Forget, Loaded
-----------------------------------------------------------------------------
(* The theorems.                                                            *)

\* Each part of the invariant survives every step: one owner of a query's future, permits
\* that are given back, sound tables and answers, and an index that knows what it lacks.
THEOREM SymInvariantHolds == Spec => []SymInvariant
<1>1. Init => SymInvariant
  <2> SUFFICES ASSUME Init PROVE SymInvariant
    OBVIOUS
  <2>1. SymTypes
    BY BarsAssumption DEF Init, BarInit, SymTypes, NoCaller, Requests, Steps, Queries, NoLoader,
      LoaderRecords
  <2>2. \A c \in Callers : caller[c] = NoCaller
    BY DEF Init
  <2>3. Ownership /\ SoundTables /\ SoundCallers /\ Indexed
    BY <2>2, SymbolsAssumption
      DEF Init, Ownership, Owns, Leading, SoundTables, SoundCallers, Sound, Indexed, NoCaller, At,
          Query, Queries
  <2>4. Holding = {}
    BY <2>2 DEF Init, Holding, NoCaller, NoLoader
  <2>5. PermitsKept
    BY <2>4, FS_EmptySet, SymbolsAssumption DEF PermitsKept
  <2> QED BY <2>1, <2>3, <2>5 DEF SymInvariant
<1>2. SymInvariant /\ [Next]_vars => SymInvariant'
  BY TypesStep, OwnershipStep, PermitsStep, TablesStep, CallersStep, IndexedStep DEF SymInvariant
<1> QED BY <1>1, <1>2, PTL DEF Spec

\* However many requests ask, one of them talks to the provider, within the permits, and
\* every other one waits on a future that it will set (_fmp_symbol_exists and
\* _fmp_search_symbols).
THEOREM QueriesAreCoalesced == Spec => []Coalesced
<1>1. SymInvariant => Coalesced
  <2> SUFFICES ASSUME SymInvariant PROVE Coalesced
    OBVIOUS
  <2>0. "open" \notin Verdicts /\ NoAnswer # "open"
    BY SymbolsAssumption DEF Verdicts
  <2>1. \A q \in Queries : \A c, d \in Leaders(q) : c = d
    BY DEF SymInvariant, Ownership, Owns, Leading, Leaders
  <2>2. ASSUME NEW q \in Queries PROVE pending[q] = "open" <=> Leaders(q) # {}
    <3>1. ASSUME NEW c \in Leaders(q) PROVE pending[q] = "open"
      BY <3>1 DEF SymInvariant, Ownership, Leading, Leaders
    <3>2. CASE pending[q] = "open"
      <4>1. PICK c \in Callers : Owns(c, q)
        BY <2>0, <3>2 DEF SymInvariant, Ownership
      <4>2. caller[c].pc # "pop"
        BY <2>0, <3>2, <4>1 DEF SymInvariant, Ownership, Owns
      <4> QED BY <3>2, <4>1, <4>2 DEF Owns, Leading, Leaders
    <3> QED BY <3>1, <3>2
  <2>3. \A c \in Callers : At(c, "wait") => pending[Query(c)] = "open"
    BY DEF SymInvariant, Ownership, At
  <2> QED BY <2>1, <2>2, <2>3 DEF Coalesced, SymInvariant, PermitsKept
<1> QED BY <1>1, SymInvariantHolds, PTL

\* A symbol's answer is what the provider said of it, an error, or what the database has:
\* no failure and no shared future turns into a verdict (validate_tickers).
THEOREM AnswersAreSound == Spec => []AnswersAreTheProviders
<1>1. SymInvariant => AnswersAreTheProviders
  BY DEF SymInvariant, SoundTables, SoundCallers, Sound, AnswersAreTheProviders, At, Query
<1> QED BY <1>1, SymInvariantHolds, PTL

\* The index of known tickers lacks a ticker of the database only if the load behind it could
\* not see it, the backfill that committed it is not over, or it raised at a later ticker
\* (known_tickers, backfill_missing and invalidate_known_tickers).
THEOREM IndexIsCurrent == Spec => []IndexKnowsTheTables
<1>1. SymInvariant => IndexKnowsTheTables
  BY DEF SymInvariant, Indexed, IndexKnowsTheTables
<1> QED BY <1>1, SymInvariantHolds, PTL

----------------------------------------------------------------------------
(* The bars of a run: the inductive invariant.                             *)

(* What a cache holds of a ticker has no hole: it has every bar the        *)
(* database has between two of its own.                                    *)
Unbroken(stored, held) ==
    /\ held \subseteq stored
    /\ \A d, e \in held, n \in stored : d < n /\ n < e => n \in held

Anchored(d, held) == \E n \in held : Close(n) = d

(* One gap ends before the other, at a bar that is held.                   *)
Before(r, s, held) == r.hi <= s.lo /\ Anchored(r.hi, held)

(* A load of one ticker: the gap being read (one or none), from where it   *)
(* has been read, and the gaps after it.  Every bar that is wanted is held *)
(* or in a gap, no gap has held bars inside, and the one hole is in the    *)
(* gap being read.                                                         *)
RangesOK(current, later, held) ==
    /\ \A r \in current \union later : /\ r.lo \in Nat \ {0} /\ r.hi \in Nat /\ r.lo <= r.hi
                                       /\ \A d \in held : Close(d) <= r.lo \/ r.hi <= Close(d)
    /\ \A r, s \in current : r = s
    /\ \A r \in current, s \in later : Before(r, s, held) \/ Before(s, r, held)
    /\ \A r, s \in later : r = s \/ Before(r, s, held) \/ Before(s, r, held)

SeamsOK(stored, held, ranges) ==
    /\ \A r \in ranges, d \in stored : Close(d) = r.lo => d \in held
    /\ \A r \in ranges, d \in Days : Close(d) \in {r.lo, r.hi} => held # {}
    /\ \A r \in ranges, d \in held : r.hi <= Close(d) => Anchored(r.hi, held)

WantedOK(wanted, held, ranges) ==
    \A d \in wanted : d \in held \/ \E r \in ranges : r.lo <= Close(d) /\ Close(d) <= r.hi

HolesOK(stored, held, current, later) ==
    \A d \in held, n \in stored \ held :
        /\ d < n
        /\ \/ \E e \in held : n < e
           \/ \E r \in current \union later : Close(n) <= r.lo
        => \E r \in current : r.lo <= Close(n) /\ Close(n) <= r.hi

Consistent(stored, held, wanted, current, later) ==
    /\ held \subseteq stored /\ stored \subseteq Days /\ wanted \subseteq stored
    /\ RangesOK(current, later, held)
    /\ SeamsOK(stored, held, current \union later)
    /\ WantedOK(wanted, held, current \union later)
    /\ HolesOK(stored, held, current, later)

Reach(w) == IF job[w].pc = "save" THEN SlabEnd(w) ELSE job[w].at

Current(w, t) == IF t \in Gap(w).tickers THEN {[Gap(w) EXCEPT !.lo = Reach(w)]} ELSE {}
Later(w, t) == {g \in job[w].gaps : t \in g.tickers}

AllWhole(bars) == \A d \in Days : bars[d] # "partial"

GapRecords == {g \in [lo : Nat, hi : Nat, tickers : SUBSET Tickers] : g.lo <= g.hi}

JobRecords ==
    [pc : {"idle", "fetch", "save", "splice", "served"}, from : Nat, to : Nat,
     bars : [Tickers -> Bars], gaps : SUBSET GapRecords, gap : GapRecords, at : Nat,
     save : SUBSET Tickers, writing : Tickers \union {NoTicker}, want : [Tickers -> SUBSET Days]]

BarTypes ==
    /\ table \in [Tickers -> SUBSET Days]
    /\ file \in [Tickers -> [state : {"absent", "torn", "whole"}, bars : Bars]]
    /\ job \in [Workers -> JobRecords]

FilesOK ==
    \A t \in Tickers \ stepped : file[t].state = "whole" =>
        AllWhole(file[t].bars) /\ Unbroken(table[t], Held(file[t].bars))

JobOK(w) ==
    /\ job[w].pc = "splice" => job[w].gaps = {} /\ job[w].gap = NoGap
    /\ job[w].pc \in {"fetch", "save"} => job[w].at <= Gap(w).hi
    /\ \A t \in Tickers : job[w].want[t] \subseteq job[w].from..job[w].to
    /\ Busy(w) => \A t \in Tickers \ stepped :
          /\ AllWhole(job[w].bars[t])
          /\ Consistent(table[t], Held(job[w].bars[t]), job[w].want[t], Current(w, t), Later(w, t))

(* A ticker that a coverage request has yet to write has no bars, or those *)
(* another such request wrote.                                             *)
LoadersOK ==
    \A l \in Loaders, t \in Tickers : t \in loader[l].todo \/ t = loader[l].at =>
        table[t] = {} \/ Days \ {LastDay} \subseteq table[t]

BarsInvariant ==
    /\ BarTypes /\ FilesOK /\ ServedWhole
    /\ \A w \in Workers : JobOK(w)

-----------------------------------------------------------------------------
(* What a load asks for.                                                    *)

LEMMA FirstAndFinal ==
  ASSUME NEW D, D \subseteq Days, D # {}
  PROVE  /\ First(D) \in D /\ \A e \in D : First(D) <= e
         /\ Final(D) \in D /\ \A e \in D : e <= Final(D)
<1>1. LastDay \in Nat /\ D \subseteq Nat /\ \A e \in D : e <= LastDay
  BY BarsAssumption DEF Days
<1>2. \A T \in SUBSET Nat : T # {} => \E x \in T : \A y \in T : x <= y
  <2> SUFFICES ASSUME NEW T \in SUBSET Nat, T # {} PROVE \E x \in T : \A y \in T : x <= y
    OBVIOUS
  <2>1. PICK x \in T : \A y \in T : ~(<<y, x>> \in OpToRel(<, Nat))
    BY NatLessThanWellFounded, WFMin
  <2>2. \A y \in T : ~(y < x)
    BY <2>1 DEF OpToRel
  <2> QED BY <2>2
<1>3. \E d \in D : \A e \in D : d <= e
  BY <1>1, <1>2
<1>4. \E d \in D : \A e \in D : e <= d
  <2> DEFINE T == {LastDay - e : e \in D}
  <2>1. T \in SUBSET Nat /\ T # {}
    <3>1. \A e \in D : LastDay - e \in Nat
      BY <1>1
    <3>2. PICK e \in D : TRUE
      OBVIOUS
    <3>3. LastDay - e \in T
      BY <3>2
    <3>4. T # {}
      BY <3>3
    <3>5. T \in SUBSET Nat
      BY <3>1
    <3> QED BY <3>4, <3>5
  <2>2. PICK x \in T : \A y \in T : x <= y
    <3> HIDE DEF T
    <3> QED BY <1>2, <2>1
  <2>3. PICK d \in D : x = LastDay - d
    BY <2>2
  <2>4. \A e \in D : LastDay - d <= LastDay - e
    BY <2>2, <2>3
  <2>5. \A e \in D : e <= d
    BY <1>1, <2>3, <2>4
  <2> QED BY <2>3, <2>5
<1> QED BY <1>3, <1>4 DEF First, Final

Span(g) == [lo |-> g.lo, hi |-> g.hi]

(* The gaps a ticker has its share in are its missing ranges, each once.    *)
Shares(gaps, ranges) ==
    /\ \A g \in gaps : Span(g) \in ranges
    /\ \A r \in ranges : \E g \in gaps : Span(g) = r
    /\ \A g, h \in gaps : Span(g) = Span(h) => g = h

LEMMA GapsView ==
  ASSUME NEW bars, NEW lo, NEW hi, NEW t, t \in Tickers
  PROVE  Shares({g \in Gaps(bars, lo, hi) : t \in g.tickers}, Missing(bars[t], lo, hi))
<1> DEFINE miss(s) == Missing(bars[s], lo, hi)
           gap(r) == [lo |-> r.lo, hi |-> r.hi, tickers |-> {s \in Tickers : r \in miss(s)}]
           all == UNION {miss(s) : s \in Tickers}
           mine == {g \in Gaps(bars, lo, hi) : t \in g.tickers}
<1>1. Gaps(bars, lo, hi) = {gap(r) : r \in all}
  BY DEF Gaps
<1>2. \A s \in Tickers : \A r \in miss(s) : r = [lo |-> r.lo, hi |-> r.hi]
  BY DEF Missing
<1> HIDE DEF miss
<1>3. \A r \in all : r = [lo |-> r.lo, hi |-> r.hi]
  BY <1>2
<1>4. \A r \in all : Span(gap(r)) = r
  BY <1>3 DEF Span
<1>5. \A g \in mine : \E r \in all : g = gap(r) /\ Span(g) = r /\ r \in miss(t)
  <2> TAKE g \in mine
  <2>1. PICK r \in all : g = gap(r)
    <3> HIDE DEF all, gap
    <3> QED BY <1>1
  <2>2. t \in gap(r).tickers
    <3> HIDE DEF gap
    <3> QED BY <2>1
  <2>3. r \in miss(t)
    BY <2>2
  <2> HIDE DEF all, gap
  <2> QED BY <1>4, <2>1, <2>3
<1>6. \A r \in miss(t) : r \in all /\ gap(r) \in mine /\ Span(gap(r)) = r
  <2> TAKE r \in miss(t)
  <2>1. r \in all
    BY t \in Tickers
  <2>2. t \in gap(r).tickers
    BY t \in Tickers
  <2>3. gap(r) \in Gaps(bars, lo, hi)
    <3> HIDE DEF all, gap
    <3> QED BY <1>1, <2>1
  <2> HIDE DEF all, gap
  <2> QED BY <1>4, <2>1, <2>2, <2>3
<1> HIDE DEF all, gap, mine
<1>7. \A g, h \in mine : Span(g) = Span(h) => g = h
  BY <1>5
<1>8. Shares(mine, miss(t))
  BY <1>5, <1>6, <1>7 DEF Shares
<1> QED BY <1>8 DEF mine, miss

LEMMA DaysAreNumbers ==
  /\ LastDay \in Nat /\ Slab \in Nat /\ Slab > 0
  /\ \A d \in Days : d \in Nat /\ 1 <= d /\ d <= LastDay /\ Close(d) = 2 * d
  /\ \A d \in Nat : 1 <= d /\ d <= LastDay => d \in Days
BY BarsAssumption DEF Days, Close

(* What a query adds to a cache: the stored days of its window, partly only  *)
(* the day at whose close the window begins.                                 *)
LEMMA RowsView ==
  ASSUME NEW t, NEW lo \in Nat, NEW hi \in Nat, NEW bars \in Bars
  PROVE  /\ Rows(t, lo, hi) \in Bars /\ Merge(bars, Rows(t, lo, hi)) \in Bars
         /\ \A d : d \in Held(Merge(bars, Rows(t, lo, hi))) <=>
                  \/ d \in Held(bars)
                  \/ d \in Days /\ d \in table[t] /\ lo <= Close(d) /\ Close(d) <= hi
         /\ AllWhole(bars) /\ (\A d \in Days : d \in table[t] /\ Close(d) = lo => d \in Held(bars))
            => AllWhole(Merge(bars, Rows(t, lo, hi)))
<1> DEFINE new == Rows(t, lo, hi)
           all == Merge(bars, new)
<1>1. new \in Bars
  BY DEF Rows, Bars
<1>2. \A d \in Days : new[d] # "none" <=> d \in table[t] /\ lo <= Close(d) /\ Close(d) <= hi
  <2> TAKE d \in Days
  <2> DEFINE inside == d \in table[t] /\ lo <= Close(d) /\ Close(d) <= hi
  <2>1. new[d] = IF ~inside THEN "none" ELSE IF lo <= Midnight(d) THEN "whole" ELSE "partial"
    BY DEF Rows
  <2> HIDE DEF new
  <2> QED BY <2>1
<1>3. \A d \in Days : new[d] = "partial" => d \in table[t] /\ Close(d) = lo
  <2> SUFFICES ASSUME NEW d \in Days, new[d] = "partial"
               PROVE  d \in table[t] /\ Close(d) = lo
    OBVIOUS
  <2>1. d \in table[t] /\ lo <= Close(d)
    BY <1>2
  <2>2. ~(lo <= Midnight(d))
    <3> DEFINE inside == d \in table[t] /\ lo <= Close(d) /\ Close(d) <= hi
    <3>1. new[d] = IF ~inside THEN "none" ELSE IF lo <= Midnight(d) THEN "whole" ELSE "partial"
      BY DEF Rows
    <3>2. inside
      BY <1>2
    <3> HIDE DEF new, inside
    <3> QED BY <3>1, <3>2
  <2> QED BY <2>1, <2>2, DaysAreNumbers DEF Midnight
<1> HIDE DEF new
<1>4. \A d \in Days : all[d] = IF bars[d] # "none" THEN bars[d] ELSE new[d]
  BY DEF Merge
<1>5. all \in Bars
  BY <1>1 DEF Merge, Bars
<1> HIDE DEF all
<1>6. \A d : d \in Held(all) <=>
             \/ d \in Held(bars)
             \/ d \in Days /\ d \in table[t] /\ lo <= Close(d) /\ Close(d) <= hi
  BY <1>2, <1>4 DEF Held
<1>7. AllWhole(bars) /\ (\A d \in Days : d \in table[t] /\ Close(d) = lo => d \in Held(bars))
      => AllWhole(all)
  BY <1>3, <1>4 DEF AllWhole, Held
<1> QED BY <1>1, <1>5, <1>6, <1>7 DEF all, new

(* A load begins with gaps around the bars of the file.                      *)
LEMMA StartConsistent ==
  ASSUME NEW stored, stored \subseteq Days, NEW bars, Unbroken(stored, Held(bars)),
         NEW from \in Days, NEW to \in Days, from <= to,
         NEW wanted, wanted \subseteq stored, wanted \subseteq from..to,
         NEW later, Shares(later, Missing(bars, Midnight(from), DayEnd(to)))
  PROVE  Consistent(stored, Held(bars), wanted, {}, later)
<1> DEFINE D == Held(bars)
           lo == Midnight(from)
           hi == DayEnd(to)
           R == Missing(bars, lo, hi)
<1>1. /\ lo = 2 * from - 1 /\ hi = 2 * to + 1 /\ lo \in Nat \ {0} /\ hi \in Nat /\ lo < hi
      /\ \A d \in Days : Close(d) # lo /\ Close(d) # hi
  BY DaysAreNumbers DEF Midnight, DayEnd
<1>2. /\ D \subseteq stored /\ D \subseteq Days
      /\ \A d, e \in D, n \in stored : d < n /\ n < e => n \in D
  BY DEF Unbroken
<1>3. \A g \in later : Span(g) \in R /\ g.lo = Span(g).lo /\ g.hi = Span(g).hi
  BY DEF Shares, Span
<1>4. \A r \in R : \E g \in later : g.lo = r.lo /\ g.hi = r.hi
  BY DEF Shares, Span
<1>5. \A g, h \in later : g.lo = h.lo /\ g.hi = h.hi => g = h
  BY DEF Shares, Span
<1>6. \A d \in wanted : lo <= Close(d) /\ Close(d) <= hi
  BY <1>1, DaysAreNumbers
<1>7. CASE D = {}
  <2>1. R = {[lo |-> lo, hi |-> hi]}
    BY <1>7 DEF Missing
  <2>2. \A g \in later : g.lo = lo /\ g.hi = hi
    BY <1>3, <2>1
  <2>3. later # {} /\ \A g, h \in later : g = h
    BY <1>4, <1>5, <2>1, <2>2
  <2> HIDE DEF D, lo, hi, R
  <2>4. RangesOK({}, later, D)
    BY <1>1, <1>7, <2>2, <2>3 DEF RangesOK
  <2>5. SeamsOK(stored, D, later)
    BY <1>1, <1>7, <2>2 DEF SeamsOK
  <2>6. WantedOK(wanted, D, later)
    BY <1>6, <2>2, <2>3 DEF WantedOK
  <2>7. HolesOK(stored, D, {}, later)
    BY <1>7 DEF HolesOK
  <2>8. Consistent(stored, D, wanted, {}, later)
    BY <1>2, <2>4, <2>5, <2>6, <2>7 DEF Consistent
  <2> QED BY <2>8 DEF D
<1>8. CASE D # {}
  <2> DEFINE f == First(D)
             l == Final(D)
  <2>1. /\ f \in D /\ \A e \in D : f <= e
        /\ l \in D /\ \A e \in D : e <= l
    BY <1>2, <1>8, FirstAndFinal
  <2>2. \A r \in R : \/ r.lo = lo /\ r.hi = Close(f)
                     \/ r.lo = Close(l) /\ r.hi = hi
    BY <1>8 DEF Missing
  <2>3. \A r \in R : r.lo < r.hi
    BY <1>8 DEF Missing
  <2>4. lo < Close(f) => [lo |-> lo, hi |-> Close(f)] \in R
    BY <1>8 DEF Missing
  <2>5. Close(l) < hi => [lo |-> Close(l), hi |-> hi] \in R
    BY <1>8 DEF Missing
  <2>6. \A g \in later : g.lo < g.hi /\ \/ g.lo = lo /\ g.hi = Close(f)
                                        \/ g.lo = Close(l) /\ g.hi = hi
    BY <1>3, <2>2, <2>3
  <2>7. lo < Close(f) => \E g \in later : g.lo = lo /\ g.hi = Close(f)
    BY <1>4, <2>4
  <2>8. Close(l) < hi => \E g \in later : g.lo = Close(l) /\ g.hi = hi
    BY <1>4, <2>5
  <2> HIDE DEF D, lo, hi, R, f, l
  <2>9. \A d \in D : d \in Nat /\ Close(f) <= Close(d) /\ Close(d) <= Close(l) /\ Close(d) = 2 * d
    BY <1>2, <2>1, DaysAreNumbers
  <2>10. Anchored(Close(f), D)
    BY <2>1 DEF Anchored
  <2>11. RangesOK({}, later, D)
    <3>1. \A g \in later : g.lo \in Nat \ {0} /\ g.hi \in Nat /\ g.lo <= g.hi
      <4> TAKE g \in later
      <4>1. f \in Days /\ l \in Days
        BY <1>2, <2>1
      <4>2. Close(f) \in Nat /\ Close(l) \in Nat /\ Close(l) # 0
        BY <4>1, DaysAreNumbers
      <4> QED BY <1>1, <2>6, <4>2
    <3>2. \A g \in later : \A d \in D : Close(d) <= g.lo \/ g.hi <= Close(d)
      BY <2>6, <2>9
    <3>3. ASSUME NEW g \in later, NEW h \in later, g # h
          PROVE  Before(g, h, D) \/ Before(h, g, D)
      <4>1. Close(f) <= Close(l)
        BY <2>1, <2>9
      <4>2. CASE g.lo = lo /\ g.hi = Close(f)
        <5>1. h.lo = Close(l)
          BY <1>5, <2>6, <3>3, <4>2
        <5> QED BY <2>10, <4>1, <4>2, <5>1 DEF Before
      <4>3. CASE g.lo = Close(l) /\ g.hi = hi
        <5>1. h.hi = Close(f)
          BY <1>5, <2>6, <3>3, <4>3
        <5> QED BY <2>10, <4>1, <4>3, <5>1 DEF Before
      <4> QED BY <2>6, <4>2, <4>3
    <3> QED BY <3>1, <3>2, <3>3 DEF RangesOK
  <2>12. SeamsOK(stored, D, later)
    <3>1. \A g \in later, d \in stored : Close(d) = g.lo => d \in D
      <4> SUFFICES ASSUME NEW g \in later, NEW d \in stored, Close(d) = g.lo PROVE d \in D
        OBVIOUS
      <4>1. g.lo = Close(l)
        BY <1>1, <2>6
      <4>2. d = l
        BY <1>2, <2>1, <4>1, DaysAreNumbers
      <4> QED BY <2>1, <4>2
    <3>2. \A g \in later, d \in D : g.hi <= Close(d) => Anchored(g.hi, D)
      <4> SUFFICES ASSUME NEW g \in later, NEW d \in D, g.hi <= Close(d) PROVE Anchored(g.hi, D)
        OBVIOUS
      <4>1. g.hi # hi \/ ~(g.lo = Close(l))
        BY <1>1, <2>1, <2>6, <2>9
      <4> QED BY <2>6, <2>10, <4>1
    <3> QED BY <1>8, <3>1, <3>2 DEF SeamsOK
  <2>13. WantedOK(wanted, D, later)
    <3> SUFFICES ASSUME NEW d \in wanted, d \notin D
                 PROVE  \E g \in later : g.lo <= Close(d) /\ Close(d) <= g.hi
      BY DEF WantedOK
    <3>1. d \in Nat /\ (d < f \/ l < d)
      <4>1. d \in stored /\ d \in Nat /\ f \in Nat /\ l \in Nat /\ d # f /\ d # l
        BY <1>2, <2>1, DaysAreNumbers
      <4>2. ~(f < d /\ d < l)
        BY <1>2, <2>1, <4>1
      <4> QED BY <4>1, <4>2
    <3>2. lo <= Close(d) /\ Close(d) <= hi /\ Close(d) # lo /\ Close(d) # hi /\ Close(d) = 2 * d
      BY <1>1, <1>6, DaysAreNumbers
    <3>3. Close(f) = 2 * f /\ Close(l) = 2 * l /\ f \in Nat /\ l \in Nat
      BY <2>1, <2>9
    <3>4. CASE d < f
      <4>1. lo < Close(f) /\ Close(d) <= Close(f)
        BY <1>1, <3>1, <3>2, <3>3, <3>4
      <4> QED BY <2>7, <3>2, <4>1
    <3>5. CASE l < d
      <4>1. Close(l) < hi /\ Close(l) <= Close(d)
        BY <1>1, <3>1, <3>2, <3>3, <3>5
      <4> QED BY <2>8, <3>2, <4>1
    <3> QED BY <3>1, <3>4, <3>5
  <2>14. HolesOK(stored, D, {}, later)
    <3> SUFFICES ASSUME NEW d \in D, NEW n \in stored \ D, d < n,
                        \/ \E e \in D : n < e
                        \/ \E g \in later : Close(n) <= g.lo
                 PROVE  FALSE
      BY DEF HolesOK
    <3>1. d \in Nat /\ n \in Nat /\ Close(n) = 2 * n /\ f \in Nat /\ l \in Nat
          /\ Close(f) = 2 * f /\ Close(l) = 2 * l /\ f <= d
      BY <1>2, <2>1, <2>9, DaysAreNumbers
    <3>2. ~ \E e \in D : n < e
      BY <1>2
    <3>3. PICK g \in later : Close(n) <= g.lo
      BY <3>2
    <3>4. ~(n < l) /\ n # l
      BY <2>1, <3>2
    <3>5. g.lo # Close(l)
      BY <3>1, <3>3, <3>4
    <3>6. Close(n) < Close(f)
      BY <1>1, <2>6, <3>1, <3>3, <3>5
    <3> QED BY <3>1, <3>6
  <2>15. Consistent(stored, D, wanted, {}, later)
    BY <1>2, <2>11, <2>12, <2>13, <2>14 DEF Consistent
  <2> QED BY <2>15 DEF D
<1> QED BY <1>7, <1>8

(* One of the gaps is taken to be read.                                      *)
LEMMA PickConsistent ==
  ASSUME NEW stored, NEW held, NEW wanted, NEW later, NEW g \in later,
         Consistent(stored, held, wanted, {}, later)
  PROVE  Consistent(stored, held, wanted, {g}, later \ {g})
<1>1. {g} \union (later \ {g}) = later /\ {} \union later = later
  OBVIOUS
<1>2. RangesOK({g}, later \ {g}, held)
  BY <1>1 DEF Consistent, RangesOK
<1>3. HolesOK(stored, held, {g}, later \ {g})
  BY <1>1 DEF Consistent, HolesOK
<1> QED BY <1>1, <1>2, <1>3 DEF Consistent

(* The gap that is being read has been read to its end.                      *)
LEMMA FinishConsistent ==
  ASSUME NEW stored, NEW held, NEW wanted, NEW later, NEW current,
         \A r \in current : r.lo = r.hi,
         Consistent(stored, held, wanted, current, later)
  PROVE  Consistent(stored, held, wanted, {}, later)
<1>1. /\ held \subseteq stored /\ stored \subseteq Days /\ wanted \subseteq stored
      /\ RangesOK(current, later, held) /\ SeamsOK(stored, held, current \union later)
      /\ WantedOK(wanted, held, current \union later) /\ HolesOK(stored, held, current, later)
  BY DEF Consistent
<1>2. \A r \in current, d \in stored : r.lo <= Close(d) /\ Close(d) <= r.hi => d \in held
  <2> SUFFICES ASSUME NEW r \in current, NEW d \in stored, r.lo <= Close(d), Close(d) <= r.hi
               PROVE  d \in held
    OBVIOUS
  <2>1. r.lo \in Nat /\ r.lo = r.hi /\ Close(d) \in Nat
    BY <1>1, DaysAreNumbers DEF RangesOK
  <2>2. Close(d) = r.lo
    BY <2>1
  <2> QED BY <1>1, <2>2 DEF SeamsOK
<1>3. RangesOK({}, later, held)
  BY <1>1 DEF RangesOK
<1>4. SeamsOK(stored, held, {} \union later)
  BY <1>1 DEF SeamsOK
<1>5. WantedOK(wanted, held, {} \union later)
  <2> SUFFICES ASSUME NEW d \in wanted, d \notin held
               PROVE  \E r \in later : r.lo <= Close(d) /\ Close(d) <= r.hi
    BY DEF WantedOK
  <2>1. PICK r \in current \union later : r.lo <= Close(d) /\ Close(d) <= r.hi
    BY <1>1 DEF WantedOK
  <2> QED BY <1>1, <1>2, <2>1
<1>6. HolesOK(stored, held, {}, later)
  BY <1>1, <1>2 DEF HolesOK
<1> QED BY <1>1, <1>3, <1>4, <1>5, <1>6 DEF Consistent

(* With no gap left, what was wanted is held.                                *)
LEMMA EndServes ==
  ASSUME NEW stored, NEW held, NEW wanted, Consistent(stored, held, wanted, {}, {})
  PROVE  wanted \subseteq held
BY DEF Consistent, WantedOK

(* What is saved has no hole, except on the left of the cached bars when the *)
(* gap there is read in several slabs.                                       *)
LEMMA SavedUnbroken ==
  ASSUME NEW stored, NEW held, NEW wanted, NEW later, NEW current,
         \A r \in current : ~(r.lo < r.hi /\ \E d \in held : r.hi <= Close(d)),
         Consistent(stored, held, wanted, current, later)
  PROVE  Unbroken(stored, held)
<1>1. /\ held \subseteq stored /\ stored \subseteq Days
      /\ RangesOK(current, later, held) /\ SeamsOK(stored, held, current \union later)
      /\ HolesOK(stored, held, current, later)
  BY DEF Consistent
<1> SUFFICES ASSUME NEW d \in held, NEW e \in held, NEW n \in stored, d < n, n < e, n \notin held
             PROVE  FALSE
  BY <1>1 DEF Unbroken
<1>2. PICK r \in current : r.lo <= Close(n) /\ Close(n) <= r.hi
  BY <1>1 DEF HolesOK
<1>3. /\ r.lo \in Nat /\ r.hi \in Nat /\ r.lo <= r.hi
      /\ Close(e) <= r.lo \/ r.hi <= Close(e)
  BY <1>1 DEF RangesOK
<1>4. n \in Nat /\ e \in Nat /\ Close(n) = 2 * n /\ Close(e) = 2 * e
  BY <1>1, DaysAreNumbers
<1>5. r.hi <= Close(e)
  BY <1>2, <1>3, <1>4
<1>6. r.lo = r.hi
  BY <1>3, <1>5
<1>7. Close(n) = r.lo
  BY <1>2, <1>3, <1>4, <1>6
<1> QED BY <1>1, <1>7 DEF SeamsOK

(* A ticker that had no bars is backfilled while it is being loaded.         *)
LEMMA BackfilledConsistent ==
  ASSUME NEW held, NEW wanted, NEW current, NEW later, NEW stored, stored \subseteq Days,
         Consistent({}, held, wanted, current, later)
  PROVE  Consistent(stored, held, wanted, current, later)
<1>1. /\ held = {} /\ wanted = {}
      /\ RangesOK(current, later, held) /\ SeamsOK({}, held, current \union later)
  BY DEF Consistent
<1>2. SeamsOK(stored, held, current \union later)
  BY <1>1 DEF SeamsOK
<1>3. WantedOK(wanted, held, current \union later) /\ HolesOK(stored, held, current, later)
  BY <1>1 DEF WantedOK, HolesOK
<1> QED BY <1>1, <1>2, <1>3 DEF Consistent

(* A slab of the gap r is read; s is what is left of it.                     *)
LEMMA FetchConsistent ==
  ASSUME NEW stored, NEW held, NEW wanted, NEW r, NEW s, NEW later, NEW end \in Nat,
         Consistent(stored, held, wanted, {r}, later),
         s.lo = end, s.hi = r.hi, r.lo <= end, end <= r.hi,
         end = r.hi \/ end = r.lo + 2 * Slab
  PROVE  Consistent(stored, held \union {d \in stored : r.lo <= Close(d) /\ Close(d) <= end},
                    wanted, {s}, later)
<1> DEFINE all == held \union {d \in stored : r.lo <= Close(d) /\ Close(d) <= end}
<1>1. /\ held \subseteq stored /\ stored \subseteq Days /\ wanted \subseteq stored
      /\ RangesOK({r}, later, held) /\ SeamsOK(stored, held, {r} \union later)
      /\ WantedOK(wanted, held, {r} \union later) /\ HolesOK(stored, held, {r}, later)
  BY DEF Consistent
<1>2. \A d \in stored : d \in Days /\ d \in Nat /\ Close(d) = 2 * d /\ Close(d) \in Nat
  BY <1>1, DaysAreNumbers
<1>3. /\ held \subseteq all /\ all \subseteq stored
      /\ \A d \in all : d \in held \/ (r.lo <= Close(d) /\ Close(d) <= end)
      /\ \A d \in stored : r.lo <= Close(d) /\ Close(d) <= end => d \in all
  BY <1>1
<1> HIDE DEF all
<1>4. /\ r.lo \in Nat /\ r.lo > 0 /\ r.hi \in Nat
      /\ \A d \in held : Close(d) <= r.lo \/ r.hi <= Close(d)
      /\ \A g \in later : /\ g.lo \in Nat /\ g.lo > 0 /\ g.hi \in Nat /\ g.lo <= g.hi
                          /\ \A d \in held : Close(d) <= g.lo \/ g.hi <= Close(d)
                          /\ Before(r, g, held) \/ Before(g, r, held)
  BY <1>1 DEF RangesOK
<1>5. \A x : Anchored(x, held) => Anchored(x, all)
  BY <1>3 DEF Anchored
<1>6. \A g, h : Before(g, h, held) => Before(g, h, all)
  BY <1>5 DEF Before
<1>7. RangesOK({s}, later, all)
  <2>1. \A d \in all : Close(d) <= s.lo \/ s.hi <= Close(d)
    BY <1>1, <1>2, <1>3, <1>4
  <2>2. ASSUME NEW g \in later, NEW d \in all
        PROVE  Close(d) <= g.lo \/ g.hi <= Close(d)
    <3>1. CASE d \in held
      BY <1>4, <3>1
    <3>2. CASE r.lo <= Close(d) /\ Close(d) <= end
      <4>1. d \in stored
        BY <1>3
      <4>2. r.hi <= g.lo \/ g.hi <= r.lo
        BY <1>4 DEF Before
      <4> QED BY <1>2, <1>4, <3>2, <4>1, <4>2
    <3> QED BY <1>3, <3>1, <3>2
  <2>3. ASSUME NEW g \in later PROVE Before(s, g, all) \/ Before(g, s, all)
    <3>1. CASE Before(r, g, held)
      BY <1>5, <3>1 DEF Before
    <3>2. CASE Before(g, r, held)
      BY <1>4, <1>5, <3>2 DEF Before
    <3> QED BY <1>4, <3>1, <3>2
  <2>4. \A g, h \in later : g = h \/ Before(g, h, all) \/ Before(h, g, all)
    BY <1>1, <1>6 DEF RangesOK
  <2>5. \A g \in {s} \union later : /\ g.lo \in Nat \ {0} /\ g.hi \in Nat /\ g.lo <= g.hi
                                    /\ \A d \in all : Close(d) <= g.lo \/ g.hi <= Close(d)
    BY <1>4, <2>1, <2>2
  <2> QED BY <2>3, <2>4, <2>5 DEF RangesOK
<1>8. SeamsOK(stored, all, {s} \union later)
  <2>1. \A g \in {s} \union later, d \in stored : Close(d) = g.lo => d \in all
    BY <1>1, <1>2, <1>3, <1>4 DEF SeamsOK
  <2>2. ASSUME NEW g \in {s} \union later, NEW d \in Days, Close(d) \in {g.lo, g.hi}
        PROVE  all # {}
    <3>1. SUFFICES held # {}
      BY <1>3
    <3>2. CASE g \in later \/ Close(d) = r.hi
      BY <1>1, <2>2, <3>2 DEF SeamsOK
    <3>3. CASE g = s /\ Close(d) = end /\ end = r.lo + 2 * Slab
      <4>1. d - Slab \in Days /\ Close(d - Slab) = r.lo
        <5>1. /\ d \in Nat /\ Slab \in Nat /\ d <= LastDay /\ LastDay \in Nat
              /\ 2 * d = r.lo + 2 * Slab
          BY <3>3, DaysAreNumbers
        <5>2. d - Slab \in Nat /\ 1 <= d - Slab /\ d - Slab <= LastDay /\ 2 * (d - Slab) = r.lo
          BY <1>4, <5>1
        <5> QED BY <5>2, DaysAreNumbers
      <4> QED BY <1>1, <4>1 DEF SeamsOK
    <3> QED BY <2>2, <3>2, <3>3
  <2>3. ASSUME NEW g \in {s} \union later, NEW d \in all, g.hi <= Close(d)
        PROVE  Anchored(g.hi, all)
    <3>1. CASE d \in held
      BY <1>1, <1>5, <2>3, <3>1 DEF SeamsOK
    <3>2. CASE r.lo <= Close(d) /\ Close(d) <= end
      <4>1. d \in stored
        BY <1>3
      <4>2. CASE g = s
        <5>1. Close(d) = g.hi
          BY <1>2, <1>4, <2>3, <3>2, <4>1, <4>2
        <5> QED BY <5>1 DEF Anchored
      <4>3. CASE g \in later /\ Before(r, g, held)
        <5>1. Close(d) = g.hi
          BY <1>2, <1>4, <2>3, <3>2, <4>1, <4>3 DEF Before
        <5> QED BY <5>1 DEF Anchored
      <4>4. CASE g \in later /\ Before(g, r, held)
        BY <1>5, <4>4 DEF Before
      <4> QED BY <1>4, <4>2, <4>3, <4>4
    <3> QED BY <1>3, <3>1, <3>2
  <2> QED BY <2>1, <2>2, <2>3 DEF SeamsOK
<1>9. WantedOK(wanted, all, {s} \union later)
  <2> SUFFICES ASSUME NEW d \in wanted, d \notin all
               PROVE  \E g \in {s} \union later : g.lo <= Close(d) /\ Close(d) <= g.hi
    BY DEF WantedOK
  <2>1. PICK g \in {r} \union later : g.lo <= Close(d) /\ Close(d) <= g.hi
    BY <1>1, <1>3 DEF WantedOK
  <2>2. CASE g \in later
    BY <2>1, <2>2
  <2>3. CASE g = r
    <3>1. ~(Close(d) <= end) /\ Close(d) \in Nat
      BY <1>1, <1>2, <1>3, <2>1, <2>3
    <3>2. s.lo <= Close(d) /\ Close(d) <= s.hi
      BY <2>1, <2>3, <3>1
    <3> QED BY <3>2
  <2> QED BY <2>2, <2>3
<1>10. HolesOK(stored, all, {s}, later)
  <2> SUFFICES ASSUME NEW d \in all, NEW n \in stored \ all, d < n,
                      \/ \E e \in all : n < e
                      \/ \E g \in {s} \union later : Close(n) <= g.lo
               PROVE  s.lo <= Close(n) /\ Close(n) <= s.hi
    BY DEF HolesOK
  <2>1. /\ n \in Nat /\ Close(n) = 2 * n /\ d \in Nat /\ Close(d) = 2 * d
        /\ n \notin held /\ (Close(n) < r.lo \/ end < Close(n))
    BY <1>2, <1>3, <1>4
  <2>2. ASSUME NEW b \in held, b < n,
               \/ \E e \in held : n < e
               \/ \E g \in {r} \union later : Close(n) <= g.lo
        PROVE  r.lo <= Close(n) /\ Close(n) <= r.hi
    BY <1>1, <2>1, <2>2 DEF HolesOK
  <2>3. ASSUME NEW e \in all, n < e
        PROVE  e \in held \/ Close(n) < end
    BY <1>2, <1>3, <2>1, <2>3
  <2>4. CASE d \in held
    <3>1. ~(Close(n) < r.lo)
      BY <1>4, <2>1, <2>2, <2>4
    <3>2. end < Close(n)
      BY <2>1, <3>1
    <3>3. \/ \E e \in held : n < e
          \/ \E g \in {r} \union later : Close(n) <= g.lo
      BY <2>1, <2>3, <3>2
    <3>4. Close(n) <= r.hi
      BY <2>2, <2>4, <3>3
    <3> QED BY <2>1, <3>2, <3>4
  <2>5. CASE r.lo <= Close(d) /\ Close(d) <= end
    <3>1. end < Close(n)
      BY <2>1, <2>5, <1>4
    <3>2. ASSUME r.hi < Close(n), Anchored(r.hi, held),
                 \/ \E e \in held : n < e
                 \/ \E g \in {r} \union later : Close(n) <= g.lo
          PROVE  FALSE
      <4>1. PICK m \in held : Close(m) = r.hi
        BY <3>2 DEF Anchored
      <4>2. m < n
        BY <1>1, <1>2, <2>1, <3>2, <4>1
      <4> QED BY <1>4, <2>1, <2>2, <3>2, <4>2
    <3>3. CASE \E e \in all : n < e
      <4>1. PICK e \in all : n < e
        BY <3>3
      <4>2. e \in held
        BY <2>1, <2>3, <3>1, <4>1
      <4>3. r.hi < Close(n) => Anchored(r.hi, held)
        <5> SUFFICES ASSUME r.hi < Close(n) PROVE Anchored(r.hi, held)
          OBVIOUS
        <5>1. r.hi <= Close(e)
          BY <1>1, <1>2, <1>4, <2>1, <4>1, <4>2
        <5> QED BY <1>1, <4>2, <5>1 DEF SeamsOK
      <4> QED BY <1>4, <2>1, <3>1, <3>2, <4>1, <4>2, <4>3
    <3>4. CASE \E g \in later : Close(n) <= g.lo
      <4>1. PICK g \in later : Close(n) <= g.lo
        BY <3>4
      <4>2. Before(r, g, held)
        <5>1. ~(g.hi <= r.lo)
          BY <1>4, <2>1, <3>1, <4>1
        <5> QED BY <1>4, <5>1 DEF Before
      <4>3. Anchored(r.hi, held)
        BY <4>2 DEF Before
      <4> QED BY <1>4, <2>1, <3>1, <3>2, <4>1, <4>3
    <3>5. ~(Close(n) <= s.lo)
      BY <2>1, <3>1
    <3> QED BY <3>3, <3>4, <3>5
  <2> QED BY <1>3, <2>4, <2>5
<1>11. Consistent(stored, all, wanted, {s}, later)
  BY <1>1, <1>3, <1>7, <1>8, <1>9, <1>10 DEF Consistent
<1> QED BY <1>11 DEF all

-----------------------------------------------------------------------------
(* The records of the jobs.                                                  *)

LEMMA MissingTyped ==
  ASSUME NEW bars, NEW lo \in Nat, NEW hi \in Nat, lo <= hi
  PROVE  \A r \in Missing(bars, lo, hi) : r.lo \in Nat /\ r.hi \in Nat /\ r.lo <= r.hi
<1> DEFINE D == Held(bars)
<1>1. CASE D = {}
  BY <1>1 DEF Missing
<1>2. CASE D # {}
  <2>1. D \subseteq Days
    BY DEF Held
  <2>2. First(D) \in Days /\ Final(D) \in Days
    <3> HIDE DEF D
    <3> QED BY <1>2, <2>1, FirstAndFinal
  <2>3. Close(First(D)) \in Nat /\ Close(Final(D)) \in Nat
    BY <2>2, DaysAreNumbers
  <2> QED BY <1>2, <2>3 DEF Missing
<1> QED BY <1>1, <1>2

LEMMA GapsTyped ==
  ASSUME NEW bars, NEW lo \in Nat, NEW hi \in Nat, lo <= hi
  PROVE  Gaps(bars, lo, hi) \subseteq GapRecords
<1> DEFINE miss(s) == Missing(bars[s], lo, hi)
           who(r) == {s \in Tickers : r \in miss(s)}
<1>1. \A s \in Tickers : \A r \in miss(s) : r.lo \in Nat /\ r.hi \in Nat /\ r.lo <= r.hi
  BY MissingTyped
<1>2. Gaps(bars, lo, hi) = {[lo |-> r.lo, hi |-> r.hi, tickers |-> who(r)] :
                               r \in UNION {miss(s) : s \in Tickers}}
  BY DEF Gaps
<1>3. \A r : who(r) \subseteq Tickers
  OBVIOUS
<1> HIDE DEF miss, who
<1> SUFFICES ASSUME NEW g \in Gaps(bars, lo, hi) PROVE g \in GapRecords
  OBVIOUS
<1>4. PICK r \in UNION {miss(s) : s \in Tickers} :
        g = [lo |-> r.lo, hi |-> r.hi, tickers |-> who(r)]
  BY <1>2
<1>5. PICK s \in Tickers : r \in miss(s)
  OBVIOUS
<1> QED BY <1>1, <1>3, <1>4, <1>5 DEF GapRecords

LEMMA EmptyBars == NoBars \in Bars /\ Held(NoBars) = {} /\ AllWhole(NoBars)
BY DEF NoBars, Bars, Held, AllWhole

LEMMA NoJobTyped == NoJob \in JobRecords
<1>1. NoGap \in GapRecords
  BY DEF NoGap, GapRecords
<1> QED BY <1>1, EmptyBars DEF NoJob, JobRecords

(* A job goes on to splice the caches or to one of the gaps.                 *)
Moved(j, gaps, k) ==
    /\ k.bars = j.bars /\ k.want = j.want /\ k.from = j.from /\ k.to = j.to
    /\ \/ k.pc = "splice" /\ gaps = {} /\ k.gaps = {} /\ k.gap = NoGap
       \/ k.pc = "fetch" /\ \E g \in gaps : k.gap = g /\ k.at = g.lo /\ k.gaps = gaps \ {g}

LEMMA NextGapMoves ==
  ASSUME NEW j \in JobRecords, NEW gaps, gaps \subseteq GapRecords, NEW k \in NextGap(j, gaps)
  PROVE  k \in JobRecords /\ Moved(j, gaps, k)
<1>1. CASE gaps = {}
  <2>1. k = [j EXCEPT !.pc = "splice", !.gaps = {}, !.gap = NoGap, !.at = 0]
    BY <1>1 DEF NextGap
  <2>2. NoGap \in GapRecords
    BY DEF NoGap, GapRecords
  <2>3. k \in JobRecords
    BY <2>1, <2>2 DEF JobRecords
  <2>4. Moved(j, gaps, k)
    BY <1>1, <2>1 DEF Moved, JobRecords
  <2> QED BY <2>3, <2>4
<1>2. CASE gaps # {}
  <2>1. PICK g \in gaps :
          k = [j EXCEPT !.pc = "fetch", !.gaps = gaps \ {g}, !.gap = g, !.at = g.lo]
    BY <1>2 DEF NextGap
  <2>2. g \in GapRecords /\ g.lo \in Nat
    BY DEF GapRecords
  <2>3. k \in JobRecords
    BY <2>1, <2>2 DEF JobRecords
  <2>4. Moved(j, gaps, k)
    BY <2>1 DEF Moved, JobRecords
  <2> QED BY <2>3, <2>4
<1> QED BY <1>1, <1>2

LEMMA LoadTyped ==
  ASSUME BarTypes, NEW t \in Tickers
  PROVE  Load(t) \in Bars
BY EmptyBars DEF BarTypes, Load

LEMMA SlabBounds ==
  ASSUME BarTypes, NEW w \in Workers
  PROVE  /\ job[w] \in JobRecords /\ job[w].at \in Nat /\ Gap(w) \in GapRecords
         /\ Gap(w).lo \in Nat /\ Gap(w).hi \in Nat
         /\ SlabEnd(w) \in Nat /\ SlabEnd(w) <= Gap(w).hi
         /\ SlabEnd(w) = Gap(w).hi \/ SlabEnd(w) = job[w].at + 2 * Slab
         /\ job[w].at <= Gap(w).hi => job[w].at <= SlabEnd(w)
<1>1. job[w] \in JobRecords
  BY DEF BarTypes
<1>2. job[w].at \in Nat /\ Gap(w) \in GapRecords
  BY <1>1 DEF JobRecords, Gap
<1>3. Gap(w).lo \in Nat /\ Gap(w).hi \in Nat
  BY <1>2 DEF GapRecords
<1>4. Slab \in Nat
  BY DaysAreNumbers
<1> QED BY <1>1, <1>2, <1>3, <1>4 DEF SlabEnd

LEMMA BarTypesStep ==
  ASSUME BarTypes, [Next]_vars
  PROVE  BarTypes'
<1> USE DEF BarTypes
<1>1. ASSUME NEW t \in Tickers, NEW d \in Days, AppendBar(t, d) PROVE BarTypes'
  BY <1>1 DEF AppendBar
<1>2. ASSUME NEW w \in Workers, NEW from \in Days, NEW to \in Days, LoadStart(w, from, to)
      PROVE  BarTypes'
  <2> DEFINE cached == [t \in Tickers |-> Load(t)]
             j == [NoJob EXCEPT !.from = from, !.to = to, !.bars = cached,
                                !.want = [t \in Tickers |-> table[t] \intersect (from..to)]]
             gaps == Gaps(cached, Midnight(from), DayEnd(to))
  <2>1. PICK k \in NextGap(j, gaps) : job' = [job EXCEPT ![w] = k]
    BY <1>2 DEF LoadStart
  <2>2. j \in JobRecords
    <3>1. from \in Nat /\ to \in Nat
      BY DaysAreNumbers
    <3>2. cached \in [Tickers -> Bars]
      BY LoadTyped
    <3>3. [t \in Tickers |-> table[t] \intersect (from..to)] \in [Tickers -> SUBSET Days]
      OBVIOUS
    <3> HIDE DEF cached
    <3> QED BY <3>1, <3>2, <3>3, NoJobTyped DEF JobRecords
  <2>3. Midnight(from) \in Nat /\ DayEnd(to) \in Nat /\ Midnight(from) <= DayEnd(to)
    BY <1>2, DaysAreNumbers DEF LoadStart, Midnight, DayEnd
  <2>4. gaps \subseteq GapRecords
    BY <2>3, GapsTyped
  <2> HIDE DEF j, gaps
  <2>5. k \in JobRecords
    BY <2>1, <2>2, <2>4, NextGapMoves
  <2> QED BY <1>2, <2>1, <2>5 DEF LoadStart
<1>3. ASSUME NEW w \in Workers, FetchSlab(w) PROVE BarTypes'
  <2> DEFINE new == [t \in Tickers |-> IF t \in Gap(w).tickers
                                       THEN Rows(t, job[w].at, SlabEnd(w)) ELSE NoBars]
             all == [t \in Tickers |-> Merge(job[w].bars[t], new[t])]
             got == {t \in Tickers : Held(new[t]) # {}}
  <2>1. job' = [job EXCEPT ![w] = [job[w] EXCEPT !.pc = "save", !.bars = all, !.save = got]]
    BY <1>3 DEF FetchSlab
  <2>2. job[w] \in JobRecords /\ job[w].bars \in [Tickers -> Bars]
    BY DEF JobRecords
  <2>3. new \in [Tickers -> Bars]
    BY SlabBounds, EmptyBars DEF Rows, Bars
  <2> HIDE DEF new
  <2>4. all \in [Tickers -> Bars]
    BY <2>2, <2>3 DEF Merge, Bars
  <2> HIDE DEF all, got
  <2>5. got \in SUBSET Tickers
    BY DEF got
  <2>6. [job[w] EXCEPT !.pc = "save", !.bars = all, !.save = got] \in JobRecords
    BY <2>2, <2>4, <2>5 DEF JobRecords
  <2> QED BY ZenonT(60), <1>3, <2>1, <2>6 DEF FetchSlab
<1>4. ASSUME NEW w \in Workers, JobFails(w) PROVE BarTypes'
  BY <1>4, NoJobTyped DEF JobFails
<1>5. ASSUME NEW w \in Workers, NEW t \in Tickers, SaveStart(w, t) PROVE BarTypes'
  <2>1. job' \in [Workers -> JobRecords]
    <3>1. job' = [job EXCEPT ![w] = [job[w] EXCEPT !.writing = t]]
      BY <1>5 DEF SaveStart
    <3>2. [job[w] EXCEPT !.writing = t] \in JobRecords
      BY DEF JobRecords
    <3> QED BY <3>1, <3>2
  <2>2. file' \in [Tickers -> [state : {"absent", "torn", "whole"}, bars : Bars]]
    BY <1>5 DEF SaveStart
  <2> QED BY <1>5, <2>1, <2>2 DEF SaveStart
<1>6. ASSUME NEW w \in Workers, NEW t \in Tickers, SaveEnd(w, t) PROVE BarTypes'
  <2>1. job' \in [Workers -> JobRecords]
    <3> DEFINE next == [job[w] EXCEPT !.writing = NoTicker, !.save = job[w].save \ {t}]
    <3>1. job' = [job EXCEPT ![w] = next]
      BY <1>6 DEF SaveEnd
    <3>2. next \in JobRecords
      BY ZenonT(60) DEF JobRecords
    <3> HIDE DEF next
    <3> QED BY <3>1, <3>2
  <2>2. job[w].bars[t] \in Bars
    BY DEF JobRecords
  <2>3. file' \in [Tickers -> [state : {"absent", "torn", "whole"}, bars : Bars]]
    BY <1>6, <2>2 DEF SaveEnd
  <2> QED BY <1>6, <2>1, <2>3 DEF SaveEnd
<1>7. ASSUME NEW w \in Workers, SlabDone(w) PROVE BarTypes'
  <2>1. job[w] \in JobRecords /\ job[w].gaps \subseteq GapRecords /\ SlabEnd(w) \in Nat
    BY SlabBounds DEF JobRecords
  <2>2. CASE job' = [job EXCEPT ![w].pc = "fetch", ![w].at = SlabEnd(w)]
    <3>1. [job[w] EXCEPT !.pc = "fetch", !.at = SlabEnd(w)] \in JobRecords
      BY <2>1 DEF JobRecords
    <3> QED BY <1>7, <2>2, <3>1 DEF SlabDone
  <2>3. ASSUME NEW k \in NextGap(job[w], job[w].gaps), job' = [job EXCEPT ![w] = k]
        PROVE  BarTypes'
    <3>1. k \in JobRecords
      BY <2>1, NextGapMoves
    <3> QED BY <1>7, <2>3, <3>1 DEF SlabDone
  <2> QED BY <1>7, <2>2, <2>3 DEF SlabDone
<1>8. ASSUME NEW w \in Workers, Serve(w) PROVE BarTypes'
  <2> DEFINE cut == [t \in Tickers |-> [d \in Days |-> IF d \in job[w].from..job[w].to
                                                       THEN job[w].bars[t][d] ELSE "none"]]
  <2>1. job[w] \in JobRecords /\ job[w].bars \in [Tickers -> Bars]
    BY DEF JobRecords
  <2>2. cut \in [Tickers -> Bars]
    BY <2>1 DEF Bars
  <2>3. job' = [job EXCEPT ![w] = [job[w] EXCEPT !.pc = "served", !.bars = cut]]
    BY <1>8 DEF Serve
  <2> HIDE DEF cut
  <2>4. [job[w] EXCEPT !.pc = "served", !.bars = cut] \in JobRecords
    BY <2>1, <2>2 DEF JobRecords
  <2> QED BY <1>8, <2>3, <2>4 DEF Serve
<1>9. ASSUME NEW l \in Loaders, LoaderStep(l) PROVE BarTypes'
  <2>1. CASE Committed(l)
    <3>1. PICK rows \in History(loader[l].at), wrote \in SUBSET Tickers :
             Insert(l, loader[l].at, rows, wrote)
      BY <2>1 DEF Committed
    <3>2. rows \subseteq Days
      BY DEF History
    <3>3. table' \in [Tickers -> SUBSET Days]
      BY <3>1, <3>2 DEF Insert
    <3> QED BY <2>1, <3>3 DEF Committed
  <2>2. CASE ~Committed(l)
    BY <1>9, <2>2 DEF LoaderStep, Coverage, Place, Placed, Skipped, BackfillRaises, BackfillEnds,
      barVars
  <2> QED BY <2>1, <2>2
<1>10. ASSUME UNCHANGED barVars PROVE BarTypes'
  BY <1>10 DEF barVars
<1>11. ASSUME SymbolStep PROVE BarTypes' \/ UNCHANGED barVars
  BY <1>9, <1>11 DEF SymbolStep, CallerStep, Ask, IndexBars, IndexRuns, Enter, Acquire, Retry, Keep,
     Publish, RequestFails, Pop, Fallback, Yahoo, Answered, Forget, IndexExpires
<1>12. ASSUME BarStep PROVE BarTypes'
  BY <1>1, <1>2, <1>3, <1>4, <1>5, <1>6, <1>7, <1>8, <1>12 DEF BarStep
<1> QED BY <1>10, <1>11, <1>12 DEF Next, vars

-----------------------------------------------------------------------------
(* Each step keeps the invariant.                                            *)

(* Nothing that a load depends on has changed.                               *)
SameLoad(w) ==
    /\ job'[w].pc = job[w].pc /\ job'[w].gaps = job[w].gaps /\ job'[w].gap = job[w].gap
    /\ job'[w].at = job[w].at /\ job'[w].bars = job[w].bars /\ job'[w].want = job[w].want
    /\ job'[w].from = job[w].from /\ job'[w].to = job[w].to

LEMMA LoadKept ==
  ASSUME NEW w, JobOK(w), SameLoad(w), table' = table, stepped \subseteq stepped'
  PROVE  JobOK(w)'
BY DEF JobOK, SameLoad, Busy, Current, Later, Gap, Reach, SlabEnd

LEMMA FilesKept ==
  ASSUME FilesOK, file' = file, table' = table, stepped' = stepped
  PROVE  FilesOK'
BY DEF FilesOK

(* The job of w has moved on to a gap or to the splice.                      *)
LEMMA MovedOn ==
  ASSUME NEW w, NEW j, NEW gaps, gaps \subseteq GapRecords, NEW k, Moved(j, gaps, k),
         job'[w] = k,
         \A t \in Tickers : j.want[t] \subseteq j.from..j.to,
         \A t \in Tickers \ stepped' :
            /\ AllWhole(j.bars[t])
            /\ Consistent(table'[t], Held(j.bars[t]), j.want[t], {}, {g \in gaps : t \in g.tickers})
  PROVE  JobOK(w)' /\ job'[w].pc # "served"
<1>1. /\ k.bars = j.bars /\ k.want = j.want /\ k.from = j.from /\ k.to = j.to
      /\ job'[w].pc # "served"
  BY DEF Moved
<1>2. CASE k.pc = "splice" /\ gaps = {} /\ k.gaps = {} /\ k.gap = NoGap
  <2>1. \A t \in Tickers : /\ Current(w, t)' = {} /\ Later(w, t)' = {}
                          /\ {g \in gaps : t \in g.tickers} = {}
    BY <1>2 DEF Current, Later, Gap, NoGap
  <2> QED BY <1>1, <1>2, <2>1 DEF JobOK
<1>3. CASE k.pc = "fetch" /\ \E g \in gaps : k.gap = g /\ k.at = g.lo /\ k.gaps = gaps \ {g}
  <2>1. PICK g \in gaps : k.gap = g /\ k.at = g.lo /\ k.gaps = gaps \ {g}
    BY <1>3
  <2>2. g \in [lo : Nat, hi : Nat, tickers : SUBSET Tickers] /\ g.lo <= g.hi
    BY DEF GapRecords
  <2>3. [g EXCEPT !.lo = g.lo] = g
    BY <2>2
  <2>4. ASSUME NEW t \in Tickers \ stepped'
        PROVE  Consistent(table'[t], Held(k.bars[t]), k.want[t], Current(w, t)', Later(w, t)')
    <3> DEFINE mine == {h \in gaps : t \in h.tickers}
    <3>1. Consistent(table'[t], Held(k.bars[t]), k.want[t], {}, mine)
      BY <1>1
    <3>2. CASE t \in g.tickers
      <4>1. Current(w, t)' = {g}
        BY <1>3, <2>1, <2>3, <3>2 DEF Current, Gap, Reach
      <4>2. Later(w, t)' = mine \ {g}
        BY <2>1 DEF Later
      <4>3. g \in mine
        BY <3>2
      <4> HIDE DEF mine
      <4> QED BY <3>1, <4>1, <4>2, <4>3, PickConsistent
    <3>3. CASE t \notin g.tickers
      <4>1. Current(w, t)' = {}
        BY <2>1, <3>3 DEF Current, Gap
      <4>2. Later(w, t)' = mine
        BY <2>1, <3>3 DEF Later
      <4> QED BY <3>1, <4>1, <4>2
    <3> QED BY <3>2, <3>3
  <2>5. k.at <= Gap(w)'.hi
    BY <2>1, <2>2 DEF Gap
  <2>6. \A t \in Tickers : k.want[t] \subseteq k.from..k.to
    BY <1>1
  <2>7. \A t \in Tickers \ stepped' : AllWhole(k.bars[t])
    BY <1>1
  <2> QED BY <1>1, <1>3, <2>4, <2>5, <2>6, <2>7 DEF JobOK
<1> QED BY <1>2, <1>3 DEF Moved

(* Only the job of w changed, and w was not served.                          *)
LEMMA OnlyJob ==
  ASSUME NEW w \in Workers, BarsInvariant, BarTypes', FilesOK', table' = table,
         stepped \subseteq stepped',
         \A v \in Workers \ {w} : job'[v] = job[v],
         JobOK(w)', job'[w].pc # "served"
  PROVE  BarsInvariant'
<1>1. \A v \in Workers \ {w} : JobOK(v)'
  <2> SUFFICES ASSUME NEW v \in Workers \ {w} PROVE JobOK(v)'
    OBVIOUS
  <2>1. SameLoad(v) /\ JobOK(v)
    BY DEF SameLoad, BarsInvariant
  <2> QED BY <2>1, LoadKept
<1>2. ServedWhole'
  BY DEF BarsInvariant, ServedWhole
<1> QED BY <1>1, <1>2 DEF BarsInvariant

LEMMA LoadStartKeeps ==
  ASSUME BarsInvariant, BarTypes', NEW w \in Workers, NEW from \in Days, NEW to \in Days,
         LoadStart(w, from, to)
  PROVE  BarsInvariant'
<1> DEFINE cached == [t \in Tickers |-> Load(t)]
           wanted == [t \in Tickers |-> table[t] \intersect (from..to)]
           j == [NoJob EXCEPT !.from = from, !.to = to, !.bars = cached, !.want = wanted]
           gaps == Gaps(cached, Midnight(from), DayEnd(to))
<1>1. BarTypes /\ FilesOK /\ from <= to
  BY DEF BarsInvariant, LoadStart
<1>2. PICK k \in NextGap(j, gaps) : job' = [job EXCEPT ![w] = k]
  BY DEF LoadStart
<1>3. Midnight(from) \in Nat /\ DayEnd(to) \in Nat /\ Midnight(from) <= DayEnd(to)
  BY <1>1, DaysAreNumbers DEF Midnight, DayEnd
<1>4. gaps \subseteq GapRecords
  BY <1>3, GapsTyped
<1>5. j.bars = cached /\ j.want = wanted /\ j.from = from /\ j.to = to
  BY DEF NoJob
<1>6. j \in JobRecords
  <2>1. from \in Nat /\ to \in Nat
    BY DaysAreNumbers
  <2>2. cached \in [Tickers -> Bars]
    BY <1>1, LoadTyped
  <2>3. wanted \in [Tickers -> SUBSET Days]
    BY <1>1 DEF BarTypes
  <2> HIDE DEF cached, wanted
  <2> QED BY <2>1, <2>2, <2>3, NoJobTyped DEF JobRecords
<1>7. ASSUME NEW t \in Tickers \ stepped
      PROVE  /\ AllWhole(cached[t])
             /\ Consistent(table[t], Held(cached[t]), wanted[t], {}, {g \in gaps : t \in g.tickers})
  <2>1. AllWhole(cached[t]) /\ Unbroken(table[t], Held(cached[t]))
    <3>1. Unbroken(table[t], {})
      BY DEF Unbroken
    <3> QED BY <1>1, <3>1, EmptyBars DEF FilesOK, Load
  <2>2. Shares({g \in gaps : t \in g.tickers}, Missing(cached[t], Midnight(from), DayEnd(to)))
    BY GapsView
  <2>3. table[t] \subseteq Days /\ wanted[t] \subseteq table[t] /\ wanted[t] \subseteq from..to
    BY <1>1 DEF BarTypes
  <2> HIDE DEF cached, wanted, gaps
  <2> QED BY <1>1, <2>1, <2>2, <2>3, StartConsistent
<1>8. \A t \in Tickers : wanted[t] \subseteq from..to
  OBVIOUS
<1> HIDE DEF cached, wanted, j, gaps
<1>9. Moved(j, gaps, k)
  BY <1>2, <1>4, <1>6, NextGapMoves
<1>10. /\ table' = table /\ stepped' = stepped /\ file' = file
       /\ job'[w] = k /\ \A v \in Workers \ {w} : job'[v] = job[v]
  BY <1>1, <1>2 DEF LoadStart, BarTypes
<1>11. JobOK(w)' /\ job'[w].pc # "served"
  BY <1>4, <1>5, <1>7, <1>8, <1>9, <1>10, MovedOn
<1>12. FilesOK'
  BY <1>1, <1>10, FilesKept
<1> QED BY <1>10, <1>11, <1>12, OnlyJob

LEMMA FetchSlabKeeps ==
  ASSUME BarsInvariant, BarTypes', NEW w \in Workers, FetchSlab(w)
  PROVE  BarsInvariant'
<1> DEFINE new == [t \in Tickers |-> IF t \in Gap(w).tickers
                                     THEN Rows(t, job[w].at, SlabEnd(w)) ELSE NoBars]
           all == [t \in Tickers |-> Merge(job[w].bars[t], new[t])]
           got == {t \in Tickers : Held(new[t]) # {}}
<1>1. BarTypes /\ FilesOK /\ JobOK(w) /\ job[w].pc = "fetch" /\ job[w].at <= Gap(w).hi
  BY DEF BarsInvariant, FetchSlab, JobOK
<1>2. job' = [job EXCEPT ![w] = [job[w] EXCEPT !.pc = "save", !.bars = all, !.save = got]]
  BY DEF FetchSlab
<1>3. table' = table /\ stepped' = stepped /\ file' = file
  BY DEF FetchSlab
<1> HIDE DEF got
<1>4. job \in [Workers -> JobRecords] /\ job[w] \in JobRecords
  BY <1>1 DEF BarTypes
<1>5. job'[w] = [job[w] EXCEPT !.pc = "save", !.bars = all, !.save = got]
  BY <1>2, <1>4
<1>6. /\ job'[w].pc = "save" /\ job'[w].bars = all /\ job'[w].gaps = job[w].gaps
      /\ job'[w].gap = job[w].gap /\ job'[w].at = job[w].at /\ job'[w].want = job[w].want
      /\ job'[w].from = job[w].from /\ job'[w].to = job[w].to
      /\ \A v \in Workers \ {w} : job'[v] = job[v]
  <2> HIDE DEF all
  <2> QED BY <1>2, <1>4, <1>5 DEF JobRecords
<1>7. ASSUME NEW t \in Tickers \ stepped
      PROVE  AllWhole(all[t])
             /\ Consistent(table[t], Held(all[t]), job[w].want[t], Current(w, t)', Later(w, t)')
  <2> DEFINE old == job[w].bars[t]
             lo == job[w].at
             hi == SlabEnd(w)
  <2>1. /\ AllWhole(old)
        /\ Consistent(table[t], Held(old), job[w].want[t], Current(w, t), Later(w, t))
    BY <1>1 DEF JobOK, Busy
  <2>2. old \in Bars /\ table[t] \subseteq Days
    BY <1>1, <1>4 DEF JobRecords, BarTypes
  <2>3. Later(w, t)' = Later(w, t)
    BY <1>6 DEF Later
  <2>4. CASE t \notin Gap(w).tickers
    <3>1. Current(w, t) = {} /\ Current(w, t)' = {}
      BY <1>6, <2>4 DEF Current, Gap
    <3>2. all[t] = old
      <4>1. all[t] = Merge(old, NoBars)
        BY <2>4
      <4>2. Merge(old, NoBars) = old
        BY <2>2 DEF Merge, NoBars, Bars
      <4> QED BY <4>1, <4>2
    <3> QED BY <2>1, <2>3, <3>1, <3>2
  <2>5. CASE t \in Gap(w).tickers
    <3> DEFINE r == [Gap(w) EXCEPT !.lo = lo]
               s == [Gap(w) EXCEPT !.lo = hi]
    <3>1. /\ Gap(w) \in [lo : Nat, hi : Nat, tickers : SUBSET Tickers]
          /\ lo \in Nat /\ hi \in Nat /\ lo <= hi /\ hi <= Gap(w).hi
          /\ hi = Gap(w).hi \/ hi = lo + 2 * Slab
      BY <1>1, SlabBounds DEF GapRecords
    <3>2. r.lo = lo /\ r.hi = Gap(w).hi /\ s.lo = hi /\ s.hi = Gap(w).hi
      BY <3>1
    <3>3. Current(w, t) = {r} /\ Current(w, t)' = {s}
      BY <1>1, <1>6, <2>5 DEF Current, Reach, Gap, SlabEnd
    <3>4. all[t] = Merge(old, Rows(t, lo, hi))
      BY <2>5
    <3> HIDE DEF r, s, lo, hi, old, all
    <3>5. Consistent(table[t], Held(old), job[w].want[t], {r}, Later(w, t))
      BY <2>1, <3>3
    <3>6. \A d \in Days : d \in table[t] /\ Close(d) = lo => d \in Held(old)
      BY <3>2, <3>5 DEF Consistent, SeamsOK
    <3>7. Held(all[t]) = Held(old) \union {d \in table[t] : r.lo <= Close(d) /\ Close(d) <= hi}
      <4>1. \A d : d \in Held(all[t]) <=>
                     \/ d \in Held(old)
                     \/ d \in Days /\ d \in table[t] /\ lo <= Close(d) /\ Close(d) <= hi
        BY <2>2, <3>1, <3>4, RowsView
      <4> QED BY <2>2, <3>2, <4>1
    <3>8. AllWhole(all[t])
      BY <2>1, <2>2, <3>1, <3>4, <3>6, RowsView
    <3>9. Consistent(table[t], Held(all[t]), job[w].want[t], {s}, Later(w, t))
      BY <3>1, <3>2, <3>5, <3>7, FetchConsistent
    <3> QED BY <2>3, <3>3, <3>8, <3>9
  <2> QED BY <2>4, <2>5
<1> HIDE DEF all
<1>8. JobOK(w)'
  <2>1. \A t \in Tickers : job'[w].want[t] \subseteq job'[w].from..job'[w].to
    BY <1>1, <1>6 DEF JobOK
  <2>2. job'[w].at <= Gap(w)'.hi
    BY <1>1, <1>6 DEF Gap
  <2> QED BY <1>3, <1>6, <1>7, <2>1, <2>2 DEF JobOK
<1>9. FilesOK'
  BY <1>1, <1>3, FilesKept
<1>10. job'[w].pc # "served" /\ stepped \subseteq stepped'
  BY <1>3, <1>6
<1> QED BY <1>3, <1>6, <1>8, <1>9, <1>10, OnlyJob

LEMMA JobFailsKeeps ==
  ASSUME BarsInvariant, BarTypes', NEW w \in Workers, JobFails(w)
  PROVE  BarsInvariant'
<1>1. /\ table' = table /\ stepped' = stepped /\ file' = file
      /\ job'[w] = NoJob /\ \A v \in Workers \ {w} : job'[v] = job[v]
  BY DEF JobFails, BarsInvariant, BarTypes
<1>2. JobOK(w)' /\ job'[w].pc # "served"
  BY <1>1 DEF JobOK, NoJob, Busy
<1>3. FilesOK'
  BY <1>1, FilesKept DEF BarsInvariant
<1> QED BY <1>1, <1>2, <1>3, OnlyJob

(* The jobs' records at the two ends of a save.                              *)
LEMMA SaveView ==
  ASSUME BarTypes, NEW w \in Workers, NEW t \in Tickers, SaveStart(w, t) \/ SaveEnd(w, t)
  PROVE  /\ table' = table /\ job[w].pc = "save" /\ \A v \in Workers : SameLoad(v)
         /\ \A v \in Workers \ {w} : job'[v] = job[v]
<1>1. job \in [Workers -> JobRecords] /\ job[w] \in JobRecords
  BY DEF BarTypes
<1>2. CASE SaveStart(w, t)
  <2>1. job' = [job EXCEPT ![w] = [job[w] EXCEPT !.writing = t]]
    BY <1>2 DEF SaveStart
  <2>2. job'[w] = [job[w] EXCEPT !.writing = t] /\ \A v \in Workers \ {w} : job'[v] = job[v]
    BY <1>1, <2>1
  <2>3. SameLoad(w)
    BY <1>1, <2>2 DEF SameLoad, JobRecords
  <2> QED BY <1>2, <2>2, <2>3 DEF SaveStart, SameLoad
<1>3. CASE SaveEnd(w, t)
  <2> DEFINE left == job[w].save \ {t}
  <2>1. job' = [job EXCEPT ![w] = [job[w] EXCEPT !.writing = NoTicker, !.save = left]]
    BY <1>3 DEF SaveEnd
  <2> HIDE DEF left
  <2>2. /\ job'[w] = [job[w] EXCEPT !.writing = NoTicker, !.save = left]
        /\ \A v \in Workers \ {w} : job'[v] = job[v]
    BY <1>1, <2>1
  <2>3. SameLoad(w)
    BY <1>1, <2>2 DEF SameLoad, JobRecords
  <2> QED BY <1>3, <2>2, <2>3 DEF SaveEnd, SameLoad
<1> QED BY <1>2, <1>3

LEMMA SaveStartKeeps ==
  ASSUME BarsInvariant, BarTypes', NEW w \in Workers, NEW t \in Tickers, SaveStart(w, t)
  PROVE  BarsInvariant'
<1>1. BarTypes /\ FilesOK /\ JobOK(w) /\ stepped' = stepped
  BY DEF BarsInvariant, SaveStart
<1>2. /\ table' = table /\ job[w].pc = "save" /\ SameLoad(w)
      /\ \A v \in Workers \ {w} : job'[v] = job[v]
  BY <1>1, SaveView
<1>3. JobOK(w)' /\ job'[w].pc # "served"
  <2>1. JobOK(w)'
    BY <1>1, <1>2, LoadKept
  <2> QED BY <1>2, <2>1 DEF SameLoad
<1>4. FilesOK'
  <2>1. \A s \in Tickers : file'[s].state = "whole" => file'[s] = file[s]
    BY <1>1 DEF SaveStart, BarTypes
  <2> QED BY <1>1, <1>2, <2>1 DEF FilesOK
<1> QED BY <1>1, <1>2, <1>3, <1>4, OnlyJob

LEMMA SaveEndKeeps ==
  ASSUME BarsInvariant, BarTypes', NEW w \in Workers, NEW t \in Tickers, SaveEnd(w, t)
  PROVE  BarsInvariant'
<1>1. BarTypes /\ FilesOK /\ JobOK(w)
  BY DEF BarsInvariant
<1>2. /\ table' = table /\ job[w].pc = "save" /\ SameLoad(w)
      /\ \A v \in Workers \ {w} : job'[v] = job[v]
  BY <1>1, SaveView
<1>3. stepped \subseteq stepped'
  BY DEF SaveEnd
<1>4. JobOK(w)' /\ job'[w].pc # "served"
  <2>1. JobOK(w)'
    BY <1>1, <1>2, <1>3, LoadKept
  <2> QED BY <1>2, <2>1 DEF SameLoad
<1>5. FilesOK'
  <2> DEFINE held == Held(job[w].bars[t])
             hole == SlabEnd(w) < Gap(w).hi /\ \E d \in held : Gap(w).hi <= Close(d)
  <2>1. CASE UNCHANGED <<file, stepped>>
    BY <1>1, <1>2, <2>1, FilesKept
  <2>2. CASE /\ file' = [file EXCEPT ![t] = [state |-> "whole", bars |-> job[w].bars[t]]]
             /\ stepped' = IF hole THEN stepped \union {t} ELSE stepped
    <3>1. \A s \in Tickers \ {t} : file'[s] = file[s]
      BY <1>1, <2>2 DEF BarTypes
    <3>2. file'[t].bars = job[w].bars[t]
      BY <1>1, <2>2 DEF BarTypes
    <3>3. ASSUME t \notin stepped'
          PROVE  AllWhole(job[w].bars[t]) /\ Unbroken(table[t], held)
      <4>1. ~hole /\ t \notin stepped
        BY <2>2, <3>3
      <4>2. /\ AllWhole(job[w].bars[t])
            /\ Consistent(table[t], held, job[w].want[t], Current(w, t), Later(w, t))
        BY <1>1, <1>2, <4>1 DEF JobOK, Busy
      <4>3. \A r \in Current(w, t) : r.lo = SlabEnd(w) /\ r.hi = Gap(w).hi
        <5>1. Gap(w) \in [lo : Nat, hi : Nat, tickers : SUBSET Tickers]
          BY <1>1, SlabBounds DEF GapRecords
        <5> QED BY <1>2, <5>1 DEF Current, Reach
      <4> HIDE DEF held
      <4>4. \A r \in Current(w, t) : ~(r.lo < r.hi /\ \E d \in held : r.hi <= Close(d))
        BY <4>1, <4>3
      <4> QED BY <4>2, <4>4, SavedUnbroken
    <3> QED BY <1>1, <1>2, <1>3, <3>1, <3>2, <3>3 DEF FilesOK
  <2> QED BY <2>1, <2>2 DEF SaveEnd
<1> QED BY <1>2, <1>3, <1>4, <1>5, OnlyJob

LEMMA SlabDoneKeeps ==
  ASSUME BarsInvariant, BarTypes', NEW w \in Workers, SlabDone(w)
  PROVE  BarsInvariant'
<1>1. BarTypes /\ FilesOK /\ JobOK(w) /\ job[w].pc = "save" /\ job[w].at <= Gap(w).hi
  BY DEF BarsInvariant, SlabDone, JobOK
<1>2. table' = table /\ stepped' = stepped /\ file' = file
  BY DEF SlabDone
<1>3. job \in [Workers -> JobRecords] /\ job[w] \in JobRecords /\ job[w].gaps \subseteq GapRecords
  BY <1>1 DEF BarTypes, JobRecords
<1>4. \A t \in Tickers \ stepped :
        /\ AllWhole(job[w].bars[t])
        /\ Consistent(table[t], Held(job[w].bars[t]), job[w].want[t], Current(w, t), Later(w, t))
  BY <1>1 DEF JobOK, Busy
<1>5. Gap(w) \in [lo : Nat, hi : Nat, tickers : SUBSET Tickers]
  BY <1>1, SlabBounds DEF GapRecords
<1>6. FilesOK'
  BY <1>1, <1>2, FilesKept
<1>7. CASE SlabEnd(w) < Gap(w).hi
  <2>1. job' = [job EXCEPT ![w] = [job[w] EXCEPT !.pc = "fetch", !.at = SlabEnd(w)]]
    BY <1>7 DEF SlabDone
  <2>2. /\ job'[w] = [job[w] EXCEPT !.pc = "fetch", !.at = SlabEnd(w)]
        /\ \A v \in Workers \ {w} : job'[v] = job[v]
    BY <1>3, <2>1
  <2>3. /\ job'[w].pc = "fetch" /\ job'[w].bars = job[w].bars /\ job'[w].gaps = job[w].gaps
        /\ job'[w].gap = job[w].gap /\ job'[w].at = SlabEnd(w) /\ job'[w].want = job[w].want
        /\ job'[w].from = job[w].from /\ job'[w].to = job[w].to
    BY <1>3, <2>2 DEF JobRecords
  <2>4. \A t \in Tickers : Current(w, t)' = Current(w, t) /\ Later(w, t)' = Later(w, t)
    BY <1>1, <2>3 DEF Current, Later, Reach, Gap
  <2>5. job'[w].at <= Gap(w)'.hi
    BY <1>1, <2>3, SlabBounds DEF Gap
  <2>6. JobOK(w)'
    <3>1. \A t \in Tickers : job'[w].want[t] \subseteq job'[w].from..job'[w].to
      BY <1>1, <2>3 DEF JobOK
    <3> QED BY <1>2, <1>4, <2>3, <2>4, <2>5, <3>1 DEF JobOK
  <2> QED BY <1>2, <1>6, <2>2, <2>3, <2>6, OnlyJob
<1>8. CASE ~(SlabEnd(w) < Gap(w).hi)
  <2>1. PICK k \in NextGap(job[w], job[w].gaps) : job' = [job EXCEPT ![w] = k]
    BY <1>8 DEF SlabDone
  <2>2. Moved(job[w], job[w].gaps, k)
    BY <1>3, <2>1, NextGapMoves
  <2>3. job'[w] = k /\ \A v \in Workers \ {w} : job'[v] = job[v]
    BY <1>3, <2>1
  <2>4. ASSUME NEW t \in Tickers \ stepped
        PROVE  Consistent(table[t], Held(job[w].bars[t]), job[w].want[t], {},
                          {g \in job[w].gaps : t \in g.tickers})
    <3>1. SlabEnd(w) = Gap(w).hi
      BY <1>1, <1>8, SlabBounds
    <3>2. \A r \in Current(w, t) : r.lo = r.hi
      BY <1>1, <1>5, <3>1 DEF Current, Reach
    <3>3. Consistent(table[t], Held(job[w].bars[t]), job[w].want[t], {}, Later(w, t))
      BY <1>4, <3>2, FinishConsistent
    <3> QED BY <3>3 DEF Later
  <2>5. \A t \in Tickers : job[w].want[t] \subseteq job[w].from..job[w].to
    BY <1>1 DEF JobOK
  <2>6. JobOK(w)' /\ job'[w].pc # "served"
    BY <1>2, <1>3, <1>4, <2>2, <2>3, <2>4, <2>5, MovedOn
  <2> QED BY <1>2, <1>6, <2>3, <2>6, OnlyJob
<1> QED BY <1>7, <1>8

LEMMA ServeKeeps ==
  ASSUME BarsInvariant, BarTypes', NEW w \in Workers, Serve(w)
  PROVE  BarsInvariant'
<1> DEFINE cut == [t \in Tickers |-> [d \in Days |-> IF d \in job[w].from..job[w].to
                                                     THEN job[w].bars[t][d] ELSE "none"]]
<1>1. BarTypes /\ FilesOK /\ JobOK(w) /\ job[w].pc = "splice" /\ ServedWhole
  BY DEF BarsInvariant, Serve
<1>2. table' = table /\ stepped' = stepped /\ file' = file
  BY DEF Serve
<1>3. job \in [Workers -> JobRecords] /\ job[w] \in JobRecords
  BY <1>1 DEF BarTypes
<1>4. job' = [job EXCEPT ![w] = [job[w] EXCEPT !.pc = "served", !.bars = cut]]
  BY DEF Serve
<1>5. ASSUME NEW t \in Tickers \ stepped
      PROVE  job[w].want[t] \subseteq Held(cut[t]) /\ \A d \in Days : cut[t][d] # "partial"
  <2>1. /\ AllWhole(job[w].bars[t])
        /\ Consistent(table[t], Held(job[w].bars[t]), job[w].want[t], Current(w, t), Later(w, t))
        /\ job[w].want[t] \subseteq job[w].from..job[w].to
    BY <1>1 DEF JobOK, Busy
  <2>2. Current(w, t) = {} /\ Later(w, t) = {}
    BY <1>1 DEF JobOK, Current, Later, Gap, NoGap
  <2>3. job[w].want[t] \subseteq Held(job[w].bars[t])
    BY <2>1, <2>2, EndServes
  <2>4. job[w].want[t] \subseteq Held(cut[t])
    BY <2>1, <2>3 DEF Held
  <2>5. \A d \in Days : cut[t][d] # "partial"
    BY <2>1 DEF AllWhole
  <2> QED BY <2>4, <2>5
<1> HIDE DEF cut
<1>6. /\ job'[w] = [job[w] EXCEPT !.pc = "served", !.bars = cut]
      /\ \A v \in Workers \ {w} : job'[v] = job[v]
  BY <1>3, <1>4
<1>7. /\ job'[w].pc = "served" /\ job'[w].bars = cut /\ job'[w].want = job[w].want
      /\ job'[w].from = job[w].from /\ job'[w].to = job[w].to
  BY <1>3, <1>6 DEF JobRecords
<1>8. JobOK(w)'
  <2>1. \A t \in Tickers : job'[w].want[t] \subseteq job'[w].from..job'[w].to
    BY <1>1, <1>7 DEF JobOK
  <2> QED BY <1>7, <2>1 DEF JobOK, Busy
<1>9. \A v \in Workers \ {w} : JobOK(v)'
  <2> SUFFICES ASSUME NEW v \in Workers \ {w} PROVE JobOK(v)'
    OBVIOUS
  <2>1. SameLoad(v) /\ JobOK(v)
    BY <1>6 DEF SameLoad, BarsInvariant
  <2> QED BY <1>2, <2>1, LoadKept
<1>10. ServedWhole'
  <2> SUFFICES ASSUME NEW v \in Workers, job'[v].pc = "served", NEW t \in Tickers \ stepped
               PROVE  /\ job'[v].want[t] \subseteq Held(job'[v].bars[t])
                      /\ \A d \in Days : job'[v].bars[t][d] # "partial"
    BY <1>2 DEF ServedWhole
  <2>1. CASE v = w
    BY <1>5, <1>7, <2>1
  <2>2. CASE v # w
    BY <1>1, <1>6, <2>2 DEF ServedWhole
  <2> QED BY <2>1, <2>2
<1>11. FilesOK'
  BY <1>1, <1>2, FilesKept
<1> QED BY <1>8, <1>9, <1>10, <1>11 DEF BarsInvariant

(* No load is under way while a session's bars are appended.                 *)
LEMMA AppendBarKeeps ==
  ASSUME BarsInvariant, BarTypes', NEW t \in Tickers, NEW d \in Days, AppendBar(t, d)
  PROVE  BarsInvariant'
<1>1. BarTypes /\ FilesOK /\ ServedWhole /\ \A w \in Workers : JobOK(w)
  BY DEF BarsInvariant
<1>2. /\ file' = file /\ job' = job /\ stepped' = stepped /\ \A w \in Workers : ~Busy(w)
      /\ table' = [table EXCEPT ![t] = table[t] \union {d}] /\ \A e \in table[t] : e < d
  BY DEF AppendBar
<1>3. \A s \in Tickers : table'[s] = table[s] \/ (table'[s] = table[s] \union {d} /\ s = t)
  BY <1>1, <1>2 DEF BarTypes
<1>4. ASSUME NEW held, Unbroken(table[t], held) PROVE Unbroken(table[t] \union {d}, held)
  <2> SUFFICES ASSUME NEW e \in held, NEW f \in held, e < d, d < f PROVE FALSE
    BY <1>4 DEF Unbroken
  <2>1. f < d /\ f \in Nat /\ d \in Nat
    BY <1>1, <1>2, <1>4, DaysAreNumbers DEF Unbroken, BarTypes
  <2> QED BY <2>1
<1>5. FilesOK'
  BY <1>1, <1>2, <1>3, <1>4 DEF FilesOK
<1>6. ServedWhole'
  BY <1>1, <1>2 DEF ServedWhole
<1>7. \A w \in Workers : JobOK(w)'
  BY <1>1, <1>2 DEF JobOK, Busy, Gap
<1> QED BY <1>5, <1>6, <1>7 DEF BarsInvariant

LEMMA NothingMoved ==
  ASSUME BarsInvariant, BarTypes', UNCHANGED <<table, file, job, stepped>>
  PROVE  BarsInvariant'
<1>1. FilesOK' /\ ServedWhole'
  BY FilesKept DEF BarsInvariant, ServedWhole
<1>2. \A w \in Workers : JobOK(w)'
  BY LoadKept DEF BarsInvariant, SameLoad
<1> QED BY <1>1, <1>2 DEF BarsInvariant

\* The first rows of a ticker that had no bars, whatever loads are under way.
LEMMA BackfillKeeps ==
  ASSUME BarsInvariant, BarTypes', UNCHANGED <<file, job, stepped>>,
         NEW t \in Tickers, NEW D \in SUBSET Days, table[t] = {}, table' = [table EXCEPT ![t] = D]
  PROVE  BarsInvariant'
<1>1. BarTypes /\ FilesOK /\ ServedWhole /\ \A w \in Workers : JobOK(w)
  BY DEF BarsInvariant
<1>3. file' = file /\ job' = job /\ stepped' = stepped
  OBVIOUS
<1>4. \A s \in Tickers : \/ table'[s] = table[s]
                         \/ s = t /\ table[s] = {} /\ table'[s] \subseteq Days
  BY <1>1 DEF BarTypes
<1>5. \A stored, held : Unbroken({}, held) => Unbroken(stored, held)
  BY DEF Unbroken
<1>6. FilesOK'
  BY <1>1, <1>3, <1>4, <1>5 DEF FilesOK
<1>7. ServedWhole'
  BY <1>1, <1>3 DEF ServedWhole
<1>8. ASSUME NEW w \in Workers PROVE JobOK(w)'
  <2>1. /\ Busy(w)' = Busy(w) /\ Gap(w)' = Gap(w)
        /\ \A s : Current(w, s)' = Current(w, s) /\ Later(w, s)' = Later(w, s)
    BY <1>3 DEF Busy, Gap, Current, Later, Reach, SlabEnd
  <2>2. ASSUME NEW s \in Tickers,
               Consistent(table[s], Held(job[w].bars[s]), job[w].want[s],
                          Current(w, s), Later(w, s))
        PROVE  Consistent(table'[s], Held(job[w].bars[s]), job[w].want[s],
                          Current(w, s), Later(w, s))
    BY <1>4, <2>2, BackfilledConsistent
  <2> QED BY <1>1, <1>3, <2>1, <2>2 DEF JobOK
<1> QED BY <1>6, <1>7, <1>8 DEF BarsInvariant


\* Another request's rows of the same ticker: none, or the last session while no load is
\* under way.
LEMMA CommittedKeeps ==
  ASSUME SymTypes, LoadersOK, BarsInvariant, BarTypes', NEW l \in Loaders, Committed(l)
  PROVE  BarsInvariant'
<1>0. PICK t \in Tickers, rows \in SUBSET Days, wrote \in SUBSET Tickers :
         /\ t = loader[l].at /\ Insert(l, t, rows, wrote)
         /\ rows = {} \/ Days \ {LastDay} \subseteq rows
         /\ wrote # {} /\ table[t] # {} => \A w \in Workers : ~Busy(w)
  BY CommittedView
<1>1. /\ table' = [table EXCEPT ![t] = @ \union rows]
      /\ ~(rows \subseteq table[t]) /\ table[t] # {} => \A w \in Workers : ~Busy(w)
  BY <1>0 DEF Insert
<1>2. UNCHANGED <<file, job, stepped>> /\ rows \subseteq Days /\ table \in [Tickers -> SUBSET Days]
  BY DEF Committed, SymTypes
<1>3. CASE table[t] = {}
  <2>1. table' = [table EXCEPT ![t] = rows]
    BY <1>1, <1>2, <1>3
  <2> QED BY <1>2, <1>3, <2>1, BackfillKeeps
<1>4. CASE rows \subseteq table[t]
  <2>1. table' = table
    BY <1>1, <1>2, <1>4
  <2> QED BY <1>2, <2>1, NothingMoved
<1>5. CASE table[t] # {} /\ ~(rows \subseteq table[t])
  <2>1. Days \ {LastDay} \subseteq table[t]
    BY <1>0, <1>5 DEF LoadersOK
  <2>2. LastDay \in Days /\ LastDay \notin table[t] /\ rows \subseteq Days
    BY <1>2, <1>5, <2>1
  <2>3. table' = [table EXCEPT ![t] = table[t] \union {LastDay}]
    <3>1. table[t] \union rows = table[t] \union {LastDay}
      BY <1>2, <1>5, <2>1, <2>2
    <3> QED BY <1>1, <3>1
  <2>4. \A e \in table[t] : e < LastDay
    <3>1. LastDay \in Nat /\ table[t] \subseteq Days
      BY <1>2, BarsAssumption
    <3> QED BY <2>2, <3>1 DEF Days
  <2>5. AppendBar(t, LastDay)
    BY <1>1, <1>2, <1>5, <2>3, <2>4 DEF AppendBar
  <2> QED BY <2>2, <2>5, AppendBarKeeps
<1> QED BY <1>3, <1>4, <1>5

LEMMA LoadersStep ==
  ASSUME SymTypes, LoadersOK, [Next]_vars
  PROVE  LoadersOK'
<1> USE DEF SymTypes
<1>1. ASSUME loader' = loader,
             \A t \in Tickers : table'[t] = table[t] \/ (table[t] # {} /\ table[t] \subseteq table'[t])
      PROVE  LoadersOK'
  BY <1>1 DEF LoadersOK
<1>2. CASE BarStep /\ UNCHANGED symVars
  <2>1. ASSUME NEW t \in Tickers, NEW d \in Days, AppendBar(t, d) PROVE LoadersOK'
    BY <1>1, <1>2, <2>1 DEF AppendBar, symVars
  <2>2. CASE UNCHANGED table
    BY <1>1, <1>2, <2>2 DEF symVars
  <2> QED BY <1>2, <2>1, <2>2 DEF BarStep, LoadStart, FetchSlab, JobFails, SlabDone, Serve, SaveStart,
        SaveEnd
<1>3. ASSUME UNCHANGED <<table, loader>> PROVE LoadersOK'
  BY <1>1, <1>3
<1>4. ASSUME NEW l \in Loaders, LoaderStep(l) PROVE LoadersOK'
  <2>1. ASSUME table' = table,
               \A m \in Loaders, t \in Tickers :
                  (t \in loader'[m].todo \/ t = loader'[m].at) =>
                    t \in loader[m].todo \/ t = loader[m].at \/ table[t] = {}
        PROVE  LoadersOK'
    BY <2>1 DEF LoadersOK
  <2>2. ASSUME NEW absent \in SUBSET Tickers, Coverage(l, absent) PROVE LoadersOK'
    <3>1. table' = table /\ \A t \in absent : table[t] = {}
      BY <2>2 DEF Coverage, barVars
    <3>2. loader'[l].todo = absent /\ loader'[l].at = loader[l].at
      BY <2>2 DEF Coverage, LoaderRecords
    <3>3. \A m \in Loaders : m # l => loader'[m] = loader[m]
      BY <2>2 DEF Coverage
    <3> QED BY <2>1, <3>1, <3>2, <3>3
  <2>3. ASSUME NEW t \in Tickers, Place(l, t) PROVE LoadersOK'
    <3>1. table' = table
      BY <2>3 DEF Place, barVars
    <3>2. loader'[l].todo = loader[l].todo \ {t} /\ loader'[l].at = t /\ t \in loader[l].todo
      <4> DEFINE r == [loader[l] EXCEPT !.pc = "exchange", !.todo = loader[l].todo \ {t}, !.at = t]
      <4>1. r.todo = loader[l].todo \ {t} /\ r.at = t
        BY DEF LoaderRecords
      <4>2. loader'[l] = r
        BY <2>3 DEF Place
      <4> QED BY <2>3, <4>1, <4>2 DEF Place
    <3>3. \A m \in Loaders : m # l => loader'[m] = loader[m]
      BY <2>3 DEF Place
    <3> QED BY <2>1, <3>1, <3>2, <3>3
  <2>4. CASE Placed(l) \/ Skipped(l)
    <3>1. table' = table
      BY <2>4 DEF Placed, Skipped, barVars
    <3>2. \A m \in Loaders : /\ loader'[m].todo \subseteq loader[m].todo
                            /\ loader'[m].at \in {loader[m].at, NoTicker}
      BY SMTT(30), <2>4 DEF Placed, Skipped, LoaderRecords
    <3>3. NoTicker \notin Tickers
      BY BarsAssumption
    <3> QED BY <2>1, <3>1, <3>2, <3>3
  <2>5. CASE BackfillRaises(l) \/ BackfillEnds(l)
    <3>1. table' = table /\ loader' = [loader EXCEPT ![l] = NoLoader]
      BY <2>5 DEF BackfillRaises, BackfillEnds, barVars
    <3>2. NoLoader.todo = {} /\ NoLoader.at \notin Tickers
      BY BarsAssumption DEF NoLoader
    <3>3. loader'[l] = NoLoader /\ \A m \in Loaders : m # l => loader'[m] = loader[m]
      BY <3>1
    <3> QED BY <2>1, <3>1, <3>2, <3>3
  <2>6. CASE Committed(l)
    <3>1. PICK t \in Tickers, rows \in SUBSET Days, wrote \in SUBSET Tickers :
             /\ Insert(l, t, rows, wrote)
             /\ rows = {} \/ Days \ {LastDay} \subseteq rows
      BY <2>6, CommittedView
    <3>2. /\ loader'[l].todo = loader[l].todo /\ loader'[l].at = NoTicker
          /\ \A m \in Loaders : m # l => loader'[m] = loader[m]
      BY <3>1, InsertedLoader
    <3>3. \A s \in Tickers : table[s] = {} \/ Days \ {LastDay} \subseteq table[s] =>
                           table'[s] = {} \/ Days \ {LastDay} \subseteq table'[s]
      BY <3>1 DEF Insert
    <3>4. NoTicker \notin Tickers
      BY BarsAssumption
    <3> QED BY <3>2, <3>3, <3>4 DEF LoadersOK
  <2> QED BY <1>4, <2>2, <2>3, <2>4, <2>5, <2>6 DEF LoaderStep
<1>5. ASSUME NEW c \in Callers, CallerStep(c) PROVE UNCHANGED <<table, loader>>
  BY <1>5 DEF CallerStep, Ask, IndexBars, IndexRuns, Enter, Acquire, Retry, Keep, Publish,
    RequestFails, Pop, Fallback, Yahoo, Answered, barVars
<1> QED BY <1>2, <1>3, <1>4, <1>5 DEF Next, SymbolStep, vars, barVars, symVars, IndexExpires, Forget

-----------------------------------------------------------------------------
(* The invariant and what a run is served.                                   *)

LEMMA BarsInvariantInit ==
  ASSUME Init
  PROVE  BarsInvariant
<1>1. /\ table \in InitialTables /\ file = [t \in Tickers |-> Absent]
      /\ job = [w \in Workers |-> NoJob]
  BY DEF Init, BarInit
<1>2. BarTypes
  <2>1. Absent \in [state : {"absent", "torn", "whole"}, bars : Bars]
    BY EmptyBars DEF Absent
  <2>2. file \in [Tickers -> [state : {"absent", "torn", "whole"}, bars : Bars]]
    BY <1>1, <2>1
  <2>3. table \in [Tickers -> SUBSET Days]
    BY <1>1, BarsAssumption
  <2>4. job \in [Workers -> JobRecords]
    BY <1>1, NoJobTyped
  <2> QED BY <2>2, <2>3, <2>4 DEF BarTypes
<1>3. FilesOK
  BY <1>1 DEF FilesOK, Absent
<1>4. ServedWhole
  BY <1>1 DEF ServedWhole, NoJob
<1>5. \A w \in Workers : JobOK(w)
  BY <1>1 DEF JobOK, NoJob, Busy
<1> QED BY <1>2, <1>3, <1>4, <1>5 DEF BarsInvariant

LEMMA BarsInvariantStep ==
  ASSUME SymTypes, LoadersOK, BarsInvariant, [Next]_vars
  PROVE  BarsInvariant'
<1>1. BarTypes'
  BY BarTypesStep DEF BarsInvariant
<1>2. CASE UNCHANGED barVars
  BY <1>1, <1>2, NothingMoved DEF barVars
<1>3. CASE BarStep
  BY <1>1, <1>3, AppendBarKeeps, LoadStartKeeps, FetchSlabKeeps, JobFailsKeeps, SlabDoneKeeps,
     ServeKeeps, SaveStartKeeps, SaveEndKeeps DEF BarStep
<1>4. CASE SymbolStep
  <2>1. (\E l \in Loaders : Committed(l)) \/ UNCHANGED barVars
    BY <1>4 DEF SymbolStep, CallerStep, Ask, IndexBars, IndexRuns, Enter, Acquire, Retry, Keep,
       Publish, RequestFails, Pop, Fallback, Yahoo, Answered, Forget, IndexExpires, LoaderStep,
       Coverage, Place, Placed, Skipped, BackfillRaises, BackfillEnds
  <2> QED BY <1>1, <1>2, <2>1, CommittedKeeps
<1> QED BY <1>2, <1>3, <1>4 DEF Next, vars

(* Whatever several workers do with the same files at once - loads that fail *)
(* or die between fetch_historical_data's queries, saves that overlap, a     *)
(* ticker backfilled while it is loaded - a cache never skips a stored day   *)
(* between its first bar and its last, except in the gap that is being read, *)
(* and the gaps that are left cover every bar the run still lacks.           *)
THEOREM BarsInvariantHolds == Spec => []BarsInvariant
<1>1. Init => BarsInvariant /\ LoadersOK
  <2>1. Init => LoadersOK
    BY BarsAssumption DEF Init, LoadersOK, NoLoader
  <2> QED BY <2>1, BarsInvariantInit
<1>2. SymInvariant /\ BarsInvariant /\ LoadersOK /\ [Next]_vars => BarsInvariant' /\ LoadersOK'
  BY BarsInvariantStep, LoadersStep DEF SymInvariant
<1> QED BY <1>1, <1>2, SymInvariantHolds, PTL DEF Spec

(* fetch_historical_data serves a run every bar the database held in its     *)
(* window, each of a whole day: for any tickers, any number of workers, any  *)
(* days and any slab length, as long as the ticker's file was never extended *)
(* to the left in more than one slab.                                        *)
THEOREM RunsAreServedWhole == Spec => []ServedWhole
<1>1. BarsInvariant => ServedWhole
  BY DEF BarsInvariant
<1> QED BY <1>1, BarsInvariantHolds, PTL
===============================================================================

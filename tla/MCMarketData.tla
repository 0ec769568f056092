--------------------------- MODULE MCMarketData ---------------------------
(***************************************************************************)
(* Model values for the run of MarketData: the ticker x may be stored or   *)
(* not; y is a symbol that nobody has, asked for all the same.             *)
(***************************************************************************)
EXTENDS MarketData, TLC

CONSTANTS x, y, p, a, b, c, d, e, m, n

Stored == {[t \in {x} |-> D] : D \in {{}, {1, 2}, {1, 3}, {1, 2, 3}}}

Symmetry == Permutations(Workers) \union Permutations(Callers)

(* A load of a run and a request of the API share the table alone: a       *)
(* behaviour has one or the other, and the index only asks whether a       *)
(* ticker has bars.                                                        *)
Idle  == \A w \in Workers : job[w] = NoJob /\ file[x] = Absent
Quiet == /\ \A k \in Callers : caller[k] = NoCaller
         /\ \A q \in Queries : cache[q] = NoAnswer
         /\ ~index.there

SeparateNext ==
    \/ Quiet /\ BarStep /\ UNCHANGED symVars
    \/ Quiet /\ \E l \in Loaders : LoaderStep(l)
    \/ Idle /\ table[x] \in {{}, Days} /\ SymbolStep

SeparateSpec == Init /\ [][SeparateNext]_vars

(* Three requests at once meet on x and the prefix where the database is   *)
(* empty, the index idle and no ticker looked for; one coverage request or *)
(* two meet two requests for x or one before any verdict is kept, and one  *)
(* that is about to write meets one load of a run.  Nothing is stated      *)
(* about a ticker after it was extended to the left in several slabs.      *)
Asking  == {k \in Callers : caller[k] # NoCaller}
Loading == {l \in Loaders : loader[l] # NoLoader}
Running == {w \in Workers : job[w] # NoJob}

Bounded ==
    /\ stepped = {}
    /\ Quiet \/ table[x] \in {{}, Days}
    /\ \/ Asking # Callers
       \/ table[x] = {} /\ ~index.there /\ \A k \in Callers : caller[k].query # y
    /\ Loading # {} =>
       /\ Cardinality(Asking) + Cardinality(Loading) <= 3
       /\ \A q \in Queries : cache[q] = NoAnswer
       /\ Cardinality(Asking) = 2 => \A k \in Asking : caller[k].query = x
       /\ Idle \/ (/\ Cardinality(Loading) = 1 /\ Cardinality(Running) = 1
                   /\ \A l \in Loading : loader[l].pc = "commit" \/ loader[l].wrote # {})
=============================================================================

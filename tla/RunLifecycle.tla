---------------------------- MODULE RunLifecycle ----------------------------
(***************************************************************************)
(* What the API promises about a run, whatever process serves it: a run is *)
(* live from its registration; it is saved or it ends; a run that ended    *)
(* never comes back; an accepted cancellation excludes a save; only a      *)
(* saved run outlives its process.  Several runs may move in one step (a   *)
(* restart, a prune).                                                      *)
(***************************************************************************)
CONSTANT Jobs

VARIABLES phase, cancelled

\* live: the poll answers from memory.  ended: failed, or an internal run that
\* saves nothing.  saved: in history.  gone: the poll answers 404.
Phases == {"new", "live", "ended", "saved", "gone"}

TypeOK == phase \in [Jobs -> Phases] /\ cancelled \subseteq Jobs

Moves == {<<"new", "live">>, <<"new", "gone">>,
          <<"live", "ended">>, <<"live", "saved">>, <<"live", "gone">>,
          <<"ended", "gone">>, <<"saved", "gone">>}

Init == phase = [j \in Jobs |-> "new"] /\ cancelled = {}

Move(j) ==
    /\ phase'[j] # phase[j] => <<phase[j], phase'[j]>> \in Moves
    /\ phase'[j] = "saved" => j \notin cancelled'
    /\ j \in cancelled' \ cancelled => phase[j] = "live"

Next ==
    /\ phase' \in [Jobs -> Phases]
    /\ cancelled \subseteq cancelled'
    /\ cancelled' \subseteq Jobs
    /\ \A j \in Jobs : Move(j)

Spec == Init /\ [][Next]_<<phase, cancelled>>
=============================================================================

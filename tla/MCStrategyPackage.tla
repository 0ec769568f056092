------------------------- MODULE MCStrategyPackage -------------------------
(***************************************************************************)
(* Model values for the run of StrategyPackage: two uploads, a row s from  *)
(* before the store existed, two requests and one worker.                  *)
(***************************************************************************)
EXTENDS StrategyPackage, TLC

CONSTANTS u, u2, s, r1, r2, w

Symmetry == Permutations(Requests) \union Permutations(Uploads)

(* A publication and the uploads share no key, no row and no object, so    *)
(* their steps commute: a behaviour has one or the other.  A load commutes *)
(* with the requests for other keys: at most one request is under way      *)
(* beside it.  Two uploads never share a key either: one of them has       *)
(* objects, the other is there for its sweep of the staged row.            *)
Separate ==
    /\ used = {} \/ (pointer = "absent" /\ pub.pc = "idle" /\ vendored = "v1")
    /\ \A x \in Workers :
          load[x].pc # "idle" => Cardinality({r \in Requests : ~At(r, "idle")}) <= 1
    /\ Cardinality({k \in Uploads : \E b \in Backends, f \in Files :
                                      objects[b][k][f] # "absent"}) <= 1
=============================================================================

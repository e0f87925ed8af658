----------------------------- MODULE ExplorerMC -----------------------------
(***************************************************************************)
(* Three strides: of one run of the receiver, or the last one of a second  *)
(* run, with the id of the first.  If strides expire, the explorer is      *)
(* restarted in the second case only, and only the first stride may be     *)
(* refused its directory, to keep the state space small.                   *)
(***************************************************************************)
EXTENDS Explorer

Ids == {<<1, 2, 3>>, <<1, 2, 1>>}

MayRestart == maxAgeSeconds = 0 \/ StrideId = <<1, 2, 1>>

GivenUp == {strideCache[i].stride : i \in {j \in Slots : strideCache[j].status = "error"}}

ExplorerMCNext ==
  /\ Next
  /\ restarts' # restarts => MayRestart
  /\ scan.at = "loop" => GivenUp' \ GivenUp \subseteq {1}

ExplorerMCSpec == Init /\ [][ExplorerMCNext]_vars /\ Fairness
=============================================================================

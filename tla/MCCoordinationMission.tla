----------------------- MODULE MCCoordinationMission -----------------------
(* Instances of CoordinationMission for TLC: two values of one key, one of *)
(* them without evidence; batches that promote two findings, the second    *)
(* perhaps by force, or accept one and reject one, perhaps the same.       *)
EXTENDS CoordinationMission

CONSTANTS k1, v1, v2

MCClaim ==
  {[key |-> k1, value |-> v1, cited |-> TRUE], [key |-> k1, value |-> v2, cited |-> FALSE]}

Says(status, promote, force) == [status |-> status, promote |-> promote, force |-> force]

MCBatches ==
  {<<Says("accepted", TRUE, FALSE), Says("accepted", TRUE, force)>> : force \in BOOLEAN}
    \cup {<<Says("accepted", FALSE, FALSE), Says("rejected", FALSE, FALSE)>>}
=============================================================================

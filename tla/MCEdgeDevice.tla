---------------------------- MODULE MCEdgeDevice ----------------------------
EXTENDS EdgeDevice

CONSTANTS d1, k1, k2

(* A device that probes its neighbour, one that probes nobody, and one     *)
(* with a neighbour that cannot be probed.                                 *)
ThreeSpecs ==
  {[neighbors |-> {k1}, monitored |-> TRUE],
   [neighbors |-> {k1, k2}, monitored |-> FALSE],
   [neighbors |-> {k2}, monitored |-> TRUE]}
=============================================================================

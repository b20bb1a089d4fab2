----------------------- MODULE MC_VpnLifecycleIntent -----------------------
(* Two service instances and four generations: enough for a reload, a       *)
(* Connect, a Stop and a second Connect to overlap on different owners.     *)
EXTENDS VpnLifecycleIntent, TLC

Symmetry == Permutations(Owner)
=============================================================================

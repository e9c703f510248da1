---------------------------- MODULE MCGpuServers ----------------------------
(* Small instances of GpuServers for TLC: two servers that compete for two *)
(* devices.                                                                *)
EXTENDS GpuServers, TLC

(* Everything but a change of plan and a look that corrects the status.    *)
FixedPlanOps == AllOps \ {"update", "view"}

(* Servers are interchangeable, and so are sessions.                       *)
Interchangeable == Permutations(Servers) \cup Permutations(Sessions)
=============================================================================

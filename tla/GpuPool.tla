------------------------------- MODULE GpuPool -------------------------------
(***************************************************************************)
(* What the GPU allocator promises (gpu_allocator.py: "each unit of a      *)
(* plan's gpu_limit exclusively reserves one physical device"), with no    *)
(* handlers, statuses or ages: a device is reserved when nobody has it,    *)
(* used by the container of the server that has it, and goes back when it  *)
(* is not in use.                                                          *)
(***************************************************************************)
EXTENDS Integers

CONSTANTS Servers, Devices

VARIABLES
    rows,   \* reservations: pairs <<device, server>>
    used    \* devices the running container of a server has

Init == rows = {} /\ used = [v \in Servers |-> {}]

(* Devices nobody has are reserved for a server, all of them at once.      *)
Grant(v, D) ==
    /\ \A d \in D, w \in Servers : <<d, w>> \notin rows
    /\ rows' = rows \cup {<<d, v>> : d \in D}
    /\ UNCHANGED used

(* Reservations end for devices that no running container of their server  *)
(* has.                                                                    *)
Return(R) ==
    /\ \A r \in R : r[1] \notin used[r[2]]
    /\ rows' = rows \ R
    /\ UNCHANGED used

(* A container starts on devices of its server, in place of the one there  *)
(* was; on none if it ends.                                                *)
Attach(v, D) ==
    /\ \A d \in D : <<d, v>> \in rows
    /\ used' = [used EXCEPT ![v] = D]
    /\ UNCHANGED rows

Next ==
    \/ \E v \in Servers, D \in SUBSET Devices : Grant(v, D) \/ Attach(v, D)
    \/ \E R \in SUBSET rows : Return(R)

Spec == Init /\ [][Next]_<<rows, used>>
=============================================================================

--------------------------- MODULE MCServerQueue ---------------------------
(* Instances of ServerQueue for TLC.                                       *)
EXTENDS ServerQueue, TLC

CONSTANTS w1, w2

Small == [size |-> 1, priority |-> 0]
Large == [size |-> 2, priority |-> 1]
TwoPlans == {Small, Large}

(* Two entries of different plans compete, one worker at a time.           *)
Competing ==
    [capacity |-> 2, plans |-> {Small, Large}, workers |-> {w1}, serial |-> TRUE,
     restarts |-> FALSE, entries |-> 2, faults |-> 0]

(* Two workers and requests overlap on one entry; one crashes.             *)
Overlapping ==
    [capacity |-> 1, plans |-> {Small}, workers |-> {w1, w2}, serial |-> FALSE,
     restarts |-> FALSE, entries |-> 1, faults |-> 1]

(* Stopped servers are started again while one worker is at work.          *)
Restarting == [Overlapping EXCEPT !.workers = {w1}, !.restarts = TRUE, !.faults = 0]

AllModes == {Competing, Overlapping, Restarting}
=============================================================================

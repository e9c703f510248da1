-------------------------- MODULE MCCreditRequests --------------------------
(* Small instances of CreditRequests for TLC: one user with a small top-up *)
(* (auto-approved) and a large one, and a second user who asks for an      *)
(* allowance.                                                              *)
EXTENDS CreditRequests, TLC

CONSTANTS r1, r2, r3, u1, u2

OwnerOf == (r1 :> u1) @@ (r2 :> u1) @@ (r3 :> u2)

(* Two HTTP requests at a time, and crashes.                               *)
Concurrent ==
    [alone |-> FALSE, crashes |-> TRUE, blocks |-> TRUE, time |-> 1, list |-> 1, ops |-> 4]

(* Two at a time, with bulk reviews of two requests.                       *)
Bulk ==
    [alone |-> FALSE, crashes |-> FALSE, blocks |-> FALSE, time |-> 0, list |-> 2, ops |-> 5]

(* A long sequence of HTTP requests, one after the other.                  *)
Sequential ==
    [alone |-> TRUE, crashes |-> FALSE, blocks |-> FALSE, time |-> 1, list |-> 2, ops |-> 6]

AllModes == {Concurrent, Bulk, Sequential}
=============================================================================

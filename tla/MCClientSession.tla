-------------------------- MODULE MCClientSession --------------------------
(* Instances of ClientSession for TLC.                                     *)
EXTENDS ClientSession, TLC

CONSTANTS t1, t2

OneOfEach == t1 :> {"tool", "logout"} @@ t2 :> {"fetch", "download"}
=============================================================================

-------------------------- MODULE MCServerGateway --------------------------
(* The instance of ServerGateway for TLC: all its constants are bounds.    *)
EXTENDS ServerGateway
=============================================================================

---------------------------- MODULE MCTcpForwarder ----------------------------
(* Two generations of one forwarder.                                       *)
EXTENDS TcpForwarder
=============================================================================

------------------------------ MODULE MCMonitor ------------------------------
(* The monitor of one forwarder, TCP or UDP, and the traffic that feeds it. *)
EXTENDS UdpMonitor
=============================================================================

---------------------------- MODULE MCConnection ----------------------------
(* One connection: up to three addresses, then both directions of the relay *)
(* with tiny buffers.                                                        *)
EXTENDS Connection
=============================================================================

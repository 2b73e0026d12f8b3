---------------------------- MODULE MCUdpOffload ----------------------------
(* Bursts that need several sends, end short, or do not fit the buffer. *)
EXTENDS UdpOffload, TLC

MCBursts == {<<0>>, <<2>>, <<1, 1>>, <<3, 3>>, <<2, 2, 2, 1>>, <<3, 3, 3>>}

Symmetry == Permutations(Session)
=============================================================================

------------------------------- MODULE SlotPool -------------------------------
(***************************************************************************)
(* What a limit on concurrent sessions or connections promises, whatever   *)
(* code enforces it: the holders known to one forwarder (live) and those   *)
(* of the other forwarders that share the limit (others) never exceed Max; *)
(* slots are taken one at a time and only while one is left, and several   *)
(* may be given back at once.                                              *)
(***************************************************************************)
EXTENDS Naturals, FiniteSets

CONSTANTS Holder, Max

VARIABLES live, others

Take(h) ==
  /\ h \notin live /\ Cardinality(live) + others < Max
  /\ live' = live \cup {h} /\ UNCHANGED others

GiveBack ==
  /\ live' \subseteq live /\ UNCHANGED others

OthersTake ==
  /\ Cardinality(live) + others < Max
  /\ others' = others + 1 /\ UNCHANGED live

OthersGiveBack ==
  /\ others > 0
  /\ others' = others - 1 /\ UNCHANGED live

Init == live = {} /\ others = 0

Next == (\E h \in Holder : Take(h)) \/ GiveBack \/ OthersTake \/ OthersGiveBack

Spec == Init /\ [][Next]_<<live, others>>
=============================================================================

------------------------------- MODULE MCHealth -------------------------------
(* A health check and a scraper that share one permit, and two forwarders. *)
EXTENDS Health
=============================================================================

---------------------------- MODULE MCConnection ----------------------------
(* Instances of Connection for TLC: which slips may happen is in each .cfg.  *)
EXTENDS Connection
=============================================================================

----------------------------- MODULE MCTransfer -----------------------------
(* The instance of Transfer for TLC: its sizes are in MCTransfer.cfg.        *)
EXTENDS Transfer
=============================================================================

----------------------------- MODULE MCAcceptor -----------------------------
(* The instance of Acceptor for TLC: its clients are in MCAcceptor.cfg.      *)
EXTENDS Acceptor
=============================================================================

---------------------------- MODULE MCThreadpool ----------------------------
(* The instance of Threadpool for TLC.  The threads and tasks are not         *)
(* interchangeable here: the run checks liveness.                             *)
EXTENDS Threadpool
=============================================================================

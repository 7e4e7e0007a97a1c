------------------------------ MODULE MCWorker ------------------------------
(***************************************************************************)
(* Small instances of PBFTWorker for TLC.                                  *)
(***************************************************************************)
EXTENDS PBFTWorker

=============================================================================

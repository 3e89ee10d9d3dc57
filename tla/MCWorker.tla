------------------------------ MODULE MCWorker ------------------------------
(* The instances of Worker for TLC. *)
EXTENDS Worker

=============================================================================

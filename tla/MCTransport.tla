---------------------------- MODULE MCTransport ----------------------------
(***************************************************************************)
(* Transport on small instances.                                           *)
(***************************************************************************)
EXTENDS Transport, TLC

\* What is no ping is asked of the slot of every ping.
OfEverySlot == (Queries \ Pings) \X Pings

Symmetry == Permutations(Readers) \cup Permutations(Closers)
=============================================================================

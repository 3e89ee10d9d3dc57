------------------------------ MODULE MCApplet ------------------------------
(***************************************************************************)
(* Applet with the agent and a command beside it.                          *)
(***************************************************************************)
EXTENDS Applet
=============================================================================

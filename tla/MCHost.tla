-------------------------------- MODULE MCHost --------------------------------
(* Host on small instances. *)
EXTENDS Host
=============================================================================

------------------------------ MODULE MCFleet ------------------------------
(* The instances of Fleet for TLC: a Mac and a PC that want different platforms. The two
   are alike, so it is never the PC that is typed on first. *)
EXTENDS Fleet

MCTarget == [m \in {"mac", "pc"} |-> IF m = "mac" THEN "macos" ELSE "windows"]
MCInit == Init /\ typed # "pc"
MCSpec == MCInit /\ [][Next]_vars /\ Fairness
=============================================================================

----------------------------- MODULE Correction -----------------------------
(***************************************************************************)
(* What one check-and-correct call promises about the keyboard it is made  *)
(* on, whoever makes it and however it is scheduled: the keyboard is       *)
(* written at most once in a call, with the wanted platform only, and only *)
(* after a look in the same call that found another one. A call may fail   *)
(* at any point. The rest of the world writes what it likes at any time.   *)
(***************************************************************************)
CONSTANT Platforms

VARIABLES
  platform,    \* the platform the keyboard is in
  want,        \* the one it should be in
  phase        \* how far the call is: idle, looking, differs, written

cvars == <<platform, want, phase>>

Init == platform \in Platforms /\ want \in Platforms /\ phase = "idle"

Begin ==
  /\ phase = "idle" /\ phase' = "looking"
  /\ UNCHANGED <<platform, want>>

Look ==
  /\ phase = "looking"
  /\ phase' = IF platform = want THEN "idle" ELSE "differs"
  /\ UNCHANGED <<platform, want>>

\* The keyboard may ignore the write.
Write ==
  /\ phase = "differs" /\ phase' = "written"
  /\ platform' \in {platform, want}
  /\ UNCHANGED want

\* A write nobody acknowledged may have landed all the same.
WriteLost ==
  /\ phase = "differs" /\ phase' = "idle"
  /\ platform' \in {platform, want}
  /\ UNCHANGED want

Check ==
  /\ phase = "written" /\ phase' = "idle"
  /\ UNCHANGED <<platform, want>>

Fail ==
  /\ phase # "idle" /\ phase' = "idle"
  /\ UNCHANGED <<platform, want>>

World ==
  /\ platform' \in Platforms
  /\ UNCHANGED <<want, phase>>

Next == Begin \/ Look \/ Write \/ WriteLost \/ Check \/ Fail \/ World

Spec == Init /\ [][Next]_cvars
=============================================================================

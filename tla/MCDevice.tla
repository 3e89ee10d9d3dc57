------------------------------ MODULE MCDevice ------------------------------
(***************************************************************************)
(* Device on a few keyboards: one with every feature and the firmware bug, *)
(* one whose first descriptor is short and that names the target twice, an *)
(* old one, one that cannot answer for its hosts, one that never names the *)
(* target, and a mouse.                                                    *)
(***************************************************************************)
EXTENDS Device

Modern == [kind |-> "multi", table |-> <<{"windows"}, {"macos", "ios"}>>, short |-> {},
           hosts |-> "full", quirk |-> TRUE, pinned |-> FALSE]
Old == [kind |-> "dual", table |-> <<{"ios", "macos"}, {"android", "windows"}>>,
        short |-> {}, hosts |-> "none", quirk |-> FALSE, pinned |-> FALSE]

MCKeyboards ==
  {Modern, [Modern EXCEPT !.pinned = TRUE], Old,
   [Modern EXCEPT !.hosts = "none", !.quirk = FALSE],
   [Modern EXCEPT !.hosts = "terse", !.quirk = FALSE,
                  !.table = <<{"macos"}, {"windows", "macos"}, {"macos"}>>, !.short = {1}],
   [Modern EXCEPT !.short = {2}], [Modern EXCEPT !.short = {1, 2}],
   [Old EXCEPT !.kind = "none"]}
=============================================================================

------------------------------- MODULE Applet -------------------------------
(***************************************************************************)
(* The application bundle macOS attributes notifications to                *)
(* (logiswitch/notify/_macapp.py): found or built at the first             *)
(* notification of a process, swapped into place with two renames, run,    *)
(* and given up for osascript when it does not run. Several processes do   *)
(* this at once (the agent, notify-test, doctor) and may be killed at any  *)
(* step, while an uninstall, the user or the OS spoil the bundle.          *)
(***************************************************************************)
EXTENDS Integers

CONSTANTS
  Processes,
  Agent,       \* the one that runs for long; the others are commands
  Faults,      \* what may go wrong in an instance
  MaxFaults    \* bound on it

\* A bundle on disk. good: stamp and seal are right. stale: it runs, but was built from
\* another script or icon. broken: the stamp is right and it does not run. husk: half
\* deleted, stamp or applet missing.
None == "none"
Bundles == {"good", "stale", "broken", "husk"}
Runs == {"good", "stale"}

ASSUME AppletAssumption == MaxFaults \in Nat /\ Agent \in Processes

VARIABLES
  target,      \* Layout Auto Switcher.app in data_dir
  old,         \* Layout Auto Switcher.app.old
  pc,          \* idle, ensure, build; clear, look, aside, land, tidy (_swap); show, osascript
  resolved,    \* _tried and _resolved of each process
  job,         \* what it decides for: a note to show, or the name of the backend
  removing,    \* an uninstall is deleting the bundle
  faults,
  ghost        \* what the properties remember: whether the last note of each process was
               \*   shown; whether a bundle that runs should be on disk; kills; builds
               \*   that met

disk == <<target, old>>
vars == <<target, old, pc, resolved, job, removing, faults, ghost>>

Swapping == {"clear", "look", "aside", "land"}

-----------------------------------------------------------------------------
Init ==
  /\ target \in Bundles \cup {None} /\ old \in {None, "stale"}
  /\ pc = [p \in Processes |-> "idle"]
  /\ resolved = [p \in Processes |-> "untried"]
  /\ job = [p \in Processes |-> "name"]
  /\ removing = FALSE /\ faults = 0
  /\ ghost = [shown |-> [p \in Processes |-> TRUE], had |-> target \in Runs,
              kills |-> 0, overlap |-> FALSE]

Goto(p, label) == pc' = [pc EXCEPT ![p] = label]
Resolve(p, what) == resolved' = [resolved EXCEPT ![p] = what]

Fault(f) == f \in Faults /\ faults < MaxFaults /\ faults' = faults + 1

-----------------------------------------------------------------------------
(* Deciding: ensure and _prepare *)

\* The courier takes a note to _send_macos, or a command does (notify-test) or asks for
\* backend_name (doctor).
Begin(p) ==
  /\ pc[p] = "idle" /\ Goto(p, "ensure")
  /\ \/ p = Agent /\ UNCHANGED <<resolved, faults>>
     \/ p # Agent /\ Resolve(p, "untried") /\ Fault("command")
  /\ \E j \in {"note", "name"} :
       /\ job' = [job EXCEPT ![p] = j]
       /\ ghost' = [ghost EXCEPT !.shown[p] = j = "name"]
  /\ UNCHANGED <<disk, removing>>

\* What is decided is used at once if there is something to show.
Decided(p, what) ==
  /\ Resolve(p, what)
  /\ Goto(p, IF job[p] = "name" THEN "idle"
             ELSE IF what = "applet" THEN "show" ELSE "osascript")

\* Once per process, unless forgotten. The stamp and the applet's presence are all that is
\* looked at.
Ensure(p) ==
  /\ pc[p] = "ensure"
  /\ \/ resolved[p] # "untried" /\ Decided(p, resolved[p])
     \/ /\ resolved[p] = "untried" /\ target \in {"good", "broken"}
        /\ Decided(p, "applet")
     \/ /\ resolved[p] = "untried" /\ target \notin {"good", "broken"}
        /\ Goto(p, "build") /\ UNCHANGED resolved
  /\ UNCHANGED <<disk, job, removing, faults, ghost>>

\* build works in a directory of its own beside the target: compile, icon, plist, stamp,
\* and the signature last.
Build(p) ==
  /\ pc[p] = "build"
  /\ Goto(p, "clear")
  /\ ghost' = [ghost EXCEPT !.overlap = @ \/ \E q \in Processes \ {p} :
                                               pc[q] \in Swapping \cup {"tidy"}]
  /\ UNCHANGED <<disk, resolved, job, removing, faults>>

\* Every tool may be missing, fail or time out; the target is untouched.
BuildFails(p) ==
  /\ pc[p] = "build" /\ Fault("tool")
  /\ Decided(p, "osascript")
  /\ UNCHANGED <<disk, job, removing, ghost>>

-----------------------------------------------------------------------------
(* _swap *)

Clear(p) ==
  /\ pc[p] = "clear" /\ Goto(p, "look")
  /\ old' = None
  /\ UNCHANGED <<target, resolved, job, removing, faults, ghost>>

LookAtTarget(p) ==
  /\ pc[p] = "look"
  /\ Goto(p, IF target = None THEN "land" ELSE "aside")
  /\ UNCHANGED <<disk, resolved, job, removing, faults, ghost>>

\* Mutant: the old bundle is deleted to make room.
AsideDeletes(p) ==
  /\ pc[p] = "aside" /\ target # None
  /\ target' = None /\ Goto(p, "land")
  /\ UNCHANGED <<old, resolved, job, removing, faults, ghost>>

Aside(p) ==
  /\ pc[p] = "aside" /\ target # None /\ old = None
  /\ old' = target /\ target' = None /\ Goto(p, "land")
  /\ UNCHANGED <<resolved, job, removing, faults, ghost>>

Land(p) ==
  /\ pc[p] = "land" /\ target = None
  /\ target' = "good" /\ Goto(p, "tidy")
  /\ ghost' = [ghost EXCEPT !.had = TRUE]
  /\ UNCHANGED <<old, resolved, job, removing, faults>>

\* A rename onto a directory that is there, or of one that is not: another process or an
\* uninstall came between, and build raises.
RenameFails(p) ==
  /\ \/ pc[p] = "aside" /\ (target = None \/ old # None)
     \/ pc[p] = "land" /\ target # None
  /\ Decided(p, "osascript")
  /\ UNCHANGED <<disk, job, removing, faults, ghost>>

\* Mutant: what is at the target is remembered, not whether it is an applet to run.
TidyRemembersTarget(p) ==
  /\ pc[p] = "tidy"
  /\ old' = None
  /\ Decided(p, target)
  /\ UNCHANGED <<target, job, removing, faults, ghost>>

\* build returns, and _prepare looks whether the applet is there.
Tidy(p) ==
  /\ pc[p] = "tidy"
  /\ old' = None
  /\ Decided(p, IF target \in {None, "husk"} THEN "osascript" ELSE "applet")
  /\ UNCHANGED <<target, job, removing, faults, ghost>>

-----------------------------------------------------------------------------
(* Posting: _send_macos *)

Show(p) ==
  /\ pc[p] = "show" /\ target \in Runs
  /\ Goto(p, "idle")
  /\ ghost' = [ghost EXCEPT !.shown[p] = TRUE]
  /\ UNCHANGED <<disk, resolved, job, removing, faults>>

\* Mutant: a failed run is not forgotten.
ShowFailsKept(p) ==
  /\ pc[p] = "show"
  /\ \/ target \notin Runs /\ UNCHANGED faults
     \/ target \in Runs /\ Fault("slow")
  /\ Goto(p, "osascript")
  /\ UNCHANGED <<disk, resolved, job, removing, ghost>>

\* Mutant: a failed run is the end of the note.
ShowFailsSilently(p) ==
  /\ pc[p] = "show" /\ target \notin Runs
  /\ Goto(p, "idle") /\ Resolve(p, "untried")
  /\ UNCHANGED <<disk, job, removing, faults, ghost>>

\* The applet does not run, or not within SEND_TIMEOUT: decide again next time (forget),
\* and get this note out another way.
ShowFails(p) ==
  /\ pc[p] = "show"
  /\ \/ target \notin Runs /\ UNCHANGED faults
     \/ target \in Runs /\ Fault("slow")
  /\ Goto(p, "osascript") /\ Resolve(p, "untried")
  /\ UNCHANGED <<disk, job, removing, ghost>>

\* What osascript raises is swallowed by deliver: the note is out, or out of our hands.
Osascript(p) ==
  /\ pc[p] = "osascript" /\ Goto(p, "idle")
  /\ ghost' = [ghost EXCEPT !.shown[p] = TRUE]
  /\ UNCHANGED <<disk, resolved, job, removing, faults>>

-----------------------------------------------------------------------------
(* What happens to a process and to the bundle *)

Killed(p) ==
  /\ Fault("kill")
  /\ Goto(p, "idle") /\ Resolve(p, "untried")
  /\ ghost' = [ghost EXCEPT !.shown[p] = TRUE, !.kills = @ + 1]
  /\ UNCHANGED <<disk, job, removing>>

\* An OS upgrade that no longer accepts the signature.
Invalidated ==
  /\ target = "good" /\ Fault("os")
  /\ target' = "broken"
  /\ ghost' = [ghost EXCEPT !.had = FALSE]
  /\ UNCHANGED <<old, pc, resolved, job, removing>>

\* The user throws the app away.
Deleted ==
  /\ target # None /\ Fault("delete")
  /\ target' = None
  /\ ghost' = [ghost EXCEPT !.had = FALSE]
  /\ UNCHANGED <<old, pc, resolved, job, removing>>

\* _remove_notifier_app deletes file by file, and may be interrupted or find that the
\* bundle has moved.
RemoveBegins ==
  /\ target # None /\ ~removing /\ Fault("uninstall")
  /\ removing' = TRUE
  /\ target' \in {"husk", IF target = "good" THEN "broken" ELSE "husk"}
  /\ ghost' = [ghost EXCEPT !.had = FALSE]
  /\ UNCHANGED <<old, pc, resolved, job>>

RemoveEnds ==
  /\ removing /\ removing' = FALSE
  /\ target' \in {target, None}
  /\ ghost' = [ghost EXCEPT !.had = FALSE]
  /\ UNCHANGED <<old, pc, resolved, job, faults>>

-----------------------------------------------------------------------------
Send(p) ==
  \/ Ensure(p) \/ Build(p) \/ BuildFails(p)
  \/ Clear(p) \/ LookAtTarget(p) \/ Aside(p) \/ Land(p) \/ RenameFails(p) \/ Tidy(p)
  \/ Show(p) \/ ShowFails(p) \/ Osascript(p)

World == Invalidated \/ Deleted \/ RemoveBegins \/ RemoveEnds

Next == World \/ \E p \in Processes : Begin(p) \/ Send(p) \/ Killed(p)

Spec == Init /\ [][Next]_vars

\* A process that has begun goes on; every tool it runs has a timeout. Nothing makes a
\* process notify, and an uninstall that has begun comes to an end.
FairSpec == Spec /\ WF_vars(RemoveEnds) /\ \A p \in Processes : WF_vars(Send(p))

-----------------------------------------------------------------------------
(* Properties *)

TypeOK ==
  /\ target \in Bundles \cup {None} /\ old \in Bundles \cup {None}
  /\ pc \in [Processes -> Swapping \cup {"idle", "ensure", "build", "tidy", "show",
                                        "osascript"}]
  /\ resolved \in [Processes -> {"untried", "applet", "osascript"}]
  /\ job \in [Processes -> {"note", "name"}]
  /\ removing \in BOOLEAN /\ faults \in 0..MaxFaults
  /\ ghost \in [shown : [Processes -> BOOLEAN], had : BOOLEAN, kills : 0..MaxFaults,
               overlap : BOOLEAN]

\* A bundle that runs is not lost to its own replacement (_swap: "keeping the old one until
\* the new one lands"). Without a kill it stays in its place, but for the moment between the
\* two renames, when the swap that moved it aside goes on to put its successor there. A kill
\* at any step still leaves a copy on disk or another swap at work; but a copy that stays
\* aside is never put back: nothing looks for it, and the next build deletes it.
OneSurvives ==
  ghost.had /\ ~ghost.overlap =>
    /\ ghost.kills = 0 =>
         \/ target \in Runs
         \/ old \in Runs /\ \E p \in Processes : pc[p] = "land"
    /\ ghost.kills = 1 =>
         \/ target \in Runs \/ old \in Runs
         \/ \E p \in Processes : pc[p] \in Swapping

\* A note is shown whatever becomes of the bundle while it is being sent; only osascript
\* itself can fail it (_send_macos: "a failure here is not a lost notification").
NoneLost == \A p \in Processes : pc[p] = "idle" => ghost.shown[p]

\* If the agent goes on notifying, it ends up with a whole bundle of this version on disk,
\* however often the bundle was thrown away, half deleted or left behind by an older
\* version, unless it has settled for osascript after a failed build, or the bundle is
\* broken behind a right stamp.
Rebuilt ==
  []<>(pc[Agent] \in {"show", "osascript"}) =>
    <>[](target = "good" \/ resolved[Agent] = "osascript" \/ target = "broken")
=============================================================================

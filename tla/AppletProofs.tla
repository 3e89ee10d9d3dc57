---------------------------- MODULE AppletProofs ----------------------------
(***************************************************************************)
(* What the notification bundle keeps for any number of processes that     *)
(* build and swap it and any number of faults: its types, that no note is  *)
(* lost to it, and that a bundle which runs survives its own replacement.  *)
(***************************************************************************)
EXTENDS Applet, TLAPS

Ghosts == [shown : [Processes -> BOOLEAN], had : BOOLEAN, kills : 0..MaxFaults,
           overlap : BOOLEAN]
Labels == Swapping \cup {"idle", "ensure", "build", "tidy", "show", "osascript"}
Busy == Swapping \cup {"tidy"}

\* A note that is not shown is still being sent.
Sending ==
  \A p \in Processes : ~ghost.shown[p] => pc[p] # "idle" /\ job[p] = "note"

\* As long as no two builds met, one process swaps, and finds on disk what it left there.
Alone ==
  ~ghost.overlap =>
    /\ \A p, q \in Processes : pc[p] \in Busy /\ pc[q] \in Busy => p = q
    /\ \A p \in Processes :
         /\ pc[p] \in {"look", "aside"} => old = None
         /\ ghost.had /\ pc[p] = "aside" => target # None
         /\ ghost.had /\ pc[p] = "land" => target = None
         /\ ghost.had /\ pc[p] = "tidy" => target = "good"

AppletInv == TypeOK /\ ghost.kills <= faults /\ Sending /\ Alone /\ OneSurvives

-----------------------------------------------------------------------------
(* The types *)

\* TypeOK in parts.
DiskOK ==
  target \in Bundles \cup {None} /\ old \in Bundles \cup {None} /\ removing \in BOOLEAN
FaultsOK == faults \in 0..MaxFaults /\ ghost.kills <= faults
LocalOK ==
  /\ pc \in [Processes -> Labels] /\ job \in [Processes -> {"note", "name"}]
  /\ resolved \in [Processes -> {"untried", "applet", "osascript"}]

\* Goto and Resolve, and Decided, which is both.
LEMMA DecidedType ==
  ASSUME TypeOK, NEW p \in Processes, NEW what \in {"untried", "applet", "osascript"},
         Decided(p, what)
  PROVE  /\ pc' \in [Processes -> Labels]
         /\ resolved' \in [Processes -> {"untried", "applet", "osascript"}]
         /\ \A q \in Processes \ {p} : pc'[q] = pc[q]
         /\ pc'[p] \in {"idle", "show", "osascript"}
         /\ job[p] # "name" => pc'[p] # "idle"
<1>1. PICK to \in {"idle", "show", "osascript"} :
         pc' = [pc EXCEPT ![p] = to] /\ (job[p] # "name" => to # "idle")
  BY Zenon DEF Decided, Goto
<1>2. pc' \in [Processes -> Labels]
  BY <1>1, Zenon DEF TypeOK, Labels
<1>3. resolved' \in [Processes -> {"untried", "applet", "osascript"}]
  BY Zenon DEF Decided, Resolve, TypeOK
<1> QED BY <1>1, <1>2, <1>3 DEF TypeOK

\* What the properties remember.
LEMMA GhostType ==
  ASSUME NEW g \in Ghosts, NEW p \in Processes, NEW b \in BOOLEAN
  PROVE  /\ [g EXCEPT !.shown[p] = b] \in Ghosts
         /\ [g EXCEPT !.had = b] \in Ghosts /\ [g EXCEPT !.overlap = b] \in Ghosts
         /\ g.kills < MaxFaults => [g EXCEPT !.shown[p] = b, !.kills = @ + 1] \in Ghosts
<1>1. [g.shown EXCEPT ![p] = b] \in [Processes -> BOOLEAN]
  BY Zenon DEF Ghosts
<1>2. g.kills < MaxFaults => g.kills + 1 \in 0..MaxFaults
  <2>1. g.kills \in 0..MaxFaults /\ MaxFaults \in Nat
    BY AppletAssumption DEF Ghosts
  <2> QED BY <2>1
<1>3. [g EXCEPT !.shown[p] = b] \in Ghosts
  <2>1. [g EXCEPT !.shown[p] = b] = [g EXCEPT !.shown = [g.shown EXCEPT ![p] = b]]
    OBVIOUS
  <2> QED BY <1>1, <2>1, Zenon DEF Ghosts
<1>4. g.kills < MaxFaults => [g EXCEPT !.shown[p] = b, !.kills = @ + 1] \in Ghosts
  <2>1. [g EXCEPT !.shown[p] = b, !.kills = @ + 1]
          = [g EXCEPT !.shown = [g.shown EXCEPT ![p] = b], !.kills = g.kills + 1]
    OBVIOUS
  <2> QED BY <1>1, <1>2, <2>1, Zenon DEF Ghosts
<1> QED BY <1>3, <1>4, Zenon DEF Ghosts

\* Every step keeps the types of the disk and the flags.
LEMMA DiskStep ==
  ASSUME TypeOK, [Next]_vars
  PROVE  DiskOK'
<1> USE DEF DiskOK, TypeOK, Bundles, None, disk, vars
<1>0. TypeOK /\ MaxFaults \in Nat
  BY AppletAssumption
<1>1. ASSUME NEW p \in Processes, Begin(p) \/ Ensure(p) \/ Build(p) \/ BuildFails(p)
              \/ Clear(p) \/ LookAtTarget(p) \/ Aside(p) \/ Land(p) \/ RenameFails(p)
              \/ Tidy(p) \/ Show(p) \/ ShowFails(p) \/ Osascript(p) \/ Killed(p)
      PROVE  DiskOK'
  BY <1>0, <1>1, Zenon DEF Begin, Goto, Resolve, Fault, Ensure, Build, BuildFails,
     Clear, LookAtTarget, Aside, Land, RenameFails, Tidy, Show, ShowFails, Osascript,
     Killed
<1>2. CASE Invalidated
  BY <1>0, <1>2, Zenon DEF Invalidated, Fault
<1>3. CASE Deleted
  BY <1>0, <1>3, Zenon DEF Deleted, Fault
<1>4. CASE RemoveBegins
  BY <1>0, <1>4, Zenon DEF RemoveBegins, Fault
<1>5. CASE RemoveEnds
  BY <1>0, <1>5, Zenon DEF RemoveEnds
<1>6. CASE UNCHANGED vars
  BY <1>0, <1>6, Zenon DEF vars
<1> QED BY <1>1, <1>2, <1>3, <1>4, <1>5, <1>6 DEF Next, Send, World

\* Every step keeps the count of faults, and of kills among them.
LEMMA FaultsStep ==
  ASSUME TypeOK, ghost.kills <= faults, [Next]_vars
  PROVE  FaultsOK'
<1> USE DEF FaultsOK, TypeOK, Runs, vars
<1>0. TypeOK /\ MaxFaults \in Nat
  BY AppletAssumption
<1>1. ASSUME NEW p \in Processes, Begin(p) PROVE FaultsOK'
  BY <1>0, <1>1 DEF Begin, Goto, Resolve, Fault
<1>2. ASSUME NEW p \in Processes, BuildFails(p) PROVE FaultsOK'
  BY <1>0, <1>2 DEF BuildFails, Fault
<1>3. ASSUME NEW p \in Processes, ShowFails(p) PROVE FaultsOK'
  BY <1>0, <1>3 DEF ShowFails, Goto, Resolve, Fault
<1>4. ASSUME NEW p \in Processes, Killed(p) PROVE FaultsOK'
  BY <1>0, <1>4 DEF Killed, Goto, Resolve, Fault
<1>5. ASSUME NEW p \in Processes, Ensure(p) \/ Build(p) \/ Clear(p) \/ LookAtTarget(p)
              \/ Aside(p) \/ Land(p) \/ RenameFails(p) \/ Tidy(p) \/ Show(p) \/
              Osascript(p)
      PROVE  FaultsOK'
  BY <1>0, <1>5 DEF Ensure, Goto, Build, Clear, LookAtTarget, Aside, Land,
     RenameFails, Tidy, Show, Osascript
<1>6. CASE Invalidated
  BY <1>0, <1>6 DEF Invalidated, Fault
<1>7. CASE Deleted
  BY <1>0, <1>7 DEF Deleted, Fault
<1>8. CASE RemoveBegins
  BY <1>0, <1>8 DEF RemoveBegins, Fault
<1>9. CASE RemoveEnds
  BY <1>0, <1>9 DEF RemoveEnds
<1>10. CASE UNCHANGED vars
  BY <1>0, <1>10 DEF vars
<1> QED BY <1>1, <1>2, <1>3, <1>4, <1>5, <1>6, <1>7, <1>8, <1>9, <1>10 DEF Next, Send,
   World

\* Every step keeps the types of what a process has.
LEMMA LocalStep ==
  ASSUME TypeOK, [Next]_vars
  PROVE  LocalOK'
<1> USE DEF LocalOK, TypeOK, Labels, Swapping
<1>0. TypeOK /\ MaxFaults \in Nat
  BY AppletAssumption
<1>1. ASSUME NEW p \in Processes, Begin(p) PROVE LocalOK'
  <2>1. pc' \in [Processes -> Labels]
    BY <1>1, Zenon DEF Begin, Goto
  <2>2. resolved' \in [Processes -> {"untried", "applet", "osascript"}]
    BY <1>1, Zenon DEF Begin, Resolve
  <2>3. job' \in [Processes -> {"note", "name"}]
    BY <1>1, Zenon DEF Begin
  <2> QED BY <2>1, <2>2, <2>3
<1>2. ASSUME NEW p \in Processes, Ensure(p) PROVE LocalOK'
  BY <1>0, <1>2, DecidedType, Zenon DEF Ensure, Goto
<1>3. ASSUME NEW p \in Processes, Build(p) PROVE LocalOK'
  BY <1>0, <1>3, DecidedType, Zenon DEF Build, Goto
<1>4. ASSUME NEW p \in Processes, BuildFails(p) PROVE LocalOK'
  BY <1>0, <1>4, DecidedType, Zenon DEF BuildFails, Fault
<1>5. ASSUME NEW p \in Processes, Clear(p) PROVE LocalOK'
  BY <1>0, <1>5, DecidedType, Zenon DEF Clear, Goto
<1>6. ASSUME NEW p \in Processes, LookAtTarget(p) PROVE LocalOK'
  BY <1>0, <1>6, DecidedType, Zenon DEF LookAtTarget, Goto
<1>7. ASSUME NEW p \in Processes, Aside(p) PROVE LocalOK'
  BY <1>0, <1>7, DecidedType, Zenon DEF Aside, Goto
<1>8. ASSUME NEW p \in Processes, Land(p) PROVE LocalOK'
  BY <1>0, <1>8, DecidedType, Zenon DEF Land, Goto
<1>9. ASSUME NEW p \in Processes, RenameFails(p) PROVE LocalOK'
  BY <1>0, <1>9, DecidedType, Zenon DEF RenameFails
<1>10. ASSUME NEW p \in Processes, Tidy(p) PROVE LocalOK'
  BY <1>0, <1>10, DecidedType, Zenon DEF Tidy
<1>11. ASSUME NEW p \in Processes, Show(p) PROVE LocalOK'
  BY <1>0, <1>11, DecidedType, Zenon DEF Show, Goto
<1>12. ASSUME NEW p \in Processes, ShowFails(p) PROVE LocalOK'
  BY <1>0, <1>12, DecidedType, Zenon DEF ShowFails, Goto, Resolve, Fault
<1>13. ASSUME NEW p \in Processes, Osascript(p) PROVE LocalOK'
  BY <1>0, <1>13, DecidedType, Zenon DEF Osascript, Goto
<1>14. ASSUME NEW p \in Processes, Killed(p) PROVE LocalOK'
  BY <1>0, <1>14, DecidedType, Zenon DEF Killed, Goto, Resolve, Fault
<1>15. CASE Invalidated
  BY <1>0, <1>15, DecidedType, Zenon DEF Invalidated, Fault
<1>16. CASE Deleted
  BY <1>0, <1>16, DecidedType, Zenon DEF Deleted, Fault
<1>17. CASE RemoveBegins
  BY <1>0, <1>17, DecidedType, Zenon DEF RemoveBegins, Fault
<1>18. CASE RemoveEnds
  BY <1>0, <1>18, DecidedType, Zenon DEF RemoveEnds
<1>19. CASE UNCHANGED vars
  BY <1>0, <1>19, DecidedType, Zenon DEF vars
<1> QED BY <1>1, <1>2, <1>3, <1>4, <1>5, <1>6, <1>7, <1>8, <1>9, <1>10, <1>11, <1>12,
   <1>13, <1>14, <1>15, <1>16, <1>17, <1>18, <1>19 DEF Next, Send, World

\* Every step keeps the types of what the properties remember.
LEMMA GhostStep ==
  ASSUME TypeOK, ghost.kills <= faults, [Next]_vars
  PROVE  ghost' \in Ghosts
<1> USE DEF TypeOK, Ghosts, Runs
<1>0. TypeOK
  OBVIOUS
<1>1. ASSUME NEW p \in Processes, Begin(p) PROVE ghost' \in Ghosts
  <2>1. PICK b \in BOOLEAN : ghost' = [ghost EXCEPT !.shown[p] = b]
    BY <1>1, Zenon DEF Begin
  <2> QED BY <1>0, <2>1, GhostType, Zenon
<1>2. ASSUME NEW p \in Processes, Build(p) PROVE ghost' \in Ghosts
  BY <1>0, <1>2, GhostType, Zenon DEF Build, Goto
<1>3. ASSUME NEW p \in Processes, Land(p) PROVE ghost' \in Ghosts
  BY <1>0, <1>3, GhostType, Zenon DEF Land, Goto
<1>4. ASSUME NEW p \in Processes, Show(p) PROVE ghost' \in Ghosts
  BY <1>0, <1>4, GhostType, Zenon DEF Show, Goto
<1>5. ASSUME NEW p \in Processes, Osascript(p) PROVE ghost' \in Ghosts
  BY <1>0, <1>5, GhostType, Zenon DEF Osascript, Goto
<1>6. ASSUME NEW p \in Processes, Killed(p) PROVE ghost' \in Ghosts
  <2>1. ghost.kills < MaxFaults
    <3>1. faults < MaxFaults /\ faults \in Int /\ ghost.kills \in Int /\ MaxFaults \in Int
      BY <1>6, AppletAssumption DEF Killed, Fault
    <3> QED BY <3>1
  <2>2. ghost' = [ghost EXCEPT !.shown[p] = TRUE, !.kills = @ + 1]
    BY <1>6 DEF Killed
  <2> QED BY <1>0, <2>1, <2>2, GhostType
<1>7. ASSUME NEW p \in Processes, Ensure(p) \/ BuildFails(p) \/ Clear(p) \/
              LookAtTarget(p) \/ Aside(p) \/ RenameFails(p) \/ Tidy(p) \/ ShowFails(p)
      PROVE  ghost' \in Ghosts
  <2>1. ghost' = ghost
    BY <1>7, Zenon DEF Ensure, BuildFails, Clear, LookAtTarget, Aside, RenameFails,
       Tidy, ShowFails
  <2> QED BY <1>0, <2>1
<1>8. CASE Invalidated
  BY <1>0, <1>8, GhostType, Zenon DEF Invalidated, Fault
<1>9. CASE Deleted
  BY <1>0, <1>9, GhostType, Zenon DEF Deleted, Fault
<1>10. CASE RemoveBegins
  BY <1>0, <1>10, GhostType, Zenon DEF RemoveBegins, Fault
<1>11. CASE RemoveEnds
  BY <1>0, <1>11, GhostType, Zenon DEF RemoveEnds
<1>12. CASE UNCHANGED vars
  BY <1>0, <1>12, GhostType, Zenon DEF vars
<1> QED BY <1>1, <1>2, <1>3, <1>4, <1>5, <1>6, <1>7, <1>8, <1>9, <1>10, <1>11, <1>12
   DEF Next, Send, World

\* All the types together.
LEMMA TypeStep ==
  ASSUME TypeOK, ghost.kills <= faults, [Next]_vars
  PROVE  TypeOK' /\ (ghost.kills <= faults)'
BY DiskStep, FaultsStep, LocalStep, GhostStep
   DEF TypeOK, Labels, Ghosts, DiskOK, FaultsOK, LocalOK

-----------------------------------------------------------------------------
(* The invariant *)

\* Every step keeps a note that is not shown on its way.
LEMMA SendingStep ==
  ASSUME TypeOK, Sending, [Next]_vars
  PROVE  Sending'
<1> USE DEF TypeOK, Sending, vars
<1>0. TypeOK /\ Sending
  OBVIOUS
<1>1. ASSUME NEW p \in Processes, Begin(p) PROVE Sending'
  <2>1. PICK j \in {"note", "name"} : /\ job' = [job EXCEPT ![p] = j]
                                     /\ ghost' = [ghost EXCEPT !.shown[p] = j = "name"]
    BY <1>1, Zenon DEF Begin
  <2>2. ghost'.shown[p] <=> j = "name"
    BY <1>0, <2>1, Zenon
  <2>3. pc'[p] = "ensure" /\ job'[p] = j
    BY <1>0, <1>1, <2>1, Zenon DEF Begin, Goto
  <2>4. ASSUME NEW q \in Processes \ {p}
        PROVE  /\ ghost'.shown[q] = ghost.shown[q]
               /\ pc'[q] = pc[q] /\ job'[q] = job[q]
    BY <1>0, <1>1, <2>1, Zenon DEF Begin, Goto
  <2> QED BY <1>0, <2>1, <2>2, <2>3, <2>4, Zenon
<1>2. ASSUME NEW p \in Processes, Ensure(p) PROVE Sending'
  BY <1>0, <1>2, DecidedType, Zenon DEF Ensure, Goto
<1>3. ASSUME NEW p \in Processes, BuildFails(p) PROVE Sending'
  BY <1>0, <1>3, DecidedType, Zenon DEF BuildFails, Fault
<1>4. ASSUME NEW p \in Processes, RenameFails(p) PROVE Sending'
  BY <1>0, <1>4, DecidedType, Zenon DEF RenameFails
<1>5. ASSUME NEW p \in Processes, Tidy(p) PROVE Sending'
  BY <1>0, <1>5, DecidedType, Zenon DEF Tidy
<1>6. ASSUME NEW p \in Processes, Show(p) PROVE Sending'
  BY <1>0, <1>6, DecidedType, Zenon DEF Show, Goto
<1>7. ASSUME NEW p \in Processes, Osascript(p) PROVE Sending'
  BY <1>0, <1>7, DecidedType, Zenon DEF Osascript, Goto
<1>8. ASSUME NEW p \in Processes, Killed(p) PROVE Sending'
  <2>1. ghost'.shown = [ghost.shown EXCEPT ![p] = TRUE]
    BY <1>0, <1>8 DEF Killed
  <2>2. pc' = [pc EXCEPT ![p] = "idle"] /\ job' = job
    BY <1>8 DEF Killed, Goto
  <2> QED BY <1>0, <2>1, <2>2, Zenon
<1>9. ASSUME NEW p \in Processes, Clear(p) \/ LookAtTarget(p) \/ Aside(p) \/ Build(p)
              \/ Land(p) \/ ShowFails(p)
      PROVE  Sending'
  BY <1>0, <1>9, DecidedType, Zenon DEF Clear, Goto, LookAtTarget, Aside, Build, Land,
     ShowFails, Resolve, Fault
<1>10. CASE Invalidated
  BY <1>0, <1>10, DecidedType, Zenon DEF Invalidated, Fault
<1>11. CASE Deleted
  BY <1>0, <1>11, DecidedType, Zenon DEF Deleted, Fault
<1>12. CASE RemoveBegins
  BY <1>0, <1>12, DecidedType, Zenon DEF RemoveBegins, Fault
<1>13. CASE RemoveEnds
  BY <1>0, <1>13, DecidedType, Zenon DEF RemoveEnds
<1>14. CASE UNCHANGED vars
  BY <1>0, <1>14, DecidedType, Zenon DEF vars
<1> QED BY <1>1, <1>2, <1>3, <1>4, <1>5, <1>6, <1>7, <1>8, <1>9, <1>10, <1>11, <1>12,
   <1>13, <1>14 DEF Next, Send, World

\* Every step keeps a swap that met no other to itself.
LEMMA AloneStep ==
  ASSUME TypeOK, Alone, [Next]_vars
  PROVE  Alone'
<1> USE DEF TypeOK, Alone, Busy, Swapping, vars, disk
<1>0. TypeOK /\ Alone
  OBVIOUS
<1>1. ASSUME NEW p \in Processes, Begin(p) PROVE Alone'
  BY <1>0, <1>1, DecidedType DEF Begin, Goto, Resolve, Fault
<1>2. ASSUME NEW p \in Processes, Ensure(p) PROVE Alone'
  BY <1>0, <1>2, DecidedType DEF Ensure, Goto
<1>3. ASSUME NEW p \in Processes, Build(p) PROVE Alone'
  <2>1. ~ghost'.overlap => /\ ~ghost.overlap
                            /\ \A q \in Processes \ {p} : pc[q] \notin Busy
    BY <1>0, <1>3, Zenon DEF Build
  <2>2. ghost'.had = ghost.had
    BY <1>0, <1>3, Zenon DEF Build
  <2>3. /\ pc'[p] = "clear" /\ \A q \in Processes \ {p} : pc'[q] = pc[q]
        /\ target' = target /\ old' = old
    BY <1>0, <1>3 DEF Build, Goto
  <2> QED BY <1>0, <2>1, <2>2, <2>3
<1>4. ASSUME NEW p \in Processes, BuildFails(p) PROVE Alone'
  BY <1>0, <1>4, DecidedType DEF BuildFails, Fault
<1>5. ASSUME NEW p \in Processes, Clear(p) PROVE Alone'
  BY <1>0, <1>5, DecidedType DEF Clear, Goto
<1>6. ASSUME NEW p \in Processes, LookAtTarget(p) PROVE Alone'
  BY <1>0, <1>6, DecidedType DEF LookAtTarget, Goto
<1>7. ASSUME NEW p \in Processes, Aside(p) PROVE Alone'
  BY <1>0, <1>7, DecidedType DEF Aside, Goto
<1>8. ASSUME NEW p \in Processes, Land(p) PROVE Alone'
  BY <1>0, <1>8, DecidedType DEF Land, Goto
<1>9. ASSUME NEW p \in Processes, RenameFails(p) PROVE Alone'
  BY <1>0, <1>9, DecidedType DEF RenameFails
<1>10. ASSUME NEW p \in Processes, Tidy(p) PROVE Alone'
  BY <1>0, <1>10, DecidedType DEF Tidy
<1>11. ASSUME NEW p \in Processes, Show(p) PROVE Alone'
  BY <1>0, <1>11, DecidedType DEF Show, Goto
<1>12. ASSUME NEW p \in Processes, ShowFails(p) PROVE Alone'
  BY <1>0, <1>12, DecidedType DEF ShowFails, Goto, Resolve, Fault
<1>13. ASSUME NEW p \in Processes, Osascript(p) PROVE Alone'
  BY <1>0, <1>13, DecidedType DEF Osascript, Goto
<1>14. ASSUME NEW p \in Processes, Killed(p) PROVE Alone'
  BY <1>0, <1>14, DecidedType DEF Killed, Goto, Resolve, Fault
<1>15. CASE Invalidated
  BY <1>0, <1>15, DecidedType DEF Invalidated, Fault
<1>16. CASE Deleted
  BY <1>0, <1>16, DecidedType DEF Deleted, Fault
<1>17. CASE RemoveBegins
  BY <1>0, <1>17, DecidedType DEF RemoveBegins, Fault
<1>18. CASE RemoveEnds
  BY <1>0, <1>18, DecidedType DEF RemoveEnds
<1>19. CASE UNCHANGED vars
  BY <1>0, <1>19, DecidedType DEF vars
<1> QED BY <1>1, <1>2, <1>3, <1>4, <1>5, <1>6, <1>7, <1>8, <1>9, <1>10, <1>11, <1>12,
   <1>13, <1>14, <1>15, <1>16, <1>17, <1>18, <1>19 DEF Next, Send, World

\* Every step keeps the bundle that runs.
LEMMA KeptStep ==
  ASSUME TypeOK, Alone, OneSurvives, [Next]_vars
  PROVE  OneSurvives'
<1> USE DEF TypeOK, Alone, OneSurvives, Busy, Swapping, Runs, vars, disk
<1>0. TypeOK /\ Alone /\ OneSurvives
  OBVIOUS
<1>1. ASSUME NEW p \in Processes, Begin(p) PROVE OneSurvives'
  BY <1>0, <1>1, DecidedType DEF Begin, Goto, Resolve, Fault
<1>2. ASSUME NEW p \in Processes, Ensure(p) PROVE OneSurvives'
  BY <1>0, <1>2, DecidedType DEF Ensure, Goto
<1>3. ASSUME NEW p \in Processes, Build(p) PROVE OneSurvives'
  BY <1>0, <1>3, DecidedType DEF Build, Goto
<1>4. ASSUME NEW p \in Processes, BuildFails(p) PROVE OneSurvives'
  BY <1>0, <1>4, DecidedType DEF BuildFails, Fault
<1>5. ASSUME NEW p \in Processes, Clear(p) PROVE OneSurvives'
  BY <1>0, <1>5, DecidedType DEF Clear, Goto
<1>6. ASSUME NEW p \in Processes, LookAtTarget(p) PROVE OneSurvives'
  BY <1>0, <1>6, DecidedType DEF LookAtTarget, Goto
<1>7. ASSUME NEW p \in Processes, Aside(p) PROVE OneSurvives'
  BY <1>0, <1>7, DecidedType DEF Aside, Goto
<1>8. ASSUME NEW p \in Processes, Land(p) PROVE OneSurvives'
  BY <1>0, <1>8, DecidedType DEF Land, Goto
<1>9. ASSUME NEW p \in Processes, RenameFails(p) PROVE OneSurvives'
  BY <1>0, <1>9, DecidedType DEF RenameFails
<1>10. ASSUME NEW p \in Processes, Tidy(p) PROVE OneSurvives'
  BY <1>0, <1>10, DecidedType DEF Tidy
<1>11. ASSUME NEW p \in Processes, Show(p) PROVE OneSurvives'
  BY <1>0, <1>11, DecidedType DEF Show, Goto
<1>12. ASSUME NEW p \in Processes, ShowFails(p) PROVE OneSurvives'
  BY <1>0, <1>12, DecidedType DEF ShowFails, Goto, Resolve, Fault
<1>13. ASSUME NEW p \in Processes, Osascript(p) PROVE OneSurvives'
  BY <1>0, <1>13, DecidedType DEF Osascript, Goto
<1>14. ASSUME NEW p \in Processes, Killed(p) PROVE OneSurvives'
  BY <1>0, <1>14, DecidedType DEF Killed, Goto, Resolve, Fault
<1>15. CASE Invalidated
  BY <1>0, <1>15, DecidedType DEF Invalidated, Fault
<1>16. CASE Deleted
  BY <1>0, <1>16, DecidedType DEF Deleted, Fault
<1>17. CASE RemoveBegins
  BY <1>0, <1>17, DecidedType DEF RemoveBegins, Fault
<1>18. CASE RemoveEnds
  BY <1>0, <1>18, DecidedType DEF RemoveEnds
<1>19. CASE UNCHANGED vars
  BY <1>0, <1>19, DecidedType DEF vars
<1> QED BY <1>1, <1>2, <1>3, <1>4, <1>5, <1>6, <1>7, <1>8, <1>9, <1>10, <1>11, <1>12,
   <1>13, <1>14, <1>15, <1>16, <1>17, <1>18, <1>19 DEF Next, Send, World

\* AppletInv holds at first.
LEMMA InvInit == Init => AppletInv
<1> SUFFICES ASSUME Init PROVE AppletInv
  OBVIOUS
<1>1. MaxFaults \in Nat
  BY AppletAssumption
<1>2. 0 \in 0..MaxFaults /\ faults = 0 /\ ghost.kills = 0
  BY <1>1 DEF Init
<1>3. TypeOK
  <2>1. ghost \in Ghosts
    <3>1. ASSUME NEW b \in BOOLEAN
          PROVE  [shown |-> [p \in Processes |-> TRUE], had |-> b, kills |-> 0,
                  overlap |-> FALSE] \in Ghosts
      BY <1>2, Zenon DEF Ghosts
    <3>2. (target \in Runs) \in BOOLEAN
      OBVIOUS
    <3> QED BY <3>1, <3>2, Zenon DEF Init
  <2>2. target \in Bundles \cup {None} /\ old \in Bundles \cup {None}
    BY Zenon DEF Init, Bundles
  <2> QED BY <1>2, <2>1, <2>2, Zenon DEF Init, TypeOK, Ghosts, Swapping
<1>4. Sending
  BY Zenon DEF Init, Sending
<1>5. Alone /\ OneSurvives
  BY DEF Init, Alone, OneSurvives, Busy, Swapping
<1> QED BY <1>2, <1>3, <1>4, <1>5 DEF AppletInv

\* AppletInv is inductive.
LEMMA InvStep == AppletInv /\ [Next]_vars => AppletInv'
BY TypeStep, SendingStep, AloneStep, KeptStep DEF AppletInv

\* The bundle and the processes that build it keep their invariant.
THEOREM InvCorrect == Spec => []AppletInv
BY InvInit, InvStep, PTL DEF Spec

\* Disk, processes and bounds keep their types.
THEOREM TypeCorrect == Spec => []TypeOK
BY InvCorrect, PTL DEF AppletInv

\* No note is lost to the bundle, whatever becomes of it while it is being sent.
THEOREM NotesKept == Spec => []NoneLost
<1>1. AppletInv => NoneLost
  BY Zenon DEF AppletInv, Sending, NoneLost
<1> QED BY <1>1, InvCorrect, PTL

\* A bundle that runs stays in its place but for the moment of the swap, and one kill in
\* the middle of it leaves a copy on disk.
THEOREM BundleSurvives == Spec => []OneSurvives
BY InvCorrect, PTL DEF AppletInv
=============================================================================

--------------------------- MODULE LifecycleProofs ---------------------------
(***************************************************************************)
(* What install, uninstall and update promise, for any number of commands  *)
(* and of settings, with interrupts and reboots between any two orders.    *)
(* Each promise is about a period: commands that overlap, from the first   *)
(* that begins while none is under way.                                    *)
(***************************************************************************)
EXTENDS Lifecycle, TLAPS

MacInstall == {"write", "bootout", "wait", "bootstrap", "check", "kick"}
WinInstall == {"end", "create", "run"}
Uninstalling == {"query", "delete", "sweep"}
Updating == {"latest", "stop", "download", "pip", "start", "recover"}

Row == [pc : Pcs, verb : Verbs \cup {None}, with : Settings \cup {None},
        tries : 0..MaxAttempts, had : BOOLEAN, saw : BOOLEAN,
        result : {None, "ok", "failed", "crashed", "killed"}]

\* Where a command can be, given its verb, and what it remembers there.
Fits(k) ==
  /\ k.pc = "done" <=> k.result # None
  /\ k.pc # "idle" => k.with \in Settings
  /\ k.pc \in MacInstall => k.verb = "install" /\ system = "macos"
  /\ k.pc \in WinInstall => k.verb = "install" /\ system = "windows"
  /\ k.pc \in Uninstalling => k.verb = "uninstall"
  /\ k.pc \in Updating => k.verb = "update"
  /\ k.pc \notin {"bootstrap", "check", "kick", "done"} => k.tries = 0
  /\ k.pc = "bootstrap" => k.tries < MaxAttempts
  /\ k.pc \in {"idle", "latest", "stop"} => ~k.had

\* The commands of the period are those under way and those that ended since.
CourseInv ==
  /\ TypeOK
  /\ system = "windows" => ~disabled
  /\ \A c \in Commands : Fits(cli[c])
  /\ \A c \in Commands : cli[c].pc \notin {"idle", "done"} => c \in period.of
  /\ \A c \in period.of : cli[c].pc # "idle"

\* One order of a command under way.
Order(c) == Interrupt(c) \/ Install(c) \/ Uninstall(c) \/ Update(c)

\* ... concerns no other command, and not the verb.
Own(c) ==
  /\ cli[c].pc \notin {"idle", "done"} /\ c \in period.of
  /\ period' = period /\ system' = system
  /\ cli' = [cli EXCEPT ![c] = cli'[c]]
  /\ cli'[c] \in Row /\ Fits(cli'[c]) /\ cli'[c].pc # "idle"
  /\ cli'[c].verb = cli[c].verb /\ cli'[c].saw = cli[c].saw

-----------------------------------------------------------------------------
(* Types, and where the commands are *)

\* An order that sends the command to p keeps its course.
LEMMA GotoOwn ==
  ASSUME CourseInv, NEW c \in Commands, NEW p \in Pcs \ {"idle", "done", "bootstrap"},
         cli[c].pc \notin {"idle", "done"},
         Goto(c, p), period' = period, system' = system,
         p \in MacInstall => cli[c].pc \in MacInstall,
         p \in WinInstall => cli[c].pc \in WinInstall,
         p \in Uninstalling => cli[c].pc \in Uninstalling,
         p \in Updating => cli[c].pc \in Updating,
         p \notin {"check", "kick"} => cli[c].tries = 0,
         p \in {"latest", "stop"} => cli[c].pc \in {"latest", "stop"}
  PROVE  Own(c) /\ cli'[c].pc = p /\ cli'[c].had = cli[c].had /\ cli'[c].result = None
<1>1. cli[c] \in Row /\ Fits(cli[c]) /\ c \in period.of /\ cli \in [Commands -> Row]
  BY DEF CourseInv, TypeOK, Row
<1>2. cli' = [cli EXCEPT ![c].pc = p]
  BY DEF Goto
<1>3. cli' = [cli EXCEPT ![c] = cli'[c]] /\ cli'[c] = [cli[c] EXCEPT !.pc = p]
  BY <1>1, <1>2
<1>4. /\ cli'[c] \in Row /\ cli'[c].pc = p /\ cli'[c].verb = cli[c].verb
      /\ cli'[c].with = cli[c].with /\ cli'[c].tries = cli[c].tries
      /\ cli'[c].had = cli[c].had /\ cli'[c].saw = cli[c].saw
      /\ cli'[c].result = cli[c].result
  BY <1>1, <1>3 DEF Row
<1>5. Fits(cli'[c]) /\ cli'[c].result = None
  BY <1>1, <1>4 DEF Fits, MacInstall, WinInstall, Uninstalling, Updating
<1> QED BY <1>1, <1>3, <1>4, <1>5 DEF Own

\* An order that is the last keeps it too.
LEMMA ExitOwn ==
  ASSUME CourseInv, NEW c \in Commands, NEW r \in {"ok", "failed", "crashed", "killed"},
         cli[c].pc \notin {"idle", "done"},
         Exit(c, r), period' = period, system' = system
  PROVE  Own(c) /\ cli'[c].pc = "done" /\ cli'[c].had = cli[c].had /\ cli'[c].result = r
<1>1. cli[c] \in Row /\ Fits(cli[c]) /\ c \in period.of /\ cli \in [Commands -> Row]
  BY DEF CourseInv, TypeOK, Row
<1>2. cli' = [cli EXCEPT ![c].pc = "done", ![c].result = r]
  BY DEF Exit
<1>3. cli' = [cli EXCEPT ![c] = cli'[c]]
      /\ cli'[c] = [cli[c] EXCEPT !.pc = "done", !.result = r]
  BY <1>1, <1>2
<1>4. /\ cli'[c] \in Row /\ cli'[c].pc = "done" /\ cli'[c].verb = cli[c].verb
      /\ cli'[c].with = cli[c].with /\ cli'[c].tries = cli[c].tries
      /\ cli'[c].had = cli[c].had /\ cli'[c].saw = cli[c].saw
      /\ cli'[c].result = r
  BY <1>1, <1>3 DEF Row, Pcs
<1>5. Fits(cli'[c])
  BY <1>1, <1>4 DEF Fits, MacInstall, WinInstall, Uninstalling, Updating, None
<1> QED BY <1>1, <1>3, <1>4, <1>5 DEF Own

\* Every order is the command's own.
LEMMA OrderOwn ==
  ASSUME CourseInv, NEW c \in Commands, Order(c)
  PROVE  Own(c)
<1> USE DEF Pcs, MacInstall, WinInstall, Uninstalling, Updating
<1>0. cli[c] \in Row /\ Fits(cli[c]) /\ cli \in [Commands -> Row] /\ c \in Commands
  BY DEF CourseInv, TypeOK, Row
<1>1. CASE Interrupt(c)
  BY <1>1, ExitOwn DEF Interrupt, Underway
<1>2. CASE WritePlist(c) \/ Bootout(c) \/ Bootstrap(c)
  BY <1>0, <1>2, GotoOwn DEF WritePlist, Bootout, Bootstrap, At, Fits
<1>3. CASE Wait(c)
  <2>1. /\ cli' = [cli EXCEPT ![c].pc = "bootstrap"] /\ cli[c].pc = "wait"
        /\ period' = period /\ system' = system
    BY <1>3 DEF Wait, Goto, At
  <2>2. cli'[c] = [cli[c] EXCEPT !.pc = "bootstrap"] /\ cli' = [cli EXCEPT ![c] = cli'[c]]
    BY <1>0, <2>1
  <2>3. /\ cli'[c] \in Row /\ cli'[c].pc = "bootstrap" /\ cli'[c].verb = cli[c].verb
        /\ cli'[c].with = cli[c].with /\ cli'[c].tries = cli[c].tries
        /\ cli'[c].had = cli[c].had /\ cli'[c].saw = cli[c].saw
        /\ cli'[c].result = cli[c].result
    BY <1>0, <2>2 DEF Row
  <2>4. Fits(cli'[c])
    BY <1>0, <2>1, <2>3, LifecycleAssumption DEF Fits
  <2> QED BY <2>1, <2>2, <2>3, <2>4 DEF Own, CourseInv
<1>4. CASE BootstrapFails(c)
  <2>1. /\ cli' = [cli EXCEPT ![c].pc = "check", ![c].tries = @ + 1]
        /\ cli[c].pc = "bootstrap" /\ period' = period /\ system' = system
    BY <1>4 DEF BootstrapFails, At
  <2>2. /\ cli'[c] = [cli[c] EXCEPT !.pc = "check", !.tries = cli[c].tries + 1]
        /\ cli' = [cli EXCEPT ![c] = cli'[c]]
    BY <1>0, <2>1
  <2>3. cli[c].tries + 1 \in 0..MaxAttempts
    BY <1>0, <2>1, LifecycleAssumption DEF Fits, Row
  <2>4. /\ cli'[c] \in Row /\ cli'[c].pc = "check" /\ cli'[c].verb = cli[c].verb
        /\ cli'[c].with = cli[c].with
        /\ cli'[c].had = cli[c].had /\ cli'[c].saw = cli[c].saw
        /\ cli'[c].result = cli[c].result
    BY <1>0, <2>2, <2>3 DEF Row
  <2>5. Fits(cli'[c])
    BY <1>0, <2>1, <2>4 DEF Fits
  <2> QED BY <2>1, <2>2, <2>4, <2>5 DEF Own, CourseInv
<1>5. CASE CheckLabel(c)
  <2>1. cli[c].pc = "check" /\ period' = period /\ system' = system
    BY <1>5 DEF CheckLabel, At
  <2>2. CASE Goto(c, "kick")
    BY <1>0, <2>1, <2>2, GotoOwn
  <2>3. CASE Exit(c, "failed")
    BY <1>0, <2>1, <2>3, ExitOwn
  <2>4. CASE cli[c].tries < MaxAttempts /\ Goto(c, "bootstrap")
    <3>1. cli'[c] = [cli[c] EXCEPT !.pc = "bootstrap"] /\ cli' = [cli EXCEPT ![c] = cli'[c]]
      BY <1>0, <2>4 DEF Goto
    <3>2. /\ cli'[c] \in Row /\ cli'[c].pc = "bootstrap" /\ cli'[c].verb = cli[c].verb
          /\ cli'[c].with = cli[c].with /\ cli'[c].tries = cli[c].tries
          /\ cli'[c].had = cli[c].had /\ cli'[c].saw = cli[c].saw
          /\ cli'[c].result = cli[c].result
      BY <1>0, <3>1 DEF Row
    <3>3. Fits(cli'[c])
      BY <1>0, <2>1, <2>4, <3>2 DEF Fits
    <3> QED BY <2>1, <3>1, <3>2, <3>3 DEF Own, CourseInv
  <2> QED BY <1>5, <2>2, <2>3, <2>4 DEF CheckLabel
<1>6. CASE Kickstart(c) \/ RunTask(c)
  BY <1>6, ExitOwn DEF Kickstart, RunTask, At
<1>7. CASE EndTask(c)
  BY <1>0, <1>7, GotoOwn DEF EndTask, At, Fits
<1>8. CASE CreateTask(c)
  BY <1>0, <1>8, GotoOwn, ExitOwn DEF CreateTask, At, Fits
<1>9. CASE Query(c)
  BY <1>0, <1>9, GotoOwn DEF Query, At, Fits
<1>10. CASE Delete(c)
  BY <1>0, <1>10, GotoOwn, ExitOwn DEF Delete, At, Fits
<1>11. CASE RemoveLegacy(c)
  BY <1>11, ExitOwn DEF RemoveLegacy, At
<1>12. CASE Latest(c)
  BY <1>0, <1>12, GotoOwn, ExitOwn DEF Latest, At, Fits
<1>13. CASE StopService(c)
  <2>1. /\ cli' = [cli EXCEPT ![c].pc = "download", ![c].had = file # None]
        /\ cli[c].pc = "stop" /\ period' = period /\ system' = system
    BY <1>13 DEF StopService, At
  <2>2. /\ cli'[c] = [cli[c] EXCEPT !.pc = "download", !.had = file # None]
        /\ cli' = [cli EXCEPT ![c] = cli'[c]]
    BY <1>0, <2>1
  <2>3. (file # None) \in BOOLEAN
    OBVIOUS
  <2>4. /\ cli'[c] \in Row /\ cli'[c].pc = "download" /\ cli'[c].verb = cli[c].verb
        /\ cli'[c].with = cli[c].with /\ cli'[c].tries = cli[c].tries
        /\ cli'[c].saw = cli[c].saw /\ cli'[c].result = cli[c].result
    BY <1>0, <2>2, <2>3 DEF Row
  <2>5. Fits(cli'[c])
    BY <1>0, <2>1, <2>4 DEF Fits
  <2> QED BY <2>1, <2>2, <2>4, <2>5 DEF Own, CourseInv
<1>14. CASE Download(c)
  BY <1>0, <1>14, GotoOwn, ExitOwn DEF Download, At, Fits
<1>15. CASE PipInstalls(c) \/ PipFails(c)
  BY <1>0, <1>15, GotoOwn DEF PipInstalls, PipFails, At, Fits
<1>16. CASE StartService(c)
  BY <1>16, ExitOwn DEF StartService, At
<1> QED BY <1>1, <1>2, <1>3, <1>4, <1>5, <1>6, <1>7, <1>8, <1>9, <1>10, <1>11, <1>12, <1>13,
           <1>14, <1>15, <1>16 DEF Order, Install, Uninstall, Update

Jobs == [state : {"absent", "running", "leaving"}, with : Settings \cup {None},
         build : {"old", "new"}]

\* What can become of the job.
LEMMA JobTypes ==
  ASSUME TypeOK
  PROVE  /\ {NoJob, Ended, Loaded, [job EXCEPT !.build = build]} \subseteq Jobs
         /\ Ended.state # "running" /\ NoJob.state = "absent" /\ Loaded.state = "running"
         /\ Ended.state = "absent" => job.state = "absent"
         /\ Loaded.with = file /\ Loaded.build = build
         /\ [job EXCEPT !.build = build].state = job.state
         /\ [job EXCEPT !.build = build].with = job.with
         /\ [job EXCEPT !.build = build].build = build
BY DEF TypeOK, NoJob, Ended, Loaded, Jobs

\* The machine keeps its types under every order.
LEMMA OrderTypes ==
  ASSUME CourseInv, NEW c \in Commands, Order(c)
  PROVE  /\ file' \in Settings \cup {None} /\ job' \in Jobs
         /\ legacy' \in BOOLEAN /\ disabled' \in BOOLEAN /\ build' \in {"old", "new"}
         /\ glitches' \in 0..MaxGlitches
         /\ disabled' => disabled
<1>0. /\ TypeOK /\ job \in Jobs /\ cli[c].with \in Settings \cup {None}
      /\ {NoJob, Ended, Loaded, [job EXCEPT !.build = build]} \subseteq Jobs
  BY JobTypes DEF CourseInv, TypeOK, Jobs
<1> HIDE DEF Jobs
<1>1. CASE Interrupt(c)
  BY <1>0, <1>1 DEF Interrupt, TypeOK
<1>2. CASE Install(c)
  <2>1. CASE WritePlist(c)
    BY <1>0, <2>1 DEF WritePlist, TypeOK
  <2>5. CASE Bootout(c)
    BY <1>0, <2>5 DEF Bootout, TypeOK
  <2>7. CASE Bootstrap(c)
    BY <1>0, <2>7 DEF Bootstrap, TypeOK
  <2>6. CASE Wait(c)
    BY <1>0, <2>6 DEF Wait, TypeOK
  <2>2. CASE BootstrapFails(c)
    BY <1>0, <2>2, LifecycleAssumption DEF BootstrapFails, TypeOK
  <2>3. CASE CheckLabel(c) \/ Kickstart(c)
    BY <1>0, <2>3 DEF CheckLabel, Kickstart, TypeOK
  <2>4. CASE EndTask(c) \/ CreateTask(c) \/ RunTask(c)
    BY <1>0, <2>4 DEF EndTask, CreateTask, RunTask, TypeOK
  <2> QED BY <1>2, <2>1, <2>2, <2>3, <2>4, <2>5, <2>6, <2>7 DEF Install
<1>3. CASE Uninstall(c)
  <2>1. CASE Query(c)
    BY <1>0, <2>1 DEF Query, TypeOK
  <2>2. CASE Delete(c)
    BY <1>0, <2>2 DEF Delete, TypeOK
  <2>3. CASE RemoveLegacy(c)
    BY <1>0, <2>3 DEF RemoveLegacy, TypeOK
  <2> QED BY <1>3, <2>1, <2>2, <2>3 DEF Uninstall
<1>4. CASE Update(c)
  <2>1. CASE StartService(c)
    BY <1>0, <2>1, LifecycleAssumption DEF StartService, TypeOK
  <2>2. CASE Latest(c) \/ StopService(c) \/ Download(c) \/ PipInstalls(c) \/ PipFails(c)
    BY <1>0, <2>2 DEF Latest, StopService, Download, PipInstalls, PipFails, TypeOK
  <2> QED BY <1>4, <2>1, <2>2 DEF Update
<1> QED BY <1>1, <1>2, <1>3, <1>4 DEF Order

\* No order forgets that one came too early.
LEMMA OrderEarly ==
  ASSUME TypeOK, NEW c \in Commands, Order(c)
  PROVE  early' \in BOOLEAN /\ (early => early')
<1>0. early \in BOOLEAN
  BY DEF TypeOK
<1>1. CASE Wait(c)
  BY <1>1 DEF Wait, TooEarly
<1>2. CASE RunTask(c)
  BY <1>2 DEF RunTask, TooEarly
<1>3. CASE StartService(c)
  BY <1>3 DEF StartService
<1>4. CASE early' = early
  BY <1>0, <1>4
<1>5. \/ Wait(c) \/ RunTask(c) \/ StartService(c) \/ early' = early
  BY DEF Order, Interrupt, Install, WritePlist, Bootout, Bootstrap, BootstrapFails,
     CheckLabel, Kickstart, EndTask, CreateTask, Uninstall, Query, Delete, RemoveLegacy,
     Update, Latest, StopService, Download, PipInstalls, PipFails
<1> QED BY <1>1, <1>2, <1>3, <1>4, <1>5

\* What Begin does to the command and to the period.
LEMMA BeginRow ==
  ASSUME CourseInv, NEW c \in Commands, NEW verb \in Verbs, NEW with \in Settings,
         Begin(c, verb, with)
  PROVE  /\ cli[c].pc = "idle" /\ c \notin period.of
         /\ cli' = [cli EXCEPT ![c] = cli'[c]]
         /\ cli'[c] \in Row /\ Fits(cli'[c]) /\ cli'[c].pc = First(verb)
         /\ cli'[c].pc \in {"write", "end", "query", "latest"}
         /\ cli'[c].verb = verb /\ cli'[c].saw = (job.state = "running")
         /\ cli'[c].result = None /\ cli'[c].had = FALSE
<1>0. cli[c] \in Row /\ Fits(cli[c]) /\ cli \in [Commands -> Row] /\ system \in {"macos", "windows"}
  BY LifecycleAssumption DEF CourseInv, TypeOK, Row
<1>1. /\ cli[c].pc = "idle"
      /\ cli' = [cli EXCEPT ![c].pc = First(verb), ![c].verb = verb, ![c].with = with,
                            ![c].saw = job.state = "running"]
  BY DEF Begin, At
<1>2. /\ cli'[c] = [cli[c] EXCEPT !.pc = First(verb), !.verb = verb, !.with = with,
                                  !.saw = (job.state = "running")]
      /\ cli' = [cli EXCEPT ![c] = cli'[c]]
  BY <1>0, <1>1
<1>3. /\ First(verb) \in {"write", "end", "query", "latest"}
      /\ First(verb) = "write" => verb = "install" /\ system = "macos"
      /\ First(verb) = "end" => verb = "install" /\ system = "windows"
      /\ First(verb) = "query" => verb = "uninstall"
      /\ First(verb) = "latest" => verb = "update"
  BY <1>0, LifecycleAssumption DEF First
<1>4. (job.state = "running") \in BOOLEAN
  OBVIOUS
<1>5. /\ cli'[c] \in Row /\ cli'[c].pc = First(verb) /\ cli'[c].verb = verb
      /\ cli'[c].with = with /\ cli'[c].saw = (job.state = "running")
      /\ cli'[c].had = cli[c].had /\ cli'[c].tries = cli[c].tries
      /\ cli'[c].result = cli[c].result
  BY <1>0, <1>2, <1>3, <1>4 DEF Row, Pcs
<1>6. Fits(cli'[c]) /\ cli'[c].result = None /\ cli'[c].had = FALSE
  BY <1>0, <1>1, <1>3, <1>5
     DEF Fits, MacInstall, WinInstall, Uninstalling, Updating, Row
<1>7. c \notin period.of
  BY <1>1 DEF CourseInv
<1> QED BY <1>1, <1>2, <1>3, <1>5, <1>6, <1>7

\* CourseInv in the steps of a command and of the machine.
LEMMA CourseStep == CourseInv /\ [Next]_vars => CourseInv'
<1> SUFFICES ASSUME CourseInv, [Next]_vars PROVE CourseInv'
  OBVIOUS
<1>0. cli \in [Commands -> Row] /\ period \in [of : SUBSET Commands, stray : BOOLEAN]
  BY DEF CourseInv, TypeOK, Row
<1>1. ASSUME NEW c \in Commands, Order(c) PROVE CourseInv'
  <2>1. Own(c)
    BY <1>1, OrderOwn
  <2>2. cli' \in [Commands -> Row] /\ \A k \in Commands : k # c => cli'[k] = cli[k]
    BY <1>0, <2>1 DEF Own
  <2>3. TypeOK'
    BY <1>1, <2>1, <2>2, OrderTypes, OrderEarly DEF CourseInv, TypeOK, Own, Row, Jobs
  <2>4. \A k \in Commands : Fits(cli[k])'
    BY <2>1, <2>2 DEF CourseInv, Own, Fits
  <2>5. (system = "windows" => ~disabled)'
    BY <1>1, <2>1, OrderTypes DEF CourseInv, Own
  <2>6. /\ \A k \in Commands : cli'[k].pc \notin {"idle", "done"} => k \in period'.of
        /\ \A k \in period'.of : cli'[k].pc # "idle"
    BY <1>0, <2>1, <2>2 DEF CourseInv, Own
  <2> QED BY <2>3, <2>4, <2>5, <2>6 DEF CourseInv
<1>2. ASSUME NEW c \in Commands, NEW verb \in Verbs, NEW with \in Settings,
             Begin(c, verb, with)
      PROVE  CourseInv'
  <2>1. /\ cli' = [cli EXCEPT ![c] = cli'[c]] /\ cli'[c] \in Row /\ Fits(cli'[c])
        /\ cli'[c].pc \notin {"idle", "done"}
    BY <1>2, BeginRow
  <2>2. cli' \in [Commands -> Row] /\ \A k \in Commands : k # c => cli'[k] = cli[k]
    BY <1>0, <2>1
  <2>3. /\ UNCHANGED <<system, file, job, legacy, disabled, build, glitches>>
        /\ period' = IF Underway = {} THEN [of |-> {c}, stray |-> Stray]
                     ELSE [period EXCEPT !.of = @ \cup {c}]
    BY <1>2 DEF Begin
  <2>4. Stray \in BOOLEAN
    BY DEF Stray
  <2>5. period' \in [of : SUBSET Commands, stray : BOOLEAN] /\ c \in period'.of
    BY <1>0, <2>3, <2>4
  <2>6. /\ \A k \in Commands : cli'[k].pc \notin {"idle", "done"} => k \in period'.of
        /\ \A k \in period'.of : cli'[k].pc # "idle"
    <3>1. CASE Underway = {}
      <4>1. period'.of = {c}
        BY <2>3, <3>1
      <4> QED BY <2>1, <2>2, <3>1, <4>1 DEF Underway
    <3>2. CASE Underway # {}
      <4>1. period'.of = period.of \cup {c}
        BY <1>0, <2>3, <3>2
      <4> QED BY <1>0, <2>1, <2>2, <4>1 DEF CourseInv
    <3> QED BY <3>1, <3>2
  <2>7. TypeOK'
    <3>1. early' \in BOOLEAN
      BY <1>2 DEF Begin
    <3> QED BY <2>2, <2>3, <2>5, <3>1 DEF CourseInv, TypeOK, Row
  <2>8. \A k \in Commands : Fits(cli[k])'
    BY <2>1, <2>2, <2>3 DEF CourseInv, Fits
  <2> QED BY <2>3, <2>6, <2>7, <2>8 DEF CourseInv
<1>3. CASE JobGone \/ Respawn
  BY <1>3, JobTypes DEF JobGone, Respawn, CourseInv, TypeOK, Jobs, Fits
<1>4. CASE Reboot
  <2> DEFINE Killed(k) == [cli[k] EXCEPT !.pc = "done", !.result = "killed"]
  <2>1. /\ job' \in {Loaded, NoJob}
        /\ UNCHANGED <<system, file, legacy, disabled, build, glitches, period, early>>
        /\ cli' = [k \in Commands |-> IF k \in Underway THEN Killed(k) ELSE cli[k]]
    BY <1>4 DEF Reboot
  <2>2. ASSUME NEW k \in Commands
        PROVE  /\ Killed(k) \in Row /\ Killed(k).pc = "done" /\ Killed(k).result = "killed"
               /\ Killed(k).with = cli[k].with
    BY <1>0 DEF Row, Pcs
  <2>3. ASSUME NEW k \in Underway PROVE Fits(Killed(k))
    BY <2>2 DEF CourseInv, Fits, Underway, MacInstall, WinInstall, Uninstalling, Updating, None
  <2> HIDE DEF Killed
  <2>4. cli' \in [Commands -> Row] /\ \A k \in Commands : Fits(cli'[k])
    BY <1>0, <2>1, <2>2, <2>3 DEF CourseInv
  <2>5. TypeOK'
    BY <2>1, <2>4, JobTypes DEF CourseInv, TypeOK, Row, Jobs
  <2>6. \A k \in Commands : Fits(cli[k])'
    BY <2>1, <2>4 DEF Fits
  <2>7. /\ \A k \in Commands : cli'[k].pc \notin {"idle", "done"} => k \in period'.of
        /\ \A k \in period'.of : cli'[k].pc # "idle"
    BY <1>0, <2>1, <2>2 DEF CourseInv
  <2> QED BY <2>1, <2>5, <2>6, <2>7 DEF CourseInv
<1>5. CASE UNCHANGED vars \/ Finished
  BY <1>5 DEF vars, Finished, CourseInv, TypeOK, Fits
<1> QED BY <1>1, <1>2, <1>3, <1>4, <1>5 DEF Next, Order

\* CourseInv at first, and so always.
LEMMA CourseInit == Init => CourseInv
<1> SUFFICES ASSUME Init PROVE CourseInv
  OBVIOUS
<1>1. \A c \in Commands : cli[c] = [pc |-> "idle", verb |-> None, with |-> None, tries |-> 0,
                                    had |-> FALSE, saw |-> FALSE, result |-> None]
  BY DEF Init
<1>2. TypeOK
  <2>1. early \in BOOLEAN /\ {legacy, disabled} \subseteq BOOLEAN
    BY DEF Init
  <2>2. /\ system \in Systems /\ build \in {"old", "new"} /\ glitches \in 0..MaxGlitches
        /\ file \in Settings \cup {None}
    BY LifecycleAssumption DEF Init
  <2>3. period \in [of : SUBSET Commands, stray : BOOLEAN]
    BY DEF Init
  <2>4. job \in [state : {"absent", "running", "leaving"}, with : Settings \cup {None},
                build : {"old", "new"}]
    BY DEF Init, NoJob
  <2>5. cli \in [Commands -> [pc : Pcs, verb : Verbs \cup {None}, with : Settings \cup {None},
                             tries : 0..MaxAttempts, had : BOOLEAN, saw : BOOLEAN,
                             result : {None, "ok", "failed", "crashed", "killed"}]]
    BY LifecycleAssumption DEF Init, Pcs
  <2> QED BY <2>1, <2>2, <2>3, <2>4, <2>5 DEF TypeOK
<1>3. \A c \in Commands : Fits(cli[c])
  <2> SUFFICES ASSUME NEW c \in Commands PROVE Fits(cli[c])
    OBVIOUS
  <2>1. cli[c].pc = "idle" /\ cli[c].result = None /\ cli[c].tries = 0 /\ cli[c].had = FALSE
    BY <1>1
  <2> QED BY <2>1 DEF Fits, MacInstall, WinInstall, Uninstalling, Updating
<1>4. period.of = {} /\ (system = "windows" => ~disabled)
  BY DEF Init
<1> QED BY <1>1, <1>2, <1>3, <1>4 DEF CourseInv

\* Types hold, for any number of commands.
THEOREM TypeCorrect == Spec => []TypeOK
<1>1. CourseInv => TypeOK
  BY DEF CourseInv
<1> QED BY <1>1, CourseInit, CourseStep, PTL DEF Spec

-----------------------------------------------------------------------------
(* Periods *)

\* A period of commands of one kind, none of which has failed so far.
Clean(verb) ==
  /\ period.of # {}
  /\ \A c \in period.of : cli[c].verb = verb /\ cli[c].result \in {None, "ok"}

\* The first command of a period.
Fresh(c) ==
  /\ period' = [of |-> {c}, stray |-> Stray]
  /\ cli' = [cli EXCEPT ![c] = cli'[c]] /\ cli'[c] \in Row
  /\ cli'[c].pc = First(cli'[c].verb)
  /\ cli'[c].pc \in {"write", "end", "query", "latest"} /\ cli'[c].result = None
  /\ cli'[c].had = FALSE /\ cli'[c].saw = (job.state = "running")
  /\ UNCHANGED <<system, file, job, legacy, disabled, build, glitches>>

\* One that overlaps others of its period.
Joins(c) ==
  /\ period.of # {} /\ c \notin period.of
  /\ period' = [period EXCEPT !.of = @ \cup {c}]
  /\ cli' = [cli EXCEPT ![c] = cli'[c]] /\ cli'[c] \in Row
  /\ cli'[c].pc = First(cli'[c].verb)
  /\ cli'[c].pc \in {"write", "end", "query", "latest"} /\ cli'[c].result = None
  /\ UNCHANGED <<system, file, job, legacy, disabled, build, glitches, early>>

\* The machine or its service manager moves while no command is under way, or leaves the
\* commands alone.
Quiet ==
  /\ cli' = cli
  /\ UNCHANGED <<system, file, legacy, disabled, build, glitches, period, early>>
  /\ \/ job' = job
     \/ job.state = "leaving" /\ job' = NoJob
     \/ job.state = "running" /\ job' = [job EXCEPT !.build = build]
     \/ /\ \A c \in Commands : cli[c].pc \in {"idle", "done"}
        /\ job' = IF file # None /\ ~disabled THEN Loaded ELSE NoJob

\* A reboot that kills a command of the period.
Kills ==
  /\ period' = period /\ build' = build
  /\ \E c \in period.of : cli'[c].result = "killed" /\ cli'[c].verb = cli[c].verb

\* The kinds of step there are.
LEMMA StepKinds ==
  ASSUME CourseInv, [Next]_vars
  PROVE  \/ \E c \in Commands : Order(c) /\ Own(c)
         \/ \E c \in Commands : Fresh(c) \/ Joins(c)
         \/ Quiet \/ Kills
<1>0. cli \in [Commands -> Row] /\ period \in [of : SUBSET Commands, stray : BOOLEAN]
  BY DEF CourseInv, TypeOK, Row
<1>1. ASSUME NEW c \in Commands, Order(c) PROVE Own(c)
  BY <1>1, OrderOwn
<1>2. ASSUME NEW c \in Commands, NEW verb \in Verbs, NEW with \in Settings,
             Begin(c, verb, with)
      PROVE  Fresh(c) \/ Joins(c)
  <2>1. Underway # {} => period.of # {}
    BY DEF CourseInv, Underway
  <2>2. /\ c \notin period.of
        /\ cli' = [cli EXCEPT ![c] = cli'[c]] /\ cli'[c] \in Row
        /\ cli'[c].pc = First(cli'[c].verb)
        /\ cli'[c].pc \in {"write", "end", "query", "latest"} /\ cli'[c].result = None
        /\ cli'[c].had = FALSE /\ cli'[c].saw = (job.state = "running")
    BY <1>2, BeginRow
  <2>3. /\ UNCHANGED <<system, file, job, legacy, disabled, build, glitches>>
        /\ period' = IF Underway = {} THEN [of |-> {c}, stray |-> Stray]
                     ELSE [period EXCEPT !.of = @ \cup {c}]
    BY <1>2 DEF Begin
  <2>4. CASE Underway = {}
    BY <2>2, <2>3, <2>4 DEF Fresh
  <2>5. CASE Underway # {}
    <3>1. early' = early
      BY <1>2, <2>5 DEF Begin, CourseInv, TypeOK
    <3> QED BY <2>1, <2>2, <2>3, <2>5, <3>1 DEF Joins
  <2> QED BY <2>4, <2>5
<1>3. CASE JobGone \/ Respawn
  BY <1>3 DEF JobGone, Respawn, Quiet
<1>4. CASE Reboot
  <2>1. CASE Underway = {}
    <3>1. cli' = cli
      <4>1. cli' = [k \in Commands |-> cli[k]]
        BY <1>4, <2>1 DEF Reboot
      <4> QED BY <1>0, <4>1
    <3>2. \A c \in Commands : cli[c].pc \in {"idle", "done"}
      BY <2>1 DEF Underway
    <3> QED BY <1>4, <3>1, <3>2 DEF Reboot, Quiet
  <2>2. CASE Underway # {}
    <3>1. PICK c \in Underway : TRUE
      BY <2>2
    <3>2. c \in period.of /\ c \in Commands /\ cli[c] \in Row
      BY <1>0, <3>1 DEF CourseInv, Underway
    <3>3. cli'[c] = [cli[c] EXCEPT !.pc = "done", !.result = "killed"]
      BY <1>4, <3>1, <3>2 DEF Reboot
    <3>4. cli'[c].result = "killed" /\ cli'[c].verb = cli[c].verb
      BY <3>2, <3>3 DEF Row
    <3> QED BY <1>4, <3>2, <3>4 DEF Reboot, Kills
  <2> QED BY <2>1, <2>2
<1>5. CASE UNCHANGED vars \/ Finished
  BY <1>5 DEF vars, Finished, Quiet
<1> QED BY <1>1, <1>2, <1>3, <1>4, <1>5 DEF Next, Order

\* A clean period has been clean all along, and its verb is the verb of the order.
LEMMA CleanBefore ==
  ASSUME CourseInv, NEW verb, Clean(verb)'
  PROVE  /\ ~Kills
         /\ Quiet => Clean(verb)
         /\ \A c \in Commands :
              /\ Fresh(c) => cli'[c].verb = verb
              /\ Joins(c) => Clean(verb) /\ cli'[c].verb = verb
              /\ Own(c) => Clean(verb) /\ cli[c].verb = verb /\ cli'[c].result \in {None, "ok"}
<1>0. cli \in [Commands -> Row] /\ period \in [of : SUBSET Commands, stray : BOOLEAN]
  BY DEF CourseInv, TypeOK, Row
<1>1. ~Kills
  BY DEF Kills, Clean, None
<1>2. Quiet => Clean(verb)
  BY DEF Quiet, Clean
<1>3. ASSUME NEW c \in Commands, Fresh(c) PROVE cli'[c].verb = verb
  BY <1>3 DEF Fresh, Clean
<1>4. ASSUME NEW c \in Commands, Joins(c) PROVE Clean(verb) /\ cli'[c].verb = verb
  <2>1. period'.of = period.of \cup {c} /\ \A k \in period.of : cli'[k] = cli[k]
    BY <1>0, <1>4 DEF Joins
  <2> QED BY <1>4, <2>1 DEF Joins, Clean
<1>5. ASSUME NEW c \in Commands, Own(c)
      PROVE  Clean(verb) /\ cli[c].verb = verb /\ cli'[c].result \in {None, "ok"}
  <2>1. cli[c].result = None
    BY <1>5 DEF Own, CourseInv, Fits
  <2>2. \A k \in period.of : k # c => cli'[k] = cli[k]
    BY <1>0, <1>5 DEF Own
  <2> QED BY <1>5, <2>1, <2>2 DEF Own, Clean
<1> QED BY <1>1, <1>2, <1>3, <1>4, <1>5

\* An order is of the command's verb; an interrupt shows in the result.
LEMMA OrderVerb ==
  ASSUME CourseInv, NEW c \in Commands
  PROVE  /\ Install(c) => cli[c].verb = "install"
         /\ Uninstall(c) => cli[c].verb = "uninstall"
         /\ Update(c) => cli[c].verb = "update"
         /\ Interrupt(c) => cli'[c].result = "killed"
<1>0. Fits(cli[c]) /\ cli \in [Commands -> Row]
  BY DEF CourseInv, TypeOK, Row
<1>1. Install(c) => cli[c].pc \in MacInstall \cup WinInstall
  BY DEF Install, WritePlist, Bootout, Wait, Bootstrap, BootstrapFails, CheckLabel, Kickstart,
     EndTask, CreateTask, RunTask, At, MacInstall, WinInstall
<1>2. Uninstall(c) => cli[c].pc \in Uninstalling
  BY DEF Uninstall, Query, Delete, RemoveLegacy, At, Uninstalling
<1>3. Update(c) => cli[c].pc \in Updating
  BY DEF Update, Latest, StopService, Download, PipInstalls, PipFails, StartService, At, Updating
<1>4. Interrupt(c) => cli'[c].result = "killed"
  <2> SUFFICES ASSUME Interrupt(c) PROVE cli'[c].result = "killed"
    OBVIOUS
  <2> QED BY ExitOwn DEF Interrupt, Underway
<1> QED BY <1>0, <1>1, <1>2, <1>3, <1>4 DEF Fits

\* Where no order of the period has come too early, none had before.
LEMMA EarlyBefore ==
  ASSUME CourseInv, ~early'
  PROVE  /\ Quiet => ~early
         /\ \A c \in Commands : Order(c) \/ Joins(c) => ~early
<1>1. ASSUME NEW c \in Commands, Order(c) PROVE ~early
  BY <1>1, OrderEarly DEF CourseInv
<1>2. ASSUME NEW c \in Commands, Joins(c) PROVE ~early
  BY <1>2 DEF Joins
<1>3. Quiet => ~early
  BY DEF Quiet
<1> QED BY <1>1, <1>2, <1>3

-----------------------------------------------------------------------------
(* Uninstall *)

\* Once nothing is registered nothing runs, and what a command has passed is gone.
Removing ==
  /\ file = None => job.state # "running"
  /\ \A c \in period.of : /\ At(c, "delete") => job.state # "running"
                          /\ cli[c].pc \in {"sweep", "done"} => file = None
                          /\ At(c, "done") => ~legacy

RemoveInv == Clean("uninstall") /\ ~period.stray => Removing

\* The first order of each command.
LEMMA FirstSteps ==
  /\ First("install") = IF system = "macos" THEN "write" ELSE "end"
  /\ First("uninstall") = "query"
  /\ First("update") = "latest"
BY DEF First

\* RemoveInv in every step.
LEMMA RemoveStep == CourseInv /\ RemoveInv /\ [Next]_vars => RemoveInv'
<1> SUFFICES ASSUME CourseInv, RemoveInv, [Next]_vars,
                    Clean("uninstall")', ~period'.stray
             PROVE  Removing'
  BY DEF RemoveInv
<1>0. cli \in [Commands -> Row] /\ period \in [of : SUBSET Commands, stray : BOOLEAN] /\ TypeOK
  BY DEF CourseInv, TypeOK, Row
<1>1. ASSUME NEW c \in Commands, Order(c), Own(c) PROVE Removing'
  <2>1. /\ Removing /\ cli[c].verb = "uninstall" /\ cli'[c].result \in {None, "ok"}
        /\ period' = period /\ c \in period.of
        /\ \A k \in period.of : k # c => cli'[k] = cli[k]
    BY <1>0, <1>1, CleanBefore DEF RemoveInv, Own
  <2>2. Uninstall(c)
    BY <1>1, <2>1, OrderVerb DEF Order, None
  <2>3. CASE Query(c)
    <3>1. /\ cli[c].pc = "query" /\ file' = file /\ legacy' = legacy
          /\ job' = IF file # None THEN Ended ELSE job
          /\ cli'[c].pc = IF file # None THEN "delete" ELSE "sweep"
      BY <1>0, <2>3 DEF Query, Goto, At, Row
    <3>2. job.state # "running" => job'.state # "running"
      BY <1>0, <3>1, JobTypes
    <3>3. job'.state # "running"
      BY <1>0, <2>1, <3>1, JobTypes DEF Removing
    <3> QED BY <2>1, <3>1, <3>2, <3>3 DEF Removing, At
  <2>4. CASE Delete(c)
    <3>1. /\ cli[c].pc = "delete" /\ file' = None /\ legacy' = legacy /\ job' = job
          /\ \/ Goto(c, "sweep")
             \/ Exit(c, "failed") \/ Exit(c, "crashed")
      BY <2>4 DEF Delete, At
    <3>2. cli'[c].pc = "sweep"
      BY <1>0, <2>1, <3>1 DEF Goto, Exit, Row, None
    <3> QED BY <2>1, <3>1, <3>2 DEF Removing, At
  <2>5. CASE RemoveLegacy(c)
    <3>1. cli[c].pc = "sweep" /\ file' = file /\ legacy' = FALSE /\ job' = job
      BY <2>5 DEF RemoveLegacy, At
    <3>2. cli'[c].pc = "done"
      BY <1>0, <2>5 DEF RemoveLegacy, Exit, Row
    <3> QED BY <2>1, <3>1, <3>2 DEF Removing, At
  <2> QED BY <2>2, <2>3, <2>4, <2>5 DEF Uninstall
<1>2. ASSUME NEW c \in Commands, Fresh(c) PROVE Removing'
  <2>1. /\ period'.of = {c} /\ period'.stray = Stray
        /\ file' = file /\ job' = job /\ cli'[c].pc \notin {"idle", "done"}
    BY <1>2 DEF Fresh
  <2>2. cli'[c].pc = "query"
    <3>1. cli'[c].verb = "uninstall"
      BY <1>2, CleanBefore
    <3> QED BY <1>2, <3>1, FirstSteps DEF Fresh
  <2> QED BY <2>1, <2>2 DEF Removing, At, Stray
<1>3. ASSUME NEW c \in Commands, Joins(c) PROVE Removing'
  <2>1. /\ period'.of = period.of \cup {c} /\ period'.stray = period.stray
        /\ file' = file /\ job' = job /\ legacy' = legacy
        /\ \A k \in period.of : cli'[k] = cli[k]
    BY <1>0, <1>3 DEF Joins
  <2>2. Removing /\ cli'[c].pc = "query"
    <3>1. Clean("uninstall") /\ cli'[c].verb = "uninstall"
      BY <1>3, CleanBefore
    <3> QED BY <1>3, <2>1, <3>1, FirstSteps DEF Joins, RemoveInv
  <2> QED BY <2>1, <2>2 DEF Removing, At
<1>4. CASE Quiet
  <2>1. /\ Removing /\ cli' = cli
        /\ UNCHANGED <<system, file, legacy, disabled, build, glitches, period>>
    BY <1>4, CleanBefore DEF Quiet, RemoveInv
  <2>2. \/ job' = job
        \/ job'.state # "running"
        \/ job.state = "running" /\ job'.state = "running"
        \/ (\A c \in Commands : cli[c].pc \in {"idle", "done"}) /\ file # None
    BY <1>0, <1>4, JobTypes DEF Quiet
  <2> QED BY <1>0, <2>1, <2>2 DEF Removing, At
<1> QED BY <1>1, <1>2, <1>3, <1>4, StepKinds, CleanBefore

\* However many uninstalls overlap, and whatever state earlier commands left the machine
\* in: if each says it succeeded, no agent runs, is registered, or lingers under an old
\* label, unless a stray one was running when they began.
THEOREM UninstallRemoves == Spec => []Removed
<1>1. Init => RemoveInv
  BY DEF Init, RemoveInv, Clean
<1>2. CourseInv /\ RemoveInv => Removed
  <2> SUFFICES ASSUME CourseInv, RemoveInv, After("uninstall", {"ok"}), ~period.stray
               PROVE  file = None /\ job.state # "running" /\ ~legacy
    BY DEF Removed
  <2>1. Clean("uninstall") /\ period.of # {}
    BY DEF After, Clean
  <2>2. \A c \in period.of : cli[c].pc = "done" /\ c \in Commands
    BY DEF After, CourseInv, TypeOK, Fits, None
  <2> QED BY <2>1, <2>2 DEF RemoveInv, Removing, At
<1> QED BY <1>1, <1>2, RemoveStep, CourseInit, CourseStep, PTL DEF Spec

-----------------------------------------------------------------------------
(* Install on macOS *)

\* What the installs of a period have done so far. Whoever ends the job last starts it
\* again before it is through, under the plist that was written last.
MacInstalling ==
  /\ \A c \in period.of : ~At(c, "write") => file # None /\ ~legacy
  /\ \A c \in period.of : cli[c].pc \notin {"write", "bootout"} => ~disabled
  /\ job.state = "running" /\ (\A c \in period.of : cli[c].pc \notin {"write", "bootout"})
     => job.with = file /\ job.build = build
  /\ (\E c \in period.of : cli[c].pc \in {"kick", "done"})
     => \/ job.state = "running"
        \/ \E c \in period.of : cli[c].pc \in {"write", "bootout", "wait", "bootstrap", "check"}
  /\ job.state = "leaving" => \E c \in period.of : cli[c].pc \in {"write", "bootout", "wait"}

MacInv == system = "macos" /\ Clean("install") /\ ~early => MacInstalling

\* MacInv in every step.
LEMMA MacStep == CourseInv /\ MacInv /\ [Next]_vars => MacInv'
<1> SUFFICES ASSUME CourseInv, MacInv, [Next]_vars,
                    system' = "macos", Clean("install")', ~early'
             PROVE  MacInstalling'
  BY DEF MacInv
<1>0. /\ cli \in [Commands -> Row] /\ period \in [of : SUBSET Commands, stray : BOOLEAN]
      /\ TypeOK
  BY DEF CourseInv, TypeOK, Row
<1>1. ASSUME NEW c \in Commands, Order(c), Own(c) PROVE MacInstalling'
  <2>0. /\ MacInstalling /\ cli[c].verb = "install" /\ cli'[c].result \in {None, "ok"}
        /\ period' = period /\ c \in period.of /\ Clean("install") /\ system = "macos"
        /\ \A k \in period.of : k # c => cli'[k] = cli[k]
        /\ cli[c].pc # "idle" /\ Fits(cli[c])
    BY <1>0, <1>1, CleanBefore, EarlyBefore DEF MacInv, Own, CourseInv
  <2>1. Install(c) /\ cli[c].pc \in MacInstall
    <3>1. Install(c)
      BY <1>1, <2>0, OrderVerb DEF Order, None
    <3>2. cli[c].pc \in Pcs \ {"idle", "done"}
      BY <1>0, <1>1 DEF Own, Row
    <3> QED
      BY <2>0, <3>1, <3>2
         DEF Fits, Pcs, MacInstall, WinInstall, Uninstalling, Updating
  <2>2. CASE WritePlist(c)
    <3>1. /\ cli[c].pc = "write" /\ file' = cli[c].with /\ legacy' = FALSE /\ job' = job
          /\ disabled' = disabled /\ build' = build
          /\ cli'[c].pc = "bootout"
      BY <1>0, <2>2 DEF WritePlist, Goto, At, Row
    <3>2. file' # None
      BY <2>0, <3>1, LifecycleAssumption DEF Fits
    <3> QED BY <2>0, <3>1, <3>2 DEF MacInstalling, At
  <2>3. CASE Bootout(c)
    <3>1. /\ cli[c].pc = "bootout" /\ file' = file /\ legacy' = legacy /\ job' = Ended
          /\ disabled' = FALSE /\ build' = build
          /\ cli'[c].pc = "wait"
      BY <1>0, <2>3 DEF Bootout, Goto, At, Row
    <3>2. job'.state # "running"
      BY <1>0, <3>1, JobTypes
    <3> QED BY <2>0, <3>1, <3>2 DEF MacInstalling, At
  <2>4. CASE Wait(c)
    <3>1. /\ cli[c].pc = "wait" /\ UNCHANGED <<file, legacy, job, disabled, build>>
          /\ cli'[c].pc = "bootstrap" /\ job.state # "leaving"
      BY <1>0, <2>4 DEF Wait, TooEarly, Goto, At, Row
    <3> QED BY <2>0, <3>1 DEF MacInstalling, At
  <2>5. CASE Bootstrap(c)
    <3>1. /\ cli[c].pc = "bootstrap" /\ UNCHANGED <<file, legacy, disabled, build>>
          /\ cli'[c].pc = "kick" /\ job' = Loaded
      BY <1>0, <2>5 DEF Bootstrap, Goto, At, Row
    <3>2. job'.state = "running" /\ job'.with = file /\ job'.build = build
      BY <1>0, <3>1, JobTypes
    <3> QED BY <2>0, <3>1, <3>2 DEF MacInstalling, At
  <2>6. CASE BootstrapFails(c)
    <3>1. /\ cli[c].pc = "bootstrap" /\ UNCHANGED <<file, legacy, job, disabled, build>>
          /\ cli'[c].pc = "check"
      BY <1>0, <2>6 DEF BootstrapFails, At, Row
    <3> QED BY <2>0, <3>1 DEF MacInstalling, At
  <2>7. CASE CheckLabel(c)
    <3>1. /\ cli[c].pc = "check" /\ UNCHANGED <<file, legacy, job, disabled, build>>
          /\ \/ cli'[c].pc = "kick" /\ job.state # "absent"
             \/ cli'[c].pc = "bootstrap"
             \/ cli'[c].result = "failed"
      BY <1>0, <2>7 DEF CheckLabel, Goto, Exit, At, Row
    <3>2. job.state \in {"running", "leaving", "absent"}
      BY <1>0 DEF TypeOK
    <3>3. CASE cli'[c].pc = "kick" /\ job.state # "absent"
      BY <2>0, <3>1, <3>2, <3>3 DEF MacInstalling, At
    <3>4. CASE cli'[c].pc = "bootstrap"
      BY <2>0, <3>1, <3>4 DEF MacInstalling, At
    <3> QED BY <2>0, <3>1, <3>3, <3>4 DEF None
  <2>8. CASE Kickstart(c)
    <3>1. /\ cli[c].pc = "kick" /\ UNCHANGED <<file, legacy, disabled, build>>
          /\ cli'[c].pc = "done"
          /\ job' = IF job.state = "running" THEN [job EXCEPT !.build = build] ELSE job
      BY <1>0, <2>8 DEF Kickstart, Exit, At, Row
    <3>2. /\ job'.state = job.state /\ job'.with = job.with
          /\ job.state = "running" => job'.build = build
      BY <1>0, <3>1, JobTypes
    <3> QED BY <2>0, <3>1, <3>2 DEF MacInstalling, At
  <2> QED
    BY <2>1, <2>2, <2>3, <2>4, <2>5, <2>6, <2>7, <2>8
       DEF Install, EndTask, CreateTask, RunTask, At, MacInstall
<1>2. ASSUME NEW c \in Commands, Fresh(c) PROVE MacInstalling'
  <2>1. cli'[c].verb = "install" /\ period'.of = {c} /\ system = "macos"
    BY <1>2, CleanBefore DEF Fresh
  <2>2. cli'[c].pc = "write"
    BY <1>2, <2>1, FirstSteps DEF Fresh
  <2> QED BY <2>1, <2>2 DEF MacInstalling, At
<1>3. ASSUME NEW c \in Commands, Joins(c) PROVE MacInstalling'
  <2>1. /\ cli'[c].verb = "install" /\ Clean("install") /\ system = "macos"
        /\ period'.of = period.of \cup {c}
        /\ UNCHANGED <<file, job, legacy, disabled, build>>
        /\ ~early /\ \A k \in period.of : cli'[k] = cli[k]
    BY <1>0, <1>3, CleanBefore, EarlyBefore DEF Joins
  <2>2. cli'[c].pc = "write" /\ MacInstalling
    BY <1>3, <2>1, FirstSteps DEF Joins, MacInv
  <2> QED BY <2>1, <2>2 DEF MacInstalling, At
<1>4. CASE Quiet
  <2>1. /\ MacInstalling /\ Clean("install") /\ cli' = cli /\ system = "macos"
        /\ UNCHANGED <<file, legacy, disabled, build, period>>
    BY <1>4, CleanBefore, EarlyBefore DEF Quiet, MacInv
  <2>2. CASE job' = job
    BY <2>1, <2>2 DEF MacInstalling, At
  <2>3. CASE job.state = "leaving" /\ job' = NoJob
    BY <1>0, <2>1, <2>3, JobTypes DEF MacInstalling, At
  <2>4. CASE job.state = "running" /\ job' = [job EXCEPT !.build = build]
    BY <1>0, <2>1, <2>4, JobTypes DEF MacInstalling, At
  <2>5. CASE /\ \A c \in Commands : cli[c].pc \in {"idle", "done"}
             /\ job' = IF file # None /\ ~disabled THEN Loaded ELSE NoJob
    <3>1. period.of # {} /\ \A c \in period.of : cli[c].pc = "done"
      BY <1>0, <2>1, <2>5 DEF Clean, CourseInv
    <3>2. job' = Loaded
      BY <2>1, <2>5, <3>1 DEF MacInstalling, At
    <3>3. job'.state = "running" /\ job'.with = file /\ job'.build = build
      BY <1>0, <3>2, JobTypes
    <3> QED BY <2>1, <3>3 DEF MacInstalling, At
  <2> QED BY <1>4, <2>2, <2>3, <2>4, <2>5 DEF Quiet
<1> QED BY <1>1, <1>2, <1>3, <1>4, StepKinds, CleanBefore

-----------------------------------------------------------------------------
(* Install on Windows, alone *)

WinInstalling(c) ==
  /\ cli[c].pc \in {"create", "run"} => job.state # "running"
  /\ cli[c].pc = "run" => file # None
  /\ cli[c].pc = "done" => /\ job.state = "running" /\ job.with = file
                           /\ job.build = build /\ file # None

WinInv ==
  system = "windows" /\ Clean("install") /\ ~early
  => \A c \in Commands : period.of = {c} => WinInstalling(c)

\* WinInv in every step.
LEMMA WinStep == CourseInv /\ WinInv /\ [Next]_vars => WinInv'
<1> SUFFICES ASSUME CourseInv, WinInv, [Next]_vars,
                    system' = "windows", Clean("install")', ~early',
                    NEW w \in Commands, period'.of = {w}
             PROVE  WinInstalling(w)'
  BY DEF WinInv
<1>0. /\ cli \in [Commands -> Row] /\ period \in [of : SUBSET Commands, stray : BOOLEAN]
      /\ TypeOK
  BY DEF CourseInv, TypeOK, Row
<1>1. ASSUME NEW c \in Commands, Order(c), Own(c) PROVE WinInstalling(w)'
  <2>0. /\ period' = period /\ c \in period.of /\ c = w /\ system = "windows"
        /\ cli[c].verb = "install" /\ cli'[c].result \in {None, "ok"}
        /\ Fits(cli[c]) /\ cli[c].pc # "idle" /\ WinInstalling(c)
    BY <1>0, <1>1, CleanBefore, EarlyBefore DEF WinInv, Own, CourseInv
  <2>1. Install(c) /\ cli[c].pc \in WinInstall
    <3>1. Install(c)
      BY <1>1, <2>0, OrderVerb DEF Order, None
    <3>2. cli[c].pc \in Pcs \ {"idle", "done"}
      BY <1>0, <1>1 DEF Own, Row
    <3> QED
      BY <2>0, <3>1, <3>2
         DEF Fits, Pcs, MacInstall, WinInstall, Uninstalling, Updating
  <2>2. CASE EndTask(c)
    <3>1. cli'[c].pc = "create" /\ job' = Ended
      BY <1>0, <2>2 DEF EndTask, Goto, Row
    <3> QED BY <1>0, <2>0, <3>1, JobTypes DEF WinInstalling
  <2>3. CASE CreateTask(c)
    <3>1. /\ cli[c].pc = "create" /\ job' = job
          /\ \/ file' = cli[c].with /\ cli'[c].pc = "run"
             \/ cli'[c].result = "failed"
      BY <1>0, <2>3 DEF CreateTask, Goto, Exit, At, Row
    <3>2. cli[c].with # None
      BY <2>0, LifecycleAssumption DEF Fits
    <3> QED BY <2>0, <3>1, <3>2 DEF WinInstalling, None
  <2>4. CASE RunTask(c)
    <3>1. /\ cli[c].pc = "run" /\ job.state # "leaving" /\ file' = file /\ build' = build
          /\ job' = IF Loadable THEN Loaded ELSE job
          /\ cli'[c].pc = "done"
      BY <1>0, <2>4 DEF RunTask, TooEarly, Exit, At, Row
    <3>2. Loadable /\ file # None
      BY <1>0, <2>0, <3>1 DEF Loadable, WinInstalling, TypeOK
    <3> QED BY <1>0, <2>0, <3>1, <3>2, JobTypes DEF WinInstalling
  <2> QED
    BY <2>1, <2>2, <2>3, <2>4
       DEF Install, WritePlist, Bootout, Wait, Bootstrap, BootstrapFails, CheckLabel, Kickstart,
           At, WinInstall
<1>2. ASSUME NEW c \in Commands, Fresh(c) PROVE WinInstalling(w)'
  <2>1. cli'[c].verb = "install" /\ c = w /\ system = "windows"
    BY <1>2, CleanBefore DEF Fresh
  <2>2. cli'[c].pc = "end"
    BY <1>2, <2>1, FirstSteps DEF Fresh
  <2> QED BY <2>1, <2>2 DEF WinInstalling
<1>3. ASSUME NEW c \in Commands, Joins(c) PROVE FALSE
  BY <1>0, <1>3 DEF Joins
<1>4. CASE Quiet
  <2>1. /\ WinInstalling(w) /\ Clean("install") /\ cli' = cli /\ system = "windows"
        /\ w \in period.of /\ UNCHANGED <<file, legacy, disabled, build, period>>
    BY <1>4, CleanBefore, EarlyBefore DEF Quiet, WinInv
  <2>2. CASE job' = job
    BY <2>1, <2>2 DEF WinInstalling
  <2>3. CASE job.state = "leaving" /\ job' = NoJob
    BY <1>0, <2>1, <2>3, JobTypes DEF WinInstalling
  <2>4. CASE job.state = "running" /\ job' = [job EXCEPT !.build = build]
    BY <1>0, <2>1, <2>4, JobTypes DEF WinInstalling
  <2>5. CASE /\ \A c \in Commands : cli[c].pc \in {"idle", "done"}
             /\ job' = IF file # None /\ ~disabled THEN Loaded ELSE NoJob
    <3>1. cli[w].pc = "done"
      BY <2>1, <2>5 DEF CourseInv
    <3>2. job' = Loaded
      BY <2>1, <2>5, <3>1 DEF WinInstalling, CourseInv
    <3> QED BY <1>0, <2>1, <3>1, <3>2, JobTypes DEF WinInstalling
  <2> QED BY <1>4, <2>2, <2>3, <2>4, <2>5 DEF Quiet
<1> QED BY <1>1, <1>2, <1>3, <1>4, StepKinds, CleanBefore

\* However many installs overlap on macOS, and for one by itself on Windows: if each says
\* it succeeded, and none went on to start the agent while the old one was still leaving
\* (past UNLOAD_TIMEOUT on macOS, at any time on Windows), the agent runs with the settings
\* written last and the code on disk, whatever was running or half done when they began.
THEOREM InstallsAsWritten == Spec => []AsWritten
<1>1. Init => MacInv /\ WinInv
  BY DEF Init, MacInv, WinInv, Clean
<1>2. CourseInv /\ MacInv /\ WinInv => AsWritten
  <2> SUFFICES ASSUME CourseInv, MacInv, WinInv, After("install", {"ok"}), ~early,
                      system = "windows" => Alone
               PROVE  /\ job = Loaded /\ file # None
                      /\ system = "macos" => ~legacy
    BY DEF AsWritten
  <2>1. Clean("install") /\ period.of # {}
    BY DEF After, Clean
  <2>2. \A c \in period.of : cli[c].pc = "done" /\ c \in Commands
    BY DEF After, CourseInv, TypeOK, Fits, None
  <2>3. /\ job.state = "running" /\ job.with = file /\ job.build = build /\ file # None
        /\ system = "macos" => ~legacy
    <3>1. CASE system = "macos"
      BY <2>1, <2>2, <3>1 DEF MacInv, MacInstalling, At
    <3>2. CASE system = "windows"
      BY <2>1, <2>2, <3>2 DEF WinInv, WinInstalling, Alone
    <3> QED BY <3>1, <3>2, LifecycleAssumption DEF CourseInv, TypeOK
  <2>4. job = [state |-> job.state, with |-> job.with, build |-> job.build]
    BY DEF CourseInv, TypeOK
  <2> QED BY <2>3, <2>4 DEF Loaded
<1>3. Init => CourseInv
  BY CourseInit
<1>4. /\ CourseInv /\ [Next]_vars => CourseInv'
      /\ CourseInv /\ MacInv /\ [Next]_vars => MacInv'
      /\ CourseInv /\ WinInv /\ [Next]_vars => WinInv'
  BY CourseStep, MacStep, WinStep
<1> QED BY <1>1, <1>2, <1>3, <1>4, PTL DEF Spec

-----------------------------------------------------------------------------
(* Update, alone *)

\* An update by itself that found a registered agent at work.
Replaces(u) ==
  /\ period.of = {u} /\ ~period.stray
  /\ cli[u].verb = "update" /\ cli[u].saw /\ cli[u].result \in {None, "ok", "failed"}
  /\ ~disabled /\ glitches = 0 /\ ~early

\* Where it has left that agent.
Keeping(u) ==
  /\ file # None
  /\ cli[u].pc \in {"latest", "stop"} => job.state = "running"
  /\ cli[u].pc \in {"download", "pip", "start"} => job.state # "running" /\ cli[u].had
  /\ cli[u].pc = "done" => job.state = "running"
  /\ cli[u].pc = "done" /\ cli[u].result = "ok" /\ cli[u].had => job.build = build

KeepInv == \A u \in Commands : Replaces(u) => Keeping(u)

\* KeepInv in every step.
LEMMA KeepStep == CourseInv /\ KeepInv /\ [Next]_vars => KeepInv'
<1> SUFFICES ASSUME CourseInv, KeepInv, [Next]_vars,
                    NEW u \in Commands, Replaces(u)'
             PROVE  Keeping(u)'
  BY DEF KeepInv
<1>0. /\ cli \in [Commands -> Row] /\ period \in [of : SUBSET Commands, stray : BOOLEAN]
      /\ TypeOK /\ glitches \in Nat
  BY DEF CourseInv, TypeOK, Row
<1>1. ASSUME NEW c \in Commands, Order(c), Own(c) PROVE Keeping(u)'
  <2>0. /\ c = u /\ period' = period /\ Fits(cli[u]) /\ cli[u].result = None
        /\ cli[u].verb = "update" /\ cli[u].saw /\ cli'[u].result # "killed"
        /\ cli[u].pc \notin {"idle", "done"} /\ cli[u] \in Row
    BY <1>0, <1>1 DEF Own, CourseInv, Fits, Replaces, None
  <2>1. Update(u)
    BY <1>1, <2>0, OrderVerb DEF Order
  <2>2. disabled' = disabled /\ file' = file /\ glitches = 0
    BY <1>0, <2>1 DEF Update, Latest, StopService, Download, PipInstalls, PipFails,
       StartService, Replaces
  <2>3. Keeping(u)
    BY <1>1, <2>0, <2>2, EarlyBefore DEF KeepInv, Replaces
  <2>4. CASE Latest(u)
    <3>1. /\ cli[u].pc = "latest" /\ job' = job /\ ~cli[u].had
          /\ \/ cli'[u].pc \in {"recover", "stop"}
             \/ cli'[u].pc = "done" /\ cli'[u].had = cli[u].had
      BY <1>0, <2>0, <2>4 DEF Latest, Goto, Exit, At, Fits, Row
    <3> QED BY <2>2, <2>3, <3>1 DEF Keeping
  <2>5. CASE StopService(u)
    <3>1. job' = IF file # None THEN Ended ELSE job
      BY <2>5 DEF StopService
    <3>2. cli'[u] = [cli[u] EXCEPT !.pc = "download", !.had = file # None]
      BY <1>0, <2>5 DEF StopService
    <3>3. cli'[u].pc = "download" /\ cli'[u].had = (file # None)
      BY <2>0, <3>2 DEF Row
    <3> QED BY <1>0, <2>2, <2>3, <3>1, <3>3, JobTypes DEF Keeping
  <2>6. CASE Download(u)
    <3>1. /\ cli[u].pc = "download" /\ job' = job
          /\ \/ cli'[u].pc = "pip" /\ cli'[u].had = cli[u].had
             \/ cli'[u].result = "crashed"
      BY <1>0, <2>6 DEF Download, Goto, Exit, At, Row
    <3> QED BY <2>2, <2>3, <3>1 DEF Keeping, Replaces, None
  <2>7. CASE PipInstalls(u) \/ PipFails(u)
    <3>1. /\ cli[u].pc = "pip" /\ job' = job /\ cli'[u].pc \in {"start", "recover"}
          /\ cli'[u].had = cli[u].had
      BY <1>0, <2>7 DEF PipInstalls, PipFails, Goto, At, Row
    <3> QED BY <2>2, <2>3, <3>1 DEF Keeping
  <2>8. CASE StartService(u)
    <3>1. /\ cli[u].pc \in {"start", "recover"} /\ build' = build
      BY <2>8 DEF StartService, At
    <3>2. cli'[u].pc = "done" /\ cli'[u].had = cli[u].had
          /\ cli'[u].result = IF cli[u].pc = "start" THEN "ok" ELSE "failed"
      BY <1>0, <2>8, <3>1 DEF StartService, Exit, At, Row
    <3>3. WantsStart(u)
      BY <2>3, <3>1 DEF WantsStart, Keeping, At
    <3>9. job.state # "leaving"
      BY <2>8, <3>3 DEF StartService, TooEarly, Replaces
    <3>4. ~(glitches' = glitches + 1)
      BY <2>2 DEF Replaces
    <3>5. job' = IF Loadable THEN Loaded ELSE job
      BY <2>8, <3>3, <3>4 DEF StartService
    <3>6. job.state \in {"running", "absent"}
      BY <1>0, <3>9 DEF TypeOK
    <3>7. job.state = "absent" => Loadable
      BY <2>2, <2>3 DEF Loadable, Keeping, Replaces
    <3>8. /\ job'.state = "running"
          /\ cli[u].pc = "start" => job'.build = build
      BY <1>0, <2>3, <3>5, <3>6, <3>7, JobTypes DEF Keeping
    <3> QED BY <2>2, <2>3, <3>1, <3>2, <3>8 DEF Keeping
  <2> QED BY <2>1, <2>4, <2>5, <2>6, <2>7, <2>8 DEF Update
<1>2. ASSUME NEW c \in Commands, Fresh(c) PROVE Keeping(u)'
  <2>1. /\ c = u /\ cli'[u].verb = "update" /\ ~Stray /\ job.state = "running"
        /\ UNCHANGED <<file, job, build>>
    BY <1>2 DEF Fresh, Replaces
  <2>2. cli'[u].pc = "latest"
    BY <1>2, <2>1, FirstSteps DEF Fresh
  <2> QED BY <2>1, <2>2 DEF Keeping, Stray
<1>3. ASSUME NEW c \in Commands, Joins(c) PROVE Keeping(u)'
  BY <1>0, <1>3 DEF Joins, Replaces
<1>4. CASE Quiet
  <2>1. /\ cli' = cli /\ UNCHANGED <<file, build, disabled, glitches, period>>
        /\ ~disabled /\ Keeping(u) /\ u \in period.of
    BY <1>4, EarlyBefore DEF Quiet, KeepInv, Replaces
  <2>2. \/ job' = job
        \/ job.state # "running" /\ job'.state # "running"
        \/ job.state = "running" /\ job'.state = "running" /\ job'.build = build
        \/ cli[u].pc \in {"idle", "done"} /\ job'.state = "running" /\ job'.build = build
    BY <1>0, <1>4, <2>1, JobTypes DEF Quiet, Keeping
  <2> QED BY <2>1, <2>2 DEF Keeping, CourseInv
<1>5. CASE Kills
  BY <1>5 DEF Kills, Replaces, None
<1> QED BY <1>1, <1>2, <1>3, <1>4, <1>5, StepKinds

\* An update by itself over a registered agent at work leaves an agent at work, whether it
\* succeeds or fails in a way it expects, and on the new code if it succeeds; unless the
\* old agent was still leaving when it gave its one order to start.
THEOREM UpdateKeeps == Spec => []UpdateKeepsAgent
<1>1. Init => KeepInv
  BY DEF Init, KeepInv, Replaces
<1>2. CourseInv /\ KeepInv => UpdateKeepsAgent
  <2> SUFFICES ASSUME CourseInv, KeepInv, After("update", {"ok", "failed"}), Alone, ~early,
                      \A c \in period.of : cli[c].saw,
                      ~disabled, glitches = 0, ~period.stray
               PROVE  /\ job.state = "running"
                      /\ \A c \in period.of : cli[c].result = "ok" /\ cli[c].had
                                              => job.build = build
    BY DEF UpdateKeepsAgent, Keeps
  <2>1. PICK u \in Commands : period.of = {u}
    BY DEF Alone
  <2>2. cli[u].pc = "done" /\ Replaces(u)
    BY <2>1 DEF After, Replaces, CourseInv, Fits, None
  <2> QED BY <2>1, <2>2 DEF KeepInv, Keeping
<1> QED BY <1>1, <1>2, KeepStep, CourseInit, CourseStep, PTL DEF Spec
=============================================================================

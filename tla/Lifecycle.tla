------------------------------ MODULE Lifecycle ------------------------------
(***************************************************************************)
(* How the agent is put on a machine, replaced and removed: service.py,    *)
(* updater.py and the commands of cli/_lifecycle.py, each command a        *)
(* process of its own that gives one order after another to launchd or to  *)
(* the Task Scheduler, and may be interrupted between any two.  Stopping a *)
(* job is asynchronous: the label, or the instance, stays known until the  *)
(* process is gone, however long that takes, and only install on macOS     *)
(* waits for it, for a while.                                              *)
(***************************************************************************)
EXTENDS Naturals

CONSTANTS
  Commands,      \* the commands a user types, one run each
  Verbs,         \* what they may be, among install, uninstall and update
  Settings,      \* the argument lists an install can write
  Systems,       \* "macos", "windows"
  MaxAttempts,   \* len(BOOTSTRAP_DELAYS)
  MaxGlitches    \* bound: bootstraps that fail though nothing stands in their way

None == "none"

ASSUME LifecycleAssumption ==
  /\ Verbs \subseteq {"install", "uninstall", "update"}
  /\ Systems \subseteq {"macos", "windows"}
  /\ None \notin Settings
  /\ MaxAttempts \in Nat \ {0} /\ MaxGlitches \in Nat

VARIABLES
  system,
  file,       \* the settings in the plist, or in the scheduled task, or None
  job,        \* what the service manager runs: its settings and the build it loaded
  legacy,     \* an agent registered under an older label, and running
  disabled,   \* launchctl's sticky override
  build,      \* the package on disk
  cli,        \* the commands
  glitches,
  period,     \* history: the commands begun since none was under way, and whether an
              \* agent that nothing registers was running when the first of them began
  early       \* history: one of them went on to start a job still on its way out

vars == <<system, file, job, legacy, disabled, build, cli, glitches, period, early>>

NoJob == [state |-> "absent", with |-> None, build |-> "old"]

\* `bootout` and `/End` return as soon as the process has been told.
Ended == [job EXCEPT !.state = IF @ = "running" THEN "leaving" ELSE @]

Loaded == [state |-> "running", with |-> file, build |-> build]

\* `bootstrap` fails on a label still known, and `/Run` ignores a second instance.
Loadable == /\ file # None /\ job.state = "absent"
            /\ system = "macos" => ~disabled

Underway == {c \in Commands : cli[c].pc \notin {"idle", "done"}}

Goto(c, pc) == cli' = [cli EXCEPT ![c].pc = pc]
Exit(c, result) == cli' = [cli EXCEPT ![c].pc = "done", ![c].result = result]
At(c, pc) == cli[c].pc = pc

\* What an order to start finds, if it comes too early.
TooEarly == job.state = "leaving"

\* An agent runs that no plist or task stands for: an uninstall deleted the registration
\* under an install that was still starting it.
Stray == file = None /\ job.state = "running"

\* A machine as commands of the past may have left it.
Init ==
  /\ system \in Systems
  /\ file \in Settings \cup {None}
  /\ job \in {NoJob} \cup [state : {"running"}, with : Settings, build : {"old"}]
  /\ legacy \in BOOLEAN
  /\ disabled \in BOOLEAN /\ (system = "windows" => ~disabled)
  /\ build \in {"old", "new"}
  /\ cli = [c \in Commands |-> [pc |-> "idle", verb |-> None, with |-> None, tries |-> 0,
                                had |-> FALSE, saw |-> FALSE, result |-> None]]
  /\ glitches = 0 /\ period = [of |-> {}, stray |-> FALSE] /\ early = FALSE

-----------------------------------------------------------------------------
First(verb) == CASE verb = "install" -> IF system = "macos" THEN "write" ELSE "end"
                 [] verb = "uninstall" -> "query"
                 [] verb = "update" -> "latest"

Begin(c, verb, with) ==
  /\ At(c, "idle")
  /\ cli' = [cli EXCEPT ![c].pc = First(verb), ![c].verb = verb, ![c].with = with,
                        ![c].saw = job.state = "running"]
  /\ period' = IF Underway = {} THEN [of |-> {c}, stray |-> Stray]
                ELSE [period EXCEPT !.of = @ \cup {c}]
  /\ early' = (early /\ Underway # {})
  /\ UNCHANGED <<system, file, job, legacy, disabled, build, glitches>>

Interrupt(c) ==
  /\ c \in Underway
  /\ Exit(c, "killed")
  /\ UNCHANGED <<system, file, job, legacy, disabled, build, glitches, period, early>>

-----------------------------------------------------------------------------
(* install on macOS *)

WritePlist(c) ==
  /\ At(c, "write")
  /\ file' = cli[c].with /\ legacy' = FALSE
  /\ Goto(c, "bootout")
  /\ UNCHANGED <<system, job, disabled, build, glitches, period, early>>

\* Mutant: the label is not booted out, as when /Create /F was all there was.
BootoutForgotten(c) ==
  /\ At(c, "bootout")
  /\ disabled' = FALSE
  /\ Goto(c, "wait")
  /\ UNCHANGED <<system, file, job, legacy, build, glitches, period, early>>

Bootout(c) ==
  /\ At(c, "bootout")
  /\ disabled' = FALSE /\ job' = Ended
  /\ Goto(c, "wait")
  /\ UNCHANGED <<system, file, legacy, build, glitches, period, early>>

\* _wait_until_unloaded: the label is gone, or UNLOAD_TIMEOUT has passed, which is only
\* logged.
Wait(c) ==
  /\ At(c, "wait")
  /\ early' = (early \/ TooEarly)
  /\ Goto(c, "bootstrap")
  /\ UNCHANGED <<system, file, job, legacy, disabled, build, glitches, period>>

Bootstrap(c) ==
  /\ At(c, "bootstrap") /\ Loadable
  /\ job' = Loaded
  /\ Goto(c, "kick")
  /\ UNCHANGED <<system, file, legacy, disabled, build, glitches, period, early>>

BootstrapFails(c) ==
  /\ At(c, "bootstrap")
  /\ \/ ~Loadable /\ glitches' = glitches
     \/ Loadable /\ glitches < MaxGlitches /\ glitches' = glitches + 1
  /\ cli' = [cli EXCEPT ![c].pc = "check", ![c].tries = @ + 1]
  /\ UNCHANGED <<system, file, job, legacy, disabled, build, period, early>>

\* Mutant: one attempt too many.
CheckLabelAgain(c) ==
  /\ At(c, "check")
  /\ \/ job.state # "absent" /\ Goto(c, "kick")
     \/ job.state = "absent" /\ cli[c].tries <= MaxAttempts /\ Goto(c, "bootstrap")
  /\ UNCHANGED <<system, file, job, legacy, disabled, build, glitches, period, early>>

\* A label that is registered counts as loaded, even one that is on its way out.
CheckLabel(c) ==
  /\ At(c, "check")
  /\ \/ job.state # "absent" /\ Goto(c, "kick")
     \/ job.state = "absent" /\ cli[c].tries < MaxAttempts /\ Goto(c, "bootstrap")
     \/ job.state = "absent" /\ cli[c].tries = MaxAttempts /\ Exit(c, "failed")
  /\ UNCHANGED <<system, file, job, legacy, disabled, build, glitches, period, early>>

\* kickstart -k restarts the process under the settings launchd has loaded.
Kickstart(c) ==
  /\ At(c, "kick")
  /\ job' = IF job.state = "running" THEN [job EXCEPT !.build = build] ELSE job
  /\ Exit(c, "ok")
  /\ UNCHANGED <<system, file, legacy, disabled, build, glitches, period, early>>

-----------------------------------------------------------------------------
(* install on Windows *)

EndTask(c) ==
  /\ At(c, "end")
  /\ job' = Ended
  /\ Goto(c, "create")
  /\ UNCHANGED <<system, file, legacy, disabled, build, glitches, period, early>>

CreateTask(c) ==
  /\ At(c, "create")
  /\ \/ file' = cli[c].with /\ Goto(c, "run")
     \/ file' = file /\ Exit(c, "failed")
  /\ UNCHANGED <<system, job, legacy, disabled, build, glitches, period, early>>

\* /Run follows at once, and IgnoreNew drops it if the old instance is still there.
RunTask(c) ==
  /\ At(c, "run")
  /\ job' = IF Loadable THEN Loaded ELSE job
  /\ early' = (early \/ TooEarly)
  /\ Exit(c, "ok")
  /\ UNCHANGED <<system, file, legacy, disabled, build, glitches, period>>

-----------------------------------------------------------------------------
(* uninstall, alike on both: stop what is registered, delete its registration *)

\* Mutant: the registration is deleted under the running agent.
QueryOnly(c) ==
  /\ At(c, "query")
  /\ Goto(c, IF file # None THEN "delete" ELSE "sweep")
  /\ UNCHANGED <<system, file, job, legacy, disabled, build, glitches, period, early>>

Query(c) ==
  /\ At(c, "query")
  /\ job' = IF file # None THEN Ended ELSE job
  /\ Goto(c, IF file # None THEN "delete" ELSE "sweep")
  /\ UNCHANGED <<system, file, legacy, disabled, build, glitches, period, early>>

\* Another uninstall may have deleted it first, which only Windows reports as a
\* ServiceError.
Delete(c) ==
  /\ At(c, "delete")
  /\ file' = None
  /\ IF file # None THEN Goto(c, "sweep")
     ELSE Exit(c, IF system = "windows" THEN "failed" ELSE "crashed")
  /\ UNCHANGED <<system, job, legacy, disabled, build, glitches, period, early>>

RemoveLegacy(c) ==
  /\ At(c, "sweep")
  /\ legacy' = FALSE
  /\ Exit(c, "ok")
  /\ UNCHANGED <<system, file, job, disabled, build, glitches, period, early>>

-----------------------------------------------------------------------------
(* update *)

\* latest_release and the comparison of versions; --force goes on regardless.
Latest(c) ==
  /\ At(c, "latest")
  /\ \/ Goto(c, "recover")
     \/ build = "new" /\ Exit(c, "ok")
     \/ Goto(c, "stop")
  /\ UNCHANGED <<system, file, job, legacy, disabled, build, glitches, period, early>>

\* Mutant: the agent is left running while pip replaces its package.
StopForgotten(c) ==
  /\ At(c, "stop")
  /\ cli' = [cli EXCEPT ![c].pc = "download", ![c].had = file # None]
  /\ UNCHANGED <<system, file, job, legacy, disabled, build, glitches, period, early>>

StopService(c) ==
  /\ At(c, "stop")
  /\ cli' = [cli EXCEPT ![c].pc = "download", ![c].had = file # None]
  /\ job' = IF file # None THEN Ended ELSE job
  /\ UNCHANGED <<system, file, legacy, disabled, build, glitches, period, early>>

\* A download that fails raises what urllib raises, and nobody catches it.
Download(c) ==
  /\ At(c, "download")
  /\ Goto(c, "pip") \/ Exit(c, "crashed")
  /\ UNCHANGED <<system, file, job, legacy, disabled, build, glitches, period, early>>

\* Nothing waits for the agent to be gone.  "On Windows a running process locks the package
\* directory" (upgrade's comment): there pip fails while it is.
PipInstalls(c) ==
  /\ At(c, "pip")
  /\ system = "windows" => job.state = "absent"
  /\ build' = "new"
  /\ Goto(c, "start")
  /\ UNCHANGED <<system, file, job, legacy, disabled, glitches, period, early>>

PipFails(c) ==
  /\ At(c, "pip")
  /\ Goto(c, "recover")
  /\ UNCHANGED <<system, file, job, legacy, disabled, build, glitches, period, early>>

\* Mutant: the old build is not brought back when the install fails.
RecoverForgotten(c) == cli[c].had /\ At(c, "start")

\* After an install, if a service was there; after an UpdateError, whatever was.
WantsStart(c) == cli[c].had \/ At(c, "recover")

\* service.start() gives one order and does not look at its outcome.
StartService(c) ==
  /\ At(c, "start") \/ At(c, "recover")
  /\ early' = (early \/ (WantsStart(c) /\ TooEarly))
  /\ \/ /\ job' = IF WantsStart(c) /\ Loadable THEN Loaded ELSE job
        /\ glitches' = glitches
     \/ /\ WantsStart(c) /\ system = "macos" /\ glitches < MaxGlitches
        /\ job' = job /\ glitches' = glitches + 1
  /\ Exit(c, IF At(c, "start") THEN "ok" ELSE "failed")
  /\ UNCHANGED <<system, file, legacy, disabled, build, period>>

-----------------------------------------------------------------------------
(* launchd, the Task Scheduler and the machine *)

JobGone ==
  /\ job.state = "leaving"
  /\ job' = NoJob
  /\ UNCHANGED <<system, file, legacy, disabled, build, cli, glitches, period, early>>

\* KeepAlive and RestartOnFailure: a process that dies comes back, on the new code.
Respawn ==
  /\ job.state = "running" /\ job.build # build
  /\ job' = [job EXCEPT !.build = build]
  /\ UNCHANGED <<system, file, legacy, disabled, build, cli, glitches, period, early>>

\* RunAtLoad and the logon trigger.
Reboot ==
  /\ job' = IF file # None /\ ~disabled THEN Loaded ELSE NoJob
  /\ cli' = [c \in Commands |-> IF c \in Underway
                THEN [cli[c] EXCEPT !.pc = "done", !.result = "killed"] ELSE cli[c]]
  /\ UNCHANGED <<system, file, legacy, disabled, build, glitches, period, early>>

Install(c) ==
  \/ WritePlist(c) \/ Bootout(c) \/ Wait(c) \/ Bootstrap(c) \/ BootstrapFails(c)
  \/ CheckLabel(c) \/ Kickstart(c)
  \/ EndTask(c) \/ CreateTask(c) \/ RunTask(c)

Uninstall(c) == Query(c) \/ Delete(c) \/ RemoveLegacy(c)

Update(c) ==
  \/ Latest(c) \/ StopService(c) \/ Download(c) \/ PipInstalls(c) \/ PipFails(c)
  \/ StartService(c)

Finished == (\A c \in Commands : At(c, "done")) /\ UNCHANGED vars

Next ==
  \/ \E c \in Commands : \/ \E verb \in Verbs, with \in Settings : Begin(c, verb, with)
                         \/ Interrupt(c) \/ Install(c) \/ Uninstall(c) \/ Update(c)
  \/ JobGone \/ Respawn \/ Reboot \/ Finished

Spec == Init /\ [][Next]_vars

-----------------------------------------------------------------------------
(* Properties *)

Pcs == {"idle", "write", "bootout", "wait", "bootstrap", "check", "kick", "end", "create",
        "run", "query", "delete", "sweep", "latest", "stop", "download", "pip", "start",
        "recover", "done"}

TypeOK ==
  /\ system \in Systems
  /\ file \in Settings \cup {None}
  /\ job \in [state : {"absent", "running", "leaving"}, with : Settings \cup {None},
              build : {"old", "new"}]
  /\ {legacy, disabled} \subseteq BOOLEAN
  /\ build \in {"old", "new"}
  /\ cli \in [Commands -> [pc : Pcs, verb : Verbs \cup {None}, with : Settings \cup {None},
                           tries : 0..MaxAttempts, had : BOOLEAN, saw : BOOLEAN,
                           result : {None, "ok", "failed", "crashed", "killed"}]]
  /\ glitches \in 0..MaxGlitches
  /\ period \in [of : SUBSET Commands, stray : BOOLEAN] /\ early \in BOOLEAN

\* Nothing is under way, and what was last done was `verb`, ending in one of `results`.
After(verb, results) ==
  /\ Underway = {} /\ period.of # {}
  /\ \A c \in period.of : cli[c].verb = verb /\ cli[c].result \in results

Alone == \E c \in Commands : period.of = {c}

\* An install that says it succeeded leaves the agent running with the settings it wrote
\* and the code on disk, whatever ran, was stopped or was half done before; on macOS even
\* when several run at once (_windows_install's comment on the build left resident,
\* BOOTSTRAP_DELAYS). Except that none of them may have gone on to start the agent while
\* the old one was leaving: past UNLOAD_TIMEOUT on macOS, at any time on Windows.
AsWritten ==
  /\ After("install", {"ok"}) /\ ~early
  /\ system = "windows" => Alone
  => /\ job = Loaded /\ file # None
     /\ system = "macos" => ~legacy

\* An uninstall that says it succeeded leaves no agent behind, running or registered,
\* unless it found a stray one: it looks for the registration only.
Removed ==
  After("uninstall", {"ok"}) /\ ~period.stray
  => file = None /\ job.state # "running" /\ ~legacy

\* An update run over a working, registered agent leaves one working, on the code that is on
\* disk if the update succeeded.
Keeps(results) ==
  /\ After("update", results) /\ Alone
  /\ \A c \in period.of : cli[c].saw
  /\ ~disabled /\ glitches = 0 /\ ~period.stray
  => /\ job.state = "running"
     /\ \A c \in period.of : cli[c].result = "ok" /\ cli[c].had => job.build = build

\* ... whenever the update succeeded or failed in a way it expects: the agent that was
\* stopped is started again (upgrade, cmd_update). That order is given once and at once;
\* if the old agent is still leaving it is lost.
UpdateKeepsAgent == ~early => Keeps({"ok", "failed"})

\* ... whatever becomes of the update short of being interrupted: "the machine is never
\* left without an agent" (updater.py, lines 215-217). The code does not keep this.
NeverWithoutAgent == Keeps({"ok", "failed", "crashed"})
=============================================================================

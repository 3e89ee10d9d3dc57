-------------------------------- MODULE Fleet --------------------------------
(***************************************************************************)
(* Machines behind a KVM that share one keyboard with one platform slot,   *)
(* each running the agent, each wanting its own platform, one of them      *)
(* being typed on. They cannot talk to each other: an agent has its own    *)
(* host's input clock, what it reads from the keyboard and, when the       *)
(* receiver forwards it, the reply to another's write. How long a deadline *)
(* is is left open: an armed one fires some time. The sessions stay up and *)
(* no Logitech software runs; Worker has what happens then.                *)
(***************************************************************************)
EXTENDS Integers

CONSTANTS
  Machines,
  Target,       \* what each machine wants: AgentConfig.target_os
  Measuring,    \* the machines that can tell how long they were idle
  SettledChecks,
  Nudged,       \* the machines whose mouse was touched before it starts
  Disturbances, \* what may happen beside typing
  MaxInputs,    \* bound on what the users do
  MaxMishaps    \* bound on the rest

Platforms == {Target[m] : m \in Machines}
Nobody == "nobody"
Deadlines == {"assert", "peek", "beat"}
NoRecord == [platform |-> "unread", by |-> "nobody"]

ASSUME FleetAssumption ==
  /\ Nobody \notin Machines /\ Measuring \subseteq Machines /\ Nudged \subseteq Machines
  /\ {SettledChecks, MaxInputs, MaxMishaps} \subseteq Nat

VARIABLES
  keyboard,    \* its platform and who set it: host software or the keyboard itself
  typed,       \* the machine being typed on
  keys, mouse, \* machines with a key press, or any other input, within active_window
  loud,        \* the receiver forwards every reply to every machine
  at,          \* where each worker is: rest, gate, asking, writing, checking
  armed,       \* which of its deadlines are set
  wasIdle, peer,
  device,      \* the device object: last record, own last write, unseen foreign writes
  clean,       \* _clean_checks
  budget,      \* inputs and mishaps so far
  intrusions   \* writes of each machine, idle, over another being typed on, since it was
               \*   itself typed on, restarted, or forgot its peer

users == <<typed, keys, mouse>>
agents == <<at, armed, wasIdle, peer, device, clean>>
vars == <<keyboard, users, loud, agents, budget, intrusions>>

-----------------------------------------------------------------------------
Init ==
  /\ keyboard \in [platform : Platforms, by : {"keyboard"}]
  /\ typed \in Machines \cup {Nobody} /\ keys = {typed} \ {Nobody}
  /\ mouse \in SUBSET Nudged
  /\ loud \in BOOLEAN
  /\ at = [m \in Machines |-> "rest"]
  /\ armed = [m \in Machines |-> {"assert"}]
  /\ wasIdle = [m \in Machines |-> FALSE] /\ peer = wasIdle
  /\ device = [m \in Machines |-> [seen |-> NoRecord, wrote |-> FALSE, foreign |-> FALSE]]
  /\ clean = [m \in Machines |-> SettledChecks]
  /\ budget = [inputs |-> 0, mishaps |-> 0]
  /\ intrusions = [m \in Machines |-> 0]

\* Mutant: seconds taken for milliseconds, so that nobody is ever idle.
NeverIdle(m) == FALSE

\* seconds_since_input > active_window, where the younger of the two clocks counts.
Idle(m) == m \notin keys /\ m \notin mouse

\* Mutant: the machines do not take turns.
NeverStandsDown(m) == FALSE

\* Mutant: the machine being typed on yields too.
StandsDownInUse(m) == peer[m]

StandingDown(m) == peer[m] /\ m \in Measuring /\ Idle(m)

Goto(m, where) == at' = [at EXCEPT ![m] = where]
Arm(m, ds) == armed' = [armed EXCEPT ![m] = ds]

-----------------------------------------------------------------------------
(* The loop of _run *)

YieldTurn(m) ==
  /\ at[m] = "rest" /\ "assert" \in armed[m] /\ StandingDown(m)
  /\ UNCHANGED vars

StartPass(m) ==
  /\ at[m] = "rest" /\ "assert" \in armed[m] /\ ~StandingDown(m)
  /\ Goto(m, "gate") /\ Arm(m, armed[m] \ {"assert"})
  /\ UNCHANGED <<keyboard, users, loud, wasIdle, peer, device, clean, budget, intrusions>>

\* The idle watch acts on the edge back to use.
Peek(m) ==
  /\ at[m] = "rest" /\ "peek" \in armed[m]
  /\ LET inUse == m \in Measuring /\ ~Idle(m)
     IN  /\ Arm(m, IF ~peer[m] THEN armed[m] \ {"peek"}
                   ELSE IF inUse /\ wasIdle[m]
                   THEN (armed[m] \ {"peek"}) \cup {"assert"} ELSE armed[m])
         /\ wasIdle' = [wasIdle EXCEPT ![m] = peer[m] /\ ~inUse]
  /\ UNCHANGED <<keyboard, users, loud, at, peer, device, clean, budget, intrusions>>

Beat(m) ==
  /\ at[m] = "rest" /\ "beat" \in armed[m]
  /\ Arm(m, (armed[m] \ {"beat"}) \cup {"assert"})
  /\ UNCHANGED <<keyboard, users, loud, at, wasIdle, peer, device, clean, budget,
                 intrusions>>

\* _unsettled, which eases off while a peer is around.
Schedule(m, sees, checks) ==
  LET close == ~sees /\ checks < SettledChecks
  IN  Arm(m, {"beat"} \cup (armed[m] \cap {"peek"})
             \cup (IF close \/ (sees /\ m \notin Measuring) THEN {"assert"} ELSE {})
             \cup (IF sees /\ m \in Measuring THEN {"peek"} ELSE {}))

\* The end of a pass that asked: _adopt_foreign_observations, the clean count, and what
\* _run makes of the outcome.
Conclude(m, dev, outcome, hearers) ==
  LET sees   == peer[m] \/ dev.foreign
      checks == CASE outcome = "right"  -> IF clean[m] < SettledChecks THEN clean[m] + 1
                                           ELSE clean[m]
                  [] outcome = "silent" -> clean[m]
                  [] OTHER              -> 0
  IN  /\ Goto(m, "rest")
      /\ peer' = [n \in Machines |-> peer[n] \/ n \in hearers \/ (n = m /\ sees)]
      /\ device' = [device EXCEPT ![m] = [dev EXCEPT !.foreign = FALSE]]
      /\ clean' = [clean EXCEPT ![m] = checks]
      /\ IF outcome \in {"silent", "refused"} THEN Arm(m, armed[m] \cup {"assert"})
         ELSE Schedule(m, sees, checks)

-----------------------------------------------------------------------------
(* One pass over the keyboard *)

GateYields(m) ==
  /\ at[m] = "gate" /\ StandingDown(m)
  /\ Goto(m, "rest") /\ Schedule(m, peer[m], clean[m])
  /\ UNCHANGED <<keyboard, users, loud, wasIdle, peer, device, clean, budget, intrusions>>

GateOpens(m) ==
  /\ at[m] = "gate" /\ ~StandingDown(m)
  /\ Goto(m, "asking")
  /\ UNCHANGED <<keyboard, users, loud, armed, wasIdle, peer, device, clean, budget,
                 intrusions>>

\* Mutant: the record keeps the platform and not who set it.
NotedWithoutAuthor(m) == [device[m] EXCEPT !.seen = [keyboard EXCEPT !.by = "nobody"]]

\* _note_host_record, with what this agent wrote last: a machine writes one platform only.
Noted(m) ==
  [device[m] EXCEPT
     !.seen = keyboard,
     !.foreign = @ \/ /\ keyboard # device[m].seen /\ device[m].wrote
                      /\ keyboard.by = "software" /\ keyboard.platform # Target[m]]

Read(m) ==
  /\ at[m] = "asking"
  /\ IF keyboard.platform = Target[m]
     THEN Conclude(m, Noted(m), "right", {})
     ELSE /\ Goto(m, "writing") /\ device' = [device EXCEPT ![m] = Noted(m)]
          /\ UNCHANGED <<armed, peer, clean>>
  /\ UNCHANGED <<keyboard, users, loud, wasIdle, budget, intrusions>>

\* The machines that hear a write of m: the receiver may forward the reply to all, some
\* or none of the others.
Hearers(m) == {hs \in SUBSET (Machines \ {m}) : loud => hs = Machines \ {m}}

Intrudes(m) == Idle(m) /\ typed \notin {m, Nobody} /\ Target[typed] # Target[m]

Lands(m) ==
  /\ keyboard' = [platform |-> Target[m], by |-> "software"]
  /\ intrusions' = [intrusions EXCEPT ![m] = IF loud /\ Intrudes(m) THEN @ + 1 ELSE @]

Write(m) ==
  /\ at[m] = "writing" /\ Goto(m, "checking")
  /\ Lands(m)
  /\ \E hs \in Hearers(m) : peer' = [n \in Machines |-> peer[n] \/ n \in hs]
  /\ device' = [device EXCEPT ![m].wrote = TRUE]
  /\ UNCHANGED <<users, loud, armed, wasIdle, clean, budget>>

Verify(m) ==
  /\ at[m] = "checking"
  /\ Conclude(m, Noted(m), IF keyboard.platform = Target[m] THEN "changed" ELSE "refused",
              {})
  /\ UNCHANGED <<keyboard, users, loud, wasIdle, budget, intrusions>>

-----------------------------------------------------------------------------
(* What goes wrong *)

Mishap(what) ==
  /\ what \in Disturbances
  /\ budget.mishaps < MaxMishaps /\ budget' = [budget EXCEPT !.mishaps = @ + 1]

\* Mutant: a keyboard that does not answer the read is written all the same.
WriteBlind(m) ==
  /\ at[m] = "asking" /\ Mishap("timeout")
  /\ Goto(m, "writing")
  /\ UNCHANGED <<keyboard, users, loud, armed, wasIdle, peer, device, clean, intrusions>>

\* No answer in time. A write may have landed all the same, and others hear of it; a
\* read-back is done without.
Unanswered(m) ==
  /\ Mishap("timeout")
  /\ \/ /\ at[m] \in {"asking", "writing"}
        /\ Conclude(m, device[m], "silent", {}) /\ UNCHANGED <<keyboard, intrusions>>
     \/ /\ at[m] = "writing" /\ Lands(m)
        /\ \E hs \in Hearers(m) : Conclude(m, device[m], "silent", hs)
     \/ /\ at[m] = "checking"
        /\ Conclude(m, device[m], "changed", {}) /\ UNCHANGED <<keyboard, intrusions>>
  /\ UNCHANGED <<users, loud, wasIdle>>

\* A sighting grows older than PEER_MEMORY: every one does, and nothing bounds how often.
Forget(m) ==
  /\ peer[m]
  /\ peer' = [peer EXCEPT ![m] = FALSE] /\ intrusions' = [intrusions EXCEPT ![m] = 0]
  /\ UNCHANGED <<keyboard, users, loud, at, armed, wasIdle, device, clean, budget>>

\* The agent is restarted and knows nothing.
Restart(m) ==
  /\ Mishap("restart")
  /\ Goto(m, "rest") /\ Arm(m, {"assert"})
  /\ wasIdle' = [wasIdle EXCEPT ![m] = FALSE] /\ peer' = [peer EXCEPT ![m] = FALSE]
  /\ device' = [device EXCEPT ![m] = [seen |-> NoRecord, wrote |-> FALSE, foreign |-> FALSE]]
  /\ clean' = [clean EXCEPT ![m] = SettledChecks]
  /\ intrusions' = [intrusions EXCEPT ![m] = 0]
  /\ UNCHANGED <<keyboard, users, loud>>

-----------------------------------------------------------------------------
(* The users *)

Input == budget.inputs < MaxInputs /\ budget' = [budget EXCEPT !.inputs = @ + 1]

\* The user turns to a machine, or walks away from all of them.
Type(m) ==
  /\ typed # m /\ Input
  /\ typed' = m /\ keys' = keys \cup ({m} \ {Nobody})
  /\ intrusions' = [n \in Machines |-> IF n = m THEN 0 ELSE intrusions[n]]
  /\ UNCHANGED <<keyboard, mouse, loud, agents>>

\* active_window passes since the last input.
Quiet(m) ==
  /\ m \in keys \cup mouse /\ typed # m
  /\ keys' = keys \ {m} /\ mouse' = mouse \ {m}
  /\ UNCHANGED <<keyboard, typed, loud, agents, budget, intrusions>>

-----------------------------------------------------------------------------
Assert(m) == YieldTurn(m) \/ StartPass(m)
Pass(m) == GateYields(m) \/ GateOpens(m) \/ Read(m) \/ Write(m) \/ Verify(m)

Next ==
  \/ Type(Nobody)
  \/ \E m \in Machines : \/ Assert(m) \/ Peek(m) \/ Beat(m) \/ Pass(m)
                         \/ Unanswered(m) \/ Forget(m) \/ Restart(m)
                         \/ Type(m) \/ Quiet(m)

Spec == Init /\ [][Next]_vars

\* Each worker goes on, whichever of its armed deadlines comes first, and a machine without
\* input becomes idle.
Fairness ==
  /\ \A m \in Machines : WF_vars(Assert(m) \/ Peek(m) \/ Beat(m) \/ Pass(m))
  /\ WF_vars(\E m \in Machines : Quiet(m))

FairSpec == Spec /\ Fairness

-----------------------------------------------------------------------------
(* Properties *)

TypeOK ==
  /\ keyboard \in [platform : Platforms, by : {"software", "keyboard"}]
  /\ typed \in Machines \cup {Nobody} /\ keys \subseteq Machines /\ mouse \subseteq Machines
  /\ at \in [Machines -> {"rest", "gate", "asking", "writing", "checking"}]
  /\ armed \in [Machines -> SUBSET Deadlines]
  /\ loud \in BOOLEAN /\ wasIdle \in [Machines -> BOOLEAN] /\ peer \in [Machines -> BOOLEAN]
  /\ device \in [Machines -> [seen : {NoRecord} \cup
                                      [platform : Platforms, by : {"software", "keyboard"}],
                             wrote : BOOLEAN, foreign : BOOLEAN]]
  /\ clean \in [Machines -> 0..SettledChecks] /\ intrusions \in [Machines -> Nat]

RightForTyped == typed = Nobody \/ keyboard.platform = Target[typed]

\* The machine being typed on gets its layout, again and again if need be, even if nothing
\* is ever overheard (activity.py: "the one being typed on takes the keyboard"). The users'
\* inputs are bounded, so somebody is typed on for good in the end.
TypedOnWins == []<>RightForTyped

\* On a receiver that forwards replies the machines fight for as long as sightings go on
\* expiring, and no longer: once the users settle, a keyboard that is never left alone is
\* written over for ever only because an idle machine forgets its peer again and again, once
\* per PEER_MEMORY, the cycle the comment at agent/__init__.py lines 102-107 describes.
FightsEnd ==
  loud => \/ []<><<\E m \in Machines : Forget(m)>>_vars
          \/ <>[][keyboard' = keyboard]_keyboard

\* On such a receiver an idle machine writes over the one being typed on at most twice
\* before it stands down: once because it knew of no other, and once in a pass whose gate
\* it had passed when it heard of the other. Then not again until it is typed on, is
\* restarted or forgets: at most twice in each PEER_MEMORY, however many machines there are.
FewIntrusions == \A m \in Measuring : intrusions[m] <= 2

\* Towards the keyboard each machine's pass is the check-and-correct call of Correction,
\* whatever the other machines do in the middle of it.
C(m) == INSTANCE Correction WITH
  Platforms <- Platforms,
  platform  <- keyboard.platform,
  want      <- Target[m],
  phase     <- CASE at[m] = "asking" -> "looking" [] at[m] = "writing" -> "differs"
                 [] at[m] = "checking" -> "written" [] OTHER -> "idle"
Corrects == /\ \A m \in Machines : C(m)!Init
            /\ [][\A m \in Machines : [C(m)!Next]_(C(m)!cvars)]_vars

\* "A mouse jiggling on one machine should not let it claim a keyboard that is busy on
\* another" (activity.py, line 38): no machine goes ahead that knows of the other and was
\* not typed on within active_window, while another is. The younger of two clocks says
\* otherwise.
NoMouseClaim ==
  [][\A m \in Machines : at[m] = "gate" /\ at'[m] = "asking" =>
       ~(peer[m] /\ m \notin keys /\ typed \notin {m, Nobody})]_vars
=============================================================================

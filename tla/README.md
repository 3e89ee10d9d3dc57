# logiswitch in TLA+

logiswitch keeps the operating-system layout ("platform") of Logitech keyboards right
while they hop between machines. It is an agent of four threads that shares a HID++
receiver with other programs and other machines, plus commands that install, update and
remove that agent. This directory models its concurrent and failure-prone parts, checks
them with TLC and proves the main safety properties with TLAPS.

Run, in this directory:

    tlc -workers 2 -config WorkerKeyboard.cfg MCWorker.tla    # any run of the table below
    tlapm TransportProofs.tla                                 # any ...Proofs module

`PROJECT.json` maps every definition to the source lines it models and lists the runs, a
mutant of the code for every property, the findings, the hazards and the theorems.

## The system

| part | source | state it keeps | modelled in |
|---|---|---|---|
| transport | `hidpp/transport.py` | the installed sink, ledgers of abandoned and recent requests, foreign software ids, `_dead`, reader threads, handles | `Transport` |
| protocol | `hidpp/protocol.py` | none; builds and classifies frames | frame matching in `Transport`, host records in `Device` |
| backend | `hidpp/backend.py` | the hidapi library | the reads and writes of `Transport` |
| device | `hidpp/device.py` | feature cache, host index, last host record, last own write, foreign writes | `Device`; its platform part again in `Worker` |
| discovery | `hidpp/discovery.py` | none | `FindReceiver`, `Discovered` in `Worker` |
| agent worker | `agent/__init__.py` | event queue, three deadlines, retry and settle counters, away record | `Worker` |
| arbitration | `agent/_arbitration.py` | peer sighting, foreign count, idle edge | `Worker`; between machines, `Fleet` |
| sessions | `agent/_sessions.py` | open sessions, driven devices, hints | `Worker` |
| agent process | `agent/__init__.py`, `cli/_run.py` | the stop flag, the thread and watcher handles | `Host` |
| watchers | `platform/watchers/*.py` | IOKit priming marks, the polling watcher's last sample | `Watchers` |
| notifier | `notify/__init__.py` | cooldowns, suppressed counts, queue, courier thread | `Notifier` |
| notification senders | `notify/_macapp.py`, `platform/_wintoast.py` | the bundle on disk, `_tried` and `_resolved` per process | `Applet` |
| host senses | `keystate.py`, `activity.py`, `diagnostics.py` | caches | booleans of `Worker`'s world; two input clocks in `Fleet` |
| service, updater | `service.py`, `updater.py`, `cli/_lifecycle.py` | the plist or task, the job, the package | `Lifecycle` |
| health and trace | `trace.py` | counters, a ring of records | no |
| cli, doctor, paths, images | the rest | none that interleaves | no |

How they interact:

- A watcher thread, the reader threads and the signal handler put events in one bounded
  queue; the worker thread takes them. `_put` drops an event when the queue is full.
- The worker runs passes. A pass builds a session if none is open, asks each keyboard for
  its platform, writes and verifies; each request is one exchange of the transport.
- A reader thread hears every frame on the receiver. It answers the one installed sink,
  files what nobody waits for as ours-but-late or as another program's, and hands
  unsolicited frames to the agent, which may queue an event or note another machine.
- Agents on different machines never talk. Each sees the keyboard's platform and who set
  it, its own host's idle time and, on some receivers, the replies to the other's writes.
- The main thread starts worker and watcher, waits for the stop flag and tears down.
- The notifier's courier delivers what main, worker and reader threads send; on macOS
  through a bundle that several processes build, swap and run.
- The commands act on the agent only through launchd or the Task Scheduler, the plist or
  task, and the package on disk.

What is hard: late and duplicated keys on a wire shared with programs that use the same
ids; requests that time out and answer later; a queue that drops; deadlines of which at
least one must stay armed; a keyboard that is silent because it is elsewhere; a platform
that reverts; firmware that acknowledges what it does not do; other writers; two agents
that each believe to be right; what a timed-out probe leaves in a cache; stopping at any
moment; a process killed between two renames; service managers that acknowledge an order
before they carry it out; commands that are interrupted halfway or overlap.

What makes each part correct:

- *transport*: an answer is credited to the request it answers; an answer somebody waits
  for is not thrown away; our traffic is not taken for another program's; a handle is closed
  under a reader only where two closes meet.
- *device*: an acknowledged write holds until somebody else writes; no foreign write is
  imagined; nothing is written blind; what was cached on a bad day does not keep a
  keyboard wrong for ever.
- *worker*: something is always scheduled; an absent keyboard is not polled without end in
  quiet mode; events are acted on even if dropped; a reachable keyboard ends up on the
  right platform; a peer is believed in only for cause; a stop ends it.
- *fleet*: the machine being typed on wins; the fight ends but for what expired sightings
  start again; an idle machine intrudes only a bounded number of times per sighting.
- *process, watchers, notifier*: every change is looked at; a stop ends the process;
  suppressed notifications are accounted for.
- *bundle*: its replacement does not lose it, no note is lost with it, it is rebuilt.
- *commands*: success means the agent runs as written, or is gone, respectively; an update
  keeps a working agent working; each provided the old agent was gone in time.

`PROJECT.json` lists the hazards line by line, with the properties that cover them.

## The modules

**`Correction`** — the abstract specification: what one check-and-correct call promises
about the keyboard it is made on. It writes at most once, the wanted platform only, and
only after a look in the same call that found another one; it may fail anywhere, and the
rest of the world writes at any time. Three modules implement it, each under a refinement
mapping of its own, as the property `Corrects`: `Device` (the requests of one
`ensure_os`), `Worker` (the pass, towards each keyboard by itself) and `Fleet` (the pass of
each machine, while the others do theirs). The phase of the abstract call is read off the
program counter; `Device` has to look at what a host lookup is made for, since the code
looks the host up before the read as well as before the write.

**`Transport`** — one receiver. `Request`, `Scan`, `Retry`, `Install`, `Write`,
`WriteFails`, `TimesOut`, `Abandon`, `Clear` and `Return` are the steps of the asking
thread inside `request` and `scan`; a scan asks its silent or busy slots again one by one.
`Read` and `ReadForeign` take a frame off the wire, in any order and however late, and
`CheckAbandoned`, `TakeSink` and `Offer` are the three separately interleaved parts of
`_dispatch`. `AbandonRaced` is the unlocked dictionary of `_abandon` copied by one thread
while another pops from it. A read under way when the stop comes may still return a frame,
which is dispatched like any other; the reader leaves at the head of its loop. An error
frame is matched by a scan on its slot and function byte only (`Resembles`): `Lookalikes`
lists the pairs of questions the code cannot tell apart then. `ReadFails` and
`ReaderExits` end a reader. A reply key (device, feature, function, software id) is
`<<query, software id>>`; `from` in a frame says which exchange it truly answers and no
guard reads it. Merged into one step because nothing observes the middle: waking and
clearing the sink's wait, forgetting and returning, marking dead and failing the sink,
stopping and failing in `close`. No receiver is assumed to answer later than the minute
`_recent` remembers. One thread asks at a time (the request lock). Any number of `Closers`
may be inside `close()` at once: each joins the readers it finds on the list (`listed`),
judges which are stuck, clears the list, and then closes the handles or leaves them to the
OS. No property restates that order; `ReadersOutlived` says what is left of the
docstring's promise when two of them meet.

**`Device`** — one `HidppDevice`, request by request. `OpenSession` to `Named` probe it
when a session is built: the newer feature with its table and descriptors, the fall-back
to the older one, the name; `ProbeLost` and `MultiFails` are what is left when one of these
fails, cached for the session. `StartCall` to `Unconfirmed` are `ensure_os`: host lookup,
read, write, verify, with `_note_host_record` on every reading; `FallBackOnTimeout`,
`WriteFails`, `CallFails` and `CallLost` are their failures, and `Killed` a restart that
forgets the object. A keyboard is a record of the feature it has, its table, which
descriptors are short, how it answers for its host, and whether a write to host 0xFF is
acknowledged and dropped. A session opens when there is none; when calls are made is
`Worker`'s business.

**`Worker`** — the worker thread's loop (`Agent._run`), the pass it runs (`_apply_once`),
and the world around it. The deadlines `next_assert`, `next_heartbeat` and
`next_idle_peek` are countdowns (`due`), run down by `Tick`; time is not urgent, so any
scheduling delay is covered. `TakeChanged`, `TakeWoke`, `YieldTurn`, `HoldOff`, `Peek`,
`Beat` and `StartPass` are the branches of the loop, in its order. `FindReceiver` to
`GateOpens` open a session and pass the turn-taking gate; `ReadPlatform`, `NoAnswer`,
`WritePlatform`, `VerifyPlatform`, `TransportLost` and `BlowsUp` are the outcomes of each
request; `Conclude` is the common tail: away record, retry, quiet give-up with its
backstop, settling and heartbeat. A keyboard has a platform that is `ours` or `theirs`, and
a last writer; a device object keeps the last record it saw, whether it wrote, and how many
foreign writes it counted. The world hops keyboards, unplugs the receiver, reverts
platforms, writes from elsewhere, talks unprompted, and holds keys. `ghost` is history for
the properties. One receiver; idle time, held modifiers and local rivals are booleans.

**`Fleet`** — several machines, one keyboard with one platform slot, users who move from
one machine to another. Each agent is the gate, the pass and the deadlines of `Worker`
without the failures that module has: sessions stay up, a deadline fires some time. A
sighting may expire at any moment and any number of times (`Forget`), as `PEER_MEMORY` has
it. Idle time is the younger of two clocks, as `_macos_idle` has it: keys and any input.
`loud` says whether the receiver forwards the reply to another machine's write to
everyone, a property of the hardware that arbitration by frames rests on; by records it
works on any receiver.

**`Applet`** — the bundle macOS attributes notifications to: found by its stamp, built,
swapped into place by two renames, run, and given up for osascript, by the agent and by
commands at once. `Killed` may come anywhere between two steps of `_swap`; tools fail or are
slow, an uninstall deletes the bundle in two steps, the user or the OS spoils it.

**`Watchers`** — the IOKit watcher (two iterators, each with a priming mark), the cfgmgr32
watcher, the polling watcher, and `Agent._put`, the bounded queue they feed. An
enumeration that fails is an empty sample (`SampleFails`). The bus is external.

**`Notifier`** — `send` as its critical steps (`Allow`, `Post` with the take of the
count, and the queue), interleaved among senders; the courier; start and stop.

**`Host`** — extends the two above with the main thread of `cmd_watch`: `start` step by
step, the fallback to polling, `wait`, `stop` from a signal handler, `shutdown`. The worker
is abstracted to "take an event, look, perhaps keep a session open": `Worker` is its
detail, and the heartbeat (`Rearm`) is deliberately not fair here, so that hearing a change
never rests on it.

**`Lifecycle`** — `install`, `uninstall` and `update` as processes; every order to
`launchctl` or `schtasks` is a step, as are download, pip and every early exit. launchd's
`bootout` is asynchronous (`leaving`, then `JobGone`); a label still registered refuses a
`bootstrap`, as the comments in `service.py` report. `Interrupt` and `Reboot` may come
between any two steps. Only the install on macOS waits for the label to go, and only
`UNLOAD_TIMEOUT` long (`Wait`, which may give up); every other order to start is given at
once. `early` remembers that some command went on to start a job that was still on its way
out. pip replaces the package while the agent runs on macOS; on Windows, as the comment in
`upgrade` says, a running process locks the package directory. `Init` is a machine as
earlier commands may have left it, among them one with an agent that nothing registers
(`Stray`).

The `MC…` modules extend these for TLC. `TransportProofs`, `WorkerProofs`,
`DeviceProofs`, `FleetProofs`, `AppletProofs`, `LifecycleProofs` and `HostProofs` hold the
theorems; `SumTheorems` the lemmas about sums over finite sets that two of them need.

## The runs

| run | states | what it asks |
|---|---|---|
| `transport_turn` | 3.4 M | A rotation of two ids and three requests among another program's frames, so the third reuses the first's id: `CreditedWithinTurn`, `StragglersRejected`, `LiveReplyNotSwallowed`. |
| `transport_race` | 2.7 M | Two readers, scans with retries and with errors they mistake for their own, two threads in `close()`; one id, so every pair of exchanges shares keys: `StragglersRejected`, `OursFiledAsOurs`, `ReadersOutlived`. |
| `device` | 0.22 M | Eight kinds of keyboard, each request with each outcome, three faults and two moves of the world: `WriteSticks`, `ForeignReal`, `Corrects`, and `Recovers` (liveness). |
| `worker_keyboard` | 0.96 M | One keyboard under every disturbance but `link` and `stop`, automatic quiet mode: `BackstopArmed`, `QuietTries`, `AsleepKeepsGateOpen`, `PeerReal`, `Corrects`, and `Converges` (liveness). |
| `worker_events` | 0.4 M | No heartbeat, a queue of one: `EventsLookedAt`, `StopEnds` (liveness). |
| `fleet` | 0.35 M | A Mac and a PC, one turn of the users, one lost answer or restart, sightings that expire without end, on both kinds of receiver: `FewIntrusions`, `Corrects`, `TypedOnWins` and `FightsEnd` (liveness). |
| `applet` | 0.12 M | The agent and a command, four events of any kind: `OneSurvives`, `NoneLost`, and `Rebuilt` (liveness). |
| `lifecycle` | 0.33 M | Two commands of any kind on either system, with interrupts, reboots and a spurious bootstrap failure: `AsWritten`, `Removed`, `UpdateKeepsAgent`. |
| `host` | 0.45 M | All watchers, threads and signals: `CountedOnce`, `ChangesHeard`, `StopEndsProcess` (liveness). |
| `lifecycle_update`, `host_stop`, `fleet_mouse` | — | One finding each; TLC finds the violation. |

Bounds. Every hazard here needs few actors and several steps, and each bound is chosen so
that its case occurs: an id must come round once (exchanges = ids + 1); two readers to
deliver out of order; a queue of one is full after one event; retry, settle and give-up
counters of one or two reach each branch of the schedule; three disturbances (`MaxMoves`)
allow one to be undone and another to fall into the repair, and `NoAnswer`'s and `Hop`'s
returns cost nothing, so absence may last for ever. `Device`'s three faults let a probe, a
host lookup and a write each go wrong in one run; its keyboards are one per branch of the
code. In `Fleet` the run takes `SettledChecks` as 0 to stay small: the checks on probation
are passes that the heartbeat, whose length is open, may as well start at any moment, so
no interleaving of passes is lost; the theorems about `Fleet` hold for any number of
checks. There one turn of the users gives each machine its time as the one typed on; that
the bound of `FewIntrusions` is 2 and not 1 is seen in this instance, and that it is 2 for
any number of machines is proved. Nothing bounds `Forget`. In `Host` one budget is shared
by the bus, signals, notifications and failing enumerations, in any mixture. Two commands
suffice for `Lifecycle` because its `Init` allows what a third could have left; the
theorems are about any number. The mutants show that each property can be broken within
the bounds.

Fairness. The worker, the courier, the watcher and the main thread are threads the
operating system schedules, each a weakly fair action; in `Device` the requests of a probe
and of a call, in `Applet` the steps of each process. `Tick` is fair because
`time.monotonic` advances, and so are, in `Fleet`, the loop of each worker as a whole,
whichever armed deadline comes first, and `Quiet`, by which a machine nobody touches comes
to count as idle; `PeerForgotten` in `Worker` because a sighting expires after
`PEER_MEMORY`. No keyboard is made to return, no sighting of `Fleet` to expire, no key to
be released, no user to move, no receiver to be plugged in, no cooldown to end, no fault
to happen or to stop short of its bound. `Converges` therefore speaks of the keyboards
that are here, and the `MAX_DEFER` limit alone ends a held key.

Exceptions written into properties, each because the code promises no more:

- `AsleepKeepsGateOpen` speaks of a session none of whose keyboards answered what it was
  last asked; one answer closes the gate for all (below).
- `PeerReal` and `ForeignReal` count a keyboard that acknowledges a write and does not obey
  it as a foreign writer, as the code does.
- `WriteSticks` excuses firmware that answered the question for its host with an error;
  the comment in `current_host` accepts that case.
- `ChangesHeard` excuses the first IOKit event per iterator (`darwin.py` line 277), a change
  before any watcher's `start()` has returned (`up`), and what makes no difference between
  two samples of the polling watcher: a bounce, or a removal right after an enumeration that
  failed, which the failed one has reported already.
- `CountedOnce` counts as `lost` a message the full queue refuses together with the count it
  had taken.
- `FightsEnd` lets the machines go on fighting as long as sightings go on expiring: in each
  `PEER_MEMORY` the machine that stood down writes again and learns again, for ever. What
  bounds one such round is `FewIntrusions`, which starts its count anew with each.
- `OneSurvives` says where the bundle is as long as nobody is killed. After one kill a copy
  left in `.old` counts as surviving, though no code puts it back: the next build deletes it
  and builds another. A second kill and two builds that meet are excused; `Rebuilt` excuses
  a bundle broken behind a right stamp.
- `AsWritten` speaks of concurrent installs on macOS only; on Windows nothing serialises
  them.
- `AsWritten` and `UpdateKeepsAgent` leave out the runs in which a command gave its order to
  start while the old agent was still leaving (`early`): the order is then lost (below).
- `Removed` and `UpdateKeepsAgent` leave out a stray agent found running: `uninstall` and
  `update` ask for the plist or task. An uninstall that overlaps an install leaves one.
- `UpdateKeepsAgent` leaves out the exception classes of finding 1, and speaks of an update
  that ran alone over a working, enabled agent with no spurious failure of launchd.
- `ReadersOutlived` excuses the readers that one of two closing threads has just found stuck.

## Findings

1. `lifecycle_update`: a download that fails with an `OSError` leaves the agent stopped,
   while `updater.py` says the machine is never left without one.
2. `host_stop`: `start()` clears a stop signalled before it, and the process stays with no
   worker.
3. `fleet_mouse`: the younger of two input clocks counts, so a machine whose mouse moved
   claims a keyboard that another is typing on, which the comment in `activity.py` says it
   should not.

Differences between code and text that the models show and no run states:

- `_might_have_been_away` says that two keyboards, one asleep, keep its gate open on the
  other's chatter; one answer clears the away record of both, and the sleeper's return is
  taken for chatter (`agent/__init__.py` lines 522-524 and 984).
- A keyboard away during one hinted rebuild drops out of the hints for good, while
  `discover_devices` promises every reachable device (`hidpp/discovery.py` line 137).
- `close()` says the readers are joined before a handle is closed (`hidpp/transport.py`
  lines 276-278). Where two threads close at once, one empties the list the other looks at
  (lines 285-286), which then finds nobody stuck and closes the handles under a live reader.
- The retries of `BOOTSTRAP_DELAYS` are to "cover a teardown that outlives UNLOAD_TIMEOUT"
  (`service.py` lines 49-51), but a label still being torn down passes for a loaded one (line
  258): the retries never run, and install reports success without an agent.
- On Windows `/Run` follows the asynchronous `/End` without a wait (`service.py` lines
  180-184; lines 578-580 say so of `/End`). `IgnoreNew` drops it while the old instance is
  leaving, and install reports success without an agent, although its comment says "End it
  first, then start the replacement".
- `upgrade` and `cmd_update` start the agent once, look at no outcome, and wait for nothing
  (`updater.py` lines 219-233). A `bootstrap` of a label still registered fails (`service.py`
  lines 43-46), and the machine is left without the agent that lines 215-217 say it always
  has. On macOS, too, nothing keeps pip from replacing the package under the old agent.
- "The count is never simply lost" (`notify/__init__.py` lines 197-198): a full queue refuses
  the message after the count was taken for it, and the count goes with it (lines 240-242).
- The priming mark of IOKit's iterators outlives the priming pass and swallows the first
  real change (`darwin.py` line 277).
- A bundle with the right stamp that does not run is tried again for each note and never
  rebuilt (`_macapp.py` lines 142-147).

## What is proved

Each theorem holds for every value of the constants that satisfies the assumptions its
module states (`TransportAssumption`, `DeviceAssumption`, `WorkerAssumption`,
`FleetAssumption`, `AppletAssumption`, `LifecycleAssumption`, `WatchersAssumption`,
`NotifierAssumption`). Every safety property of the passing runs is a theorem.

*Transport.* `TypeCorrect`; `LateRepliesSeparated`: no exchange is credited with the late
reply of another less than a whole rotation of ids before it. The argument is the
conjunction `TransportInv`: turns ascend with exchanges (`TurnsAscend`); a frame in a
reader's hands carries the stamp of the exchange it answers and its sink is no older
(`HeardTrue`, `SinkTaken`); so what a sink accepted collides with it in the rotation
(`CreditedTrue`); and two colliding, ascending turns are a whole rotation apart (a lemma
about `%`). None of the conjuncts is inductive alone. `LiveRepliesHeard`: an entry of the
ledger that could swallow the answer being waited for was left a whole rotation ago, from
`AbandonedTrue` (only calls that gave up leave one). `ReadersKnown`: for any number of
closing threads, a handle is closed under a live reader only while another thread that found
this reader stuck has yet to give the handles up. It takes two facts: a live reader that is
off the list was found stuck by such a thread (`StuckFound`), and nothing is closed before
the list is empty (`ListEmptied`).

Beyond a turn the ledgers decide, and they take a second invariant, `LedgerInv`, on top of
the first. A reply answers a question its exchange asked, wherever it is, and exists once
(`WireTrue`, `HeardOnce`); what was not sent is not answered (`UnsentQuiet`); a request
wakes only when its one question is settled (`RequestsAskOne`, `EventSettled`), and what is
settled stays so, although an error reply may take a failure back. From these,
`GuardStands`: once a request is over and was not settled, its ledger entry stands as long
as its reply is to come, and no reader is past the check with it, save for the ways the
code has to lose the entry, which `unguarded` records. `LedgerRejects` follows: no other
sink gets the reply. `AskedRemembered` says that what `_forget_request` drops has been
settled, and `OursStayOurs` follows. `HeardOnce` is the crux of the guard: one frame uses
the entry up, so it must be the only one. TLC finds `LedgerInv` to hold on both instances
of the table above.

*Device.* `WritesStick`, `ForeignBacked`, `TypeCorrect`, and `Implements`: `Device`
implements `Correction`. `DeviceInv` says, beside the types, that a device object's own
write is the platform the table offers for the target (`OwnChoice`), that a call about to
write a keyboard with the firmware bug addresses the host by number unless the lookup
erred (`AddressedRight`), that a clean last write is the keyboard's platform
(`CleanIsRight`), and that every foreign record yet to be noted has its cause (`Backed`):
the count alone is not inductive, because a cause precedes its being counted.

*Worker.* `BackstopNeverLost`: with a heartbeat configured, an assertion or heartbeat
deadline is armed whenever the worker is between passes. `WorkerInv` adds what each step
may assume of the deadlines and counters; every way a pass ends goes through `Conclude`,
one lemma. `QuietTriesBounded`: in quiet mode at most `QuietRetryAttempts + 1` passes fail
in a row without a success, an event or a heartbeat; the retry counter bounds the history
count. `TypeCorrect`. `PeerIsReal`: `ForeignInv` says that until there is a cause no
device object counts a foreign write, and no keyboard the agent wrote, in this session or
before it, is in a state another program left, so that nothing a rebuilt session reads can
be taken for one; it rests on `CallInv`, below. `GateStaysOpen`: `SilentInv` ties the away
record to who answered: at the loop it is the opposite of `reached`, and a pass that has
had an answer has a keyboard, done with, that is not silent. `Implements`: for any number
of keyboards the pass implements `Correction` towards each, from `CallInv`, that the
locals of the pass fit the place the worker is at.

*Fleet.* `IntrusionsBounded` for any number of machines: `Intruder` says what a machine
knows, and where in its pass it may still be, after its first and after its second
intrusion; after the second it knows of a peer and has no pass under way. `TypeCorrect`;
`Implements`: every machine's pass implements `Correction` whatever the others do.

*Applet.* `NotesKept`, `BundleSurvives`, `TypeCorrect` for any set of processes, from
`AppletInv`: a note under way is where it can still be shown (`Sending`), one process at
most is in a swap unless builds met (`Alone`), and where the bundle that runs is at each
step of the swap (`OneSurvives` itself, which is inductive with the other two).

*Lifecycle.* For any number of commands and settings, interrupts and reboots included:
`UninstallRemoves`, `InstallsAsWritten`, `UpdateKeeps`, `TypeCorrect`. All rest
on `CourseInv` (a command's place fits its verb, and who is under way belongs to the
period) and on a reduction of every step to five kinds: an order of one command, the
first command of a period, one that joins, the machine alone, and a reboot that kills.
What carries `InstallsAsWritten` on macOS is that whoever ends the job last starts it again
before it is through (`MacInstalling`): a job on its way out has a command waiting for it,
a command past its start finds the job running or another command about to start it, and
what runs is what was written last once nobody is about to end it. None of these assumes
that a stopped agent is gone in time: where it was not, `early` says so, and the statement is
about the other runs.

*Process and notifier.* `NothingCountedTwice`: for any number of senders, kinds and queue
places, `send`'s two critical sections, the courier, start and stop move an occurrence from
one place to another and never make or lose one. `HostInv` carries the account with the
types (`TypeCorrect`) and with where the main thread is while the courier is off: `Launch`
may start it only because nothing is in its hands then.

*Sums.* `SumTheorems` proves of `SumFunctionOnSet` of the community modules, for every
finite set: it is a natural number, it depends on the values in the set only, and what
adding or removing an element, changing a value, or renaming the indices does to it. The
operator is a fold, and induction theorems that take a predicate as an operator cannot be
instantiated by the provers here. The induction goes over sets: among the subsets of a
finite set for which a statement fails there would be a least one (`LeastSubset`), and the
table of the fold over all subsets exists and is unique (`TableExists`, `TableUnique`).

Only model-checked: all liveness (fairness and `ENABLED` are beyond the prover).

## What is not modelled

- Bytes: report sizes, feature payloads, formatting, logs, doctor output, argument parsing.
- The hidapi binding (`hidpp/backend.py`): no state of its own; what it returns is what
  `Transport` reads and writes.
- Several receivers, the grouping of interfaces, the on-disk hint cache.
- Trace windows, health counters and the warnings computed from them: they only report.
- Windows toasts, PATH edits by the installer, pip killed midway, `service.restart`, which
  nothing calls.
- How idle time, held modifiers and competing software are read from the operating system.
- A watcher start that times out and then succeeds; a worker that outlives the five-second
  join.
- In `Worker` a driven keyboard that offers no option for the target (skipped by the pass,
  `agent/__init__.py` lines 911-913); `Device` has such keyboards. In `Device` a host record
  is its platform and its author; the code compares its host number and status, too, so that
  a change of these alone would count a foreign write again.
- A first enumeration of the polling watcher that fails; later ones may (`SampleFails`).
- The drawing tools under `tools/`.

## Order of the work

Most important first: `Transport` and its proofs, `Worker` and its proofs, `Lifecycle`,
then `Watchers`, `Notifier` and their composition `Host`; then the abstract `Correction`
with `Device`, `Fleet` and `Worker` implementing it, `Applet`, and the proofs about these
and about `Lifecycle`. Next would be the composition of `Transport` with `Device` in place
of its four outcomes, and `trace.py`'s rate windows against their definition.

\* Every watcher, a receiver that comes and goes, signals at any moment, and three threads
\* that notify through a queue of one: three such moves in all, in any mixture.
SPECIFICATION Spec
CONSTANTS
  Interfaces = {"r1"}
  Systems = {"Darwin", "Windows"}
  InboxSize = 1
  MaxMoves = 3
  Senders = {"main", "worker", "reader"}
  NoteKinds = {"peer"}
  QueueSize = 1
INVARIANTS TypeOK CountedOnce
PROPERTIES ChangesHeard StopEndsProcess

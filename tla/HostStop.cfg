\* One signal at any moment of an agent with nothing else to do.
SPECIFICATION Spec
CONSTANTS
  Interfaces = {"r1"}
  Systems = {"Darwin", "Windows"}
  InboxSize = 1
  MaxMoves = 1
  Senders = {"main", "worker", "reader"}
  NoteKinds = {"peer"}
  QueueSize = 1
PROPERTIES StopHeeded

\* Two commands of any kind, one after the other or at once, on either system, with
\* interrupts, reboots and a bootstrap that fails once for no reason.
SPECIFICATION Spec
CONSTANTS
  Commands = {c1, c2}
  Verbs = {"install", "uninstall", "update"}
  Settings = {s1, s2}
  Systems = {"macos", "windows"}
  MaxAttempts = 2
  MaxGlitches = 1
SYMMETRY Symmetry
INVARIANTS TypeOK AsWritten Removed UpdateKeepsAgent

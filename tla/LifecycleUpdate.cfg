\* One update, on either system.
SPECIFICATION Spec
CONSTANTS
  Commands = {c1}
  Verbs = {"update"}
  Settings = {s1}
  Systems = {"macos", "windows"}
  MaxAttempts = 2
  MaxGlitches = 0
INVARIANTS NeverWithoutAgent

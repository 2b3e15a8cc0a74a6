CONSTANTS
  Files <- MCFiles
  Overrides <- MCOverrides
  Absolute = {"/data", "/..", "/"}
  Outside = {"/..", "/"}
  NoDirs = {"nodir"}
  Colons = {"a:b", "x:y"}
  Garbled = {"e'"}
SPECIFICATION Spec
CHECK_DEADLOCK FALSE
INVARIANTS TypeOK ParsedAsDeclared RuntimeGetsConfig

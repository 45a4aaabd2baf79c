SPECIFICATION Spec
CONSTANTS
  Nil = Nil
  Torn = Torn
  Agents = {claude, codex}
  TomlAgents = {codex}
  Versions = {1, 2}
  MaxBackups = 1
  MaxEdits = 1
  MaxFaults = 1
CHECK_DEADLOCK FALSE
INVARIANT StaleAgentsArePending
 
PROPERTY BinaryReplacedWhole

SPECIFICATION FairSpec
CONSTANTS
  Rows = {r1, r2}
  MAX_CONTROL_COMMANDS_PER_TICK = 1
  MAX_PTY_OUTPUT_CHUNKS_PER_TICK = 2
  MAX_INITIAL_SNAPSHOTS = 1
  MaxCommands = 1
  MaxOutput = 2
CHECK_DEADLOCK FALSE
INVARIANTS
  NothingSleeps
  StaleIfReplaced
PROPERTIES
  Arrives

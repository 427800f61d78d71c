SPECIFICATION LoggerSpec
CONSTANTS
  Files = {"log", "other"}
  Levels = {"info", "debug"}
  Console = "console"
  NoLogger = "none"
INVARIANTS
  OneLog

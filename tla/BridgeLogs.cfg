SPECIFICATION Spec
CONSTANTS
  Files = {"log", "other"}
  Levels = {"info", "debug", "off"}
  Console = "console"
  NoLogger = "none"
  DefaultFile = "log"
  Unset = Unset
  NoFile = ""
  Off = "off"
INVARIANTS
  LogsAsAsked
CHECK_DEADLOCK FALSE

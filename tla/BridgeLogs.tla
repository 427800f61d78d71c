----------------------------- MODULE BridgeLogs -----------------------------
(***************************************************************************)
(* The logs main sets up from its command line and the file: the activity  *)
(* log, and the access log of the web server, which takes from the first   *)
(* what its own section does not say, and is the same logger if they agree *)
(* (yy_mqtt_bridge.cpp:106-208).                                           *)
(***************************************************************************)
EXTENDS Logger

CONSTANTS
  DefaultFile, \* g_default_file_path
  Unset,       \* what a section or the command line does not say
  NoFile,      \* an empty file name
  Off          \* the level off, and the sink of a null logger

\* A null sink is no file.
ASSUME OffAssumption == Off \notin Files \cup {DefaultFile}

VARIABLES
  logs,      \* where main is
  option,    \* the file of the option -l, or Unset
  logging,   \* the section mqtt_bridge/logging, or Unset
  accessing, \* the section prometheus/access_log, or Unset
  access     \* the logger the web server is given

vars == <<logVars, logs, option, logging, accessing, access>>
asked == <<option, logging, accessing>>

Section == [filename : Files \cup {Unset}, level : Levels \cup {Unset}]

Init ==
  /\ LoggerInit
  /\ logs = "console"
  /\ option \in Files \cup {Unset}
  /\ logging \in Section \cup {Unset}
  /\ accessing \in
       Section \cup {[filename |-> NoFile, level |-> "info"], Unset}
  /\ access = NoLogger

\* configure_logging: what a section says, in place of what was set before.
Said(new, old) == IF new = Unset THEN old ELSE new

ConfigureLogging(section, config) ==
  IF section = Unset THEN config
  ELSE [filename |-> Said(section.filename, config.filename),
        level    |-> Said(section.level, config.level)]

\* The option -l hides the section.
LogConfig ==
  IF option # Unset THEN [filename |-> option, level |-> "info"]
  ELSE ConfigureLogging(logging, [filename |-> DefaultFile, level |-> "info"])

AccessConfig ==
  IF accessing = Unset THEN [filename |-> NoFile, level |-> Off]
  ELSE ConfigureLogging(accessing, LogConfig)

-----------------------------------------------------------------------------
Goes(from, to) == logs = from /\ logs' = to /\ UNCHANGED asked

StartOnConsole ==
  /\ Goes("console", "file")
  /\ SetConsoleLogger
  /\ UNCHANGED access

StartLog ==
  /\ Goes("file", "level")
  /\ SetLogger(LogConfig.filename)
  /\ UNCHANGED access

LevelLog ==
  /\ Goes("level", "access")
  /\ SetLevel(LogConfig.level)
  /\ UNCHANGED access

\* A mutant: the level is not looked at.
SharedByFile == AccessConfig.filename = LogConfig.filename

Shared == AccessConfig = LogConfig

Wanted == AccessConfig.level # Off /\ AccessConfig.filename # NoFile

CreateAccessLog ==
  /\ Goes("access", "serving")
  /\ \/ /\ ~ Wanted
        /\ MakeAccess(Off, globalLevel)
        /\ access' = "access"
     \/ /\ Wanted /\ Shared
        /\ access' = g_logger
        /\ UNCHANGED logVars
     \/ /\ Wanted /\ ~ Shared
        /\ MakeAccess(AccessConfig.filename, AccessConfig.level)
        /\ access' = "access"

\* The option -h: no log is started after its usage.
StopAfterUsage ==
  /\ Goes("file", "stopped")
  /\ StopAllLogs
  /\ UNCHANGED access

\* A configuration that is not run, or the end of serving.
StopLogs ==
  /\ \E point \in {"access", "serving"} : Goes(point, "stopped")
  /\ StopAllLogs
  /\ UNCHANGED access

Next ==
  \/ StartOnConsole \/ StopAfterUsage \/ StartLog \/ LevelLog
  \/ CreateAccessLog \/ StopLogs

Spec == Init /\ [][Next]_vars

-----------------------------------------------------------------------------
(***************************************************************************)
(* While the bridge serves, what is logged goes where it was asked to, at  *)
(* the level that was asked for: the activity to the file of the option,   *)
(* or of its section; the accesses to the file of their own section, or    *)
(* the activity's if that does not say, or nowhere.  Two loggers write to  *)
(* one file only if they have to, as their levels differ                   *)
(* (yy_mqtt_bridge.cpp:137-148 and 173-208).                               *)
(***************************************************************************)
InSection(section, field) == IF section = Unset THEN Unset ELSE section[field]

LogsAsAsked ==
  LET file == Said(option, Said(InSection(logging, "filename"), DefaultFile))
      lvl  == IF option # Unset THEN "info"
              ELSE Said(InSection(logging, "level"), "info")
      accessFile  == Said(InSection(accessing, "filename"), file)
      accessLevel == Said(InSection(accessing, "level"), lvl)
  IN logs = "serving" =>
       /\ defaultLogger = "activity"
       /\ sink["activity"] = file /\ level["activity"] = lvl
       /\ IF accessing = Unset \/ accessLevel = Off \/ accessFile = NoFile
          THEN sink[access] = Off
          ELSE sink[access] = accessFile /\ level[access] = accessLevel
       /\ access # "activity" /\ sink[access] = sink["activity"]
            => level[access] # level["activity"]
=============================================================================

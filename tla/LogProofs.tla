----------------------------- MODULE LogProofs -----------------------------
(***************************************************************************)
(* OneLog for every sequence of calls of the functions of logger.cpp, and  *)
(* LogsAsAsked for every command line and configuration.                   *)
(***************************************************************************)
EXTENDS BridgeLogs, TLAPS

\* OneLog says which logs are registered; the current one is one of them.
LogInv ==
  /\ g_logger \in {"stderr", "activity", NoLogger}
  /\ cut \in BOOLEAN /\ switched \in BOOLEAN
  /\ OneLog

(***************************************************************************)
(* A switch to a log that is not registered drops the other, and makes the *)
(* new one the current and the default log.                                *)
(***************************************************************************)
LEMMA ReplaceKeepsOne ==
  ASSUME LogInv, NEW n \in {"stderr", "activity"}, NEW to,
         Make(n, to), Replace(n)
  PROVE  LogInv'
PROOF
  <1>1. /\ n \notin registered /\ cut' = cut /\ g_logger' = n /\ switched'
        /\ defaultLogger' = IF g_logger = n THEN NoLogger ELSE n
    BY DEF Make, Replace
  <1>2. PICK former \in {{}, {defaultLogger}} :
          registered' = ((registered \ former) \cup {n}) \ {g_logger}
    BY DEF Replace
  <1>3. ASSUME ~ cut  PROVE OneLog'
    <2>1. registered \cap {"stderr", "activity"} = {g_logger} \ {NoLogger}
      BY <1>3 DEF LogInv, OneLog
    <2>2. g_logger # n
      BY <1>1, <2>1, LoggerAssumption DEF Names
    <2>3. registered' \cap {"stderr", "activity"} = {n}
      BY <1>2, <2>1, <2>2 DEF LogInv
    <2>4. n # NoLogger
      BY LoggerAssumption DEF Names
    <2> QED
      BY <1>1, <2>2, <2>3, <2>4 DEF OneLog
  <1> QED
    BY <1>1, <1>3 DEF LogInv, OneLog, Replace

(***************************************************************************)
(* Whatever the calls, until one cuts it, there is one log; and from the   *)
(* first that sets it, on the console or in a file, it is the default one  *)
(* (logger.cpp:51-124).                                                    *)
(***************************************************************************)
THEOREM ThereIsOneLog == LoggerSpec => []OneLog
PROOF
  <1>1. LoggerInit => LogInv
    BY LoggerAssumption DEF LoggerInit, LogInv, OneLog, Names
  <1>2. LogInv /\ [LoggerNext]_logVars => LogInv'
    <2>1. SUFFICES ASSUME LogInv, [LoggerNext]_logVars  PROVE LogInv'
      OBVIOUS
    <2>2. CASE UNCHANGED logVars
      BY <2>1, <2>2 DEF LogInv, OneLog, logVars, history
    <2>3. CASE \E file \in Files : SetLogger(file)
      BY <2>1, <2>3, ReplaceKeepsOne DEF SetLogger
    <2>4. CASE StopLog \/ SetConsoleLogger
      BY <2>1, <2>2, <2>4, ReplaceKeepsOne DEF StopLog, SetConsoleLogger
    <2>5. CASE \E file \in Files : MakeAccess(file, globalLevel)
      <3>1. /\ registered' = registered \cup {"access"}
            /\ UNCHANGED <<g_logger, defaultLogger, history>>
        BY <2>5 DEF MakeAccess
      <3>2. registered' \cap {"stderr", "activity"}
              = registered \cap {"stderr", "activity"}
        BY <3>1
      <3> QED
        BY <2>1, <3>1, <3>2 DEF LogInv, OneLog, history
    <2>6. CASE StopAllLogs
      BY <2>1, <2>6 DEF StopAllLogs, LogInv, OneLog
    <2>7. CASE \E n \in Names : StopLogNamed(n)
      <3>1. PICK n \in Names : StopLogNamed(n)
        BY <2>7
      <3>2. /\ registered' = registered \ {n} /\ g_logger' = g_logger
            /\ defaultLogger' =
                 IF defaultLogger = n THEN NoLogger ELSE defaultLogger
            /\ cut' = (cut \/ n = g_logger) /\ switched' = switched
        BY <3>1 DEF StopLogNamed
      <3>3. cut' \in BOOLEAN
        BY <3>2
      <3>4. ASSUME ~ cut'  PROVE OneLog'
        <4>1. ~ cut /\ n # g_logger
          BY <3>2, <3>4
        <4>2. /\ registered \cap {"stderr", "activity"}
                   = {g_logger} \ {NoLogger}
              /\ switched => defaultLogger = g_logger
          BY <2>1, <4>1 DEF LogInv, OneLog
        <4>3. registered' \cap {"stderr", "activity"}
                = {g_logger'} \ {NoLogger}
          BY <3>2, <4>1, <4>2
        <4>4. switched' => defaultLogger' = g_logger'
          BY <3>2, <4>1, <4>2
        <4> QED
          BY <4>3, <4>4 DEF OneLog
      <3> QED
        BY <2>1, <3>2, <3>3, <3>4 DEF LogInv, OneLog
    <2>8. CASE \E l \in Levels : SetLevel(l)
      <3>1. UNCHANGED <<g_logger, registered, defaultLogger, switched, cut>>
        BY <2>8 DEF SetLevel, history
      <3> QED
        BY <2>1, <3>1 DEF LogInv, OneLog
    <2> QED
      BY <2>1, <2>2, <2>3, <2>4, <2>5, <2>6, <2>7, <2>8 DEF LoggerNext
  <1>3. LogInv => OneLog
    BY DEF LogInv
  <1> QED
    BY <1>1, <1>2, <1>3, PTL DEF LoggerSpec

-----------------------------------------------------------------------------
AskedType ==
  /\ option \in Files \cup {Unset}
  /\ logging \in Section \cup {Unset}

\* Where main is, the activity log is as far as this.
LogIsSet ==
  /\ logs \in {"console", "file"} =>
       g_logger = "stderr" /\ registered = {"", "stderr"}
  /\ logs \in {"level", "access", "serving"} =>
       /\ defaultLogger = "activity"
       /\ sink["activity"] = LogConfig.filename
  /\ logs \in {"level", "access"} =>
       g_logger = "activity" /\ "activity" \in registered
  /\ logs \in {"access", "serving"} => level["activity"] = LogConfig.level

\* ... and the access log, once it is made.
AccessIsSet ==
  logs = "serving" =>
    \/ access = "activity" /\ Wanted /\ Shared
    \/ /\ access = "access"
       /\ IF Wanted THEN /\ ~ Shared
                         /\ sink["access"] = AccessConfig.filename
                         /\ level["access"] = AccessConfig.level
                    ELSE sink["access"] = Off

LogsInv ==
  /\ DOMAIN sink = Names /\ DOMAIN level = Names
  /\ AskedType
  /\ LogIsSet
  /\ AccessIsSet

(***************************************************************************)
(* What is configured is what was asked for: the option, or the section,   *)
(* or the default.                                                         *)
(***************************************************************************)
AskedFile == Said(option, Said(InSection(logging, "filename"), DefaultFile))

AskedLevel ==
  IF option # Unset THEN "info" ELSE Said(InSection(logging, "level"), "info")

LEMMA LogConfigIsAsked ==
  /\ LogConfig = [filename |-> AskedFile, level |-> AskedLevel]
  /\ accessing # Unset =>
       AccessConfig =
         [filename |-> Said(InSection(accessing, "filename"), AskedFile),
          level    |-> Said(InSection(accessing, "level"), AskedLevel)]
PROOF
  <1>1. LogConfig = [filename |-> AskedFile, level |-> AskedLevel]
    BY DEF LogConfig, ConfigureLogging, Said, InSection, AskedFile, AskedLevel
  <1>2. LogConfig.filename = AskedFile /\ LogConfig.level = AskedLevel
    BY <1>1
  <1> QED
    BY <1>1, <1>2 DEF AccessConfig, ConfigureLogging, InSection

LEMMA AskedFileIsFile ==
  ASSUME AskedType
  PROVE  AskedFile # Off
BY OffAssumption DEF AskedType, AskedFile, Said, InSection, Section

LEMMA InvLogsAsAsked ==
  ASSUME LogsInv
  PROVE  LogsAsAsked
PROOF
  <1> DEFINE file == AskedFile
             lvl == AskedLevel
             accessFile == Said(InSection(accessing, "filename"), file)
             accessLevel == Said(InSection(accessing, "level"), lvl)
  <1>1. SUFFICES ASSUME logs = "serving"
                 PROVE  /\ defaultLogger = "activity"
                        /\ sink["activity"] = file /\ level["activity"] = lvl
                        /\ IF \/ accessing = Unset \/ accessLevel = Off
                              \/ accessFile = NoFile
                           THEN sink[access] = Off
                           ELSE /\ sink[access] = accessFile
                                /\ level[access] = accessLevel
                        /\ access # "activity"
                             /\ sink[access] = sink["activity"]
                             => level[access] # level["activity"]
    BY DEF LogsAsAsked, AskedFile, AskedLevel
  <1> HIDE DEF file, lvl, accessFile, accessLevel
  <1>2. LogConfig = [filename |-> file, level |-> lvl]
    BY LogConfigIsAsked DEF file, lvl
  <1>3. /\ defaultLogger = "activity"
        /\ sink["activity"] = file /\ level["activity"] = lvl
    BY <1>1, <1>2 DEF LogsInv, LogIsSet
  <1>4. file # Off
    BY AskedFileIsFile DEF LogsInv, file
  <1>5. accessing # Unset =>
          AccessConfig = [filename |-> accessFile, level |-> accessLevel]
    BY LogConfigIsAsked DEF accessFile, accessLevel, file, lvl
  <1>6. accessing = Unset => ~ Wanted
    BY DEF Wanted, AccessConfig
  <1>7. CASE access = "activity" /\ Wanted /\ Shared
    <2>1. accessing # Unset
      BY <1>6, <1>7
    <2>2. /\ accessFile = file /\ accessLevel = lvl
          /\ accessLevel # Off /\ accessFile # NoFile
      BY <1>2, <1>5, <1>7, <2>1 DEF Shared, Wanted
    <2> QED
      BY <1>3, <1>7, <2>1, <2>2
  <1>8. CASE /\ access = "access" /\ Wanted /\ ~ Shared
             /\ sink["access"] = AccessConfig.filename
             /\ level["access"] = AccessConfig.level
    <2>1. accessing # Unset
      BY <1>6, <1>8
    <2>2. /\ sink["access"] = accessFile /\ level["access"] = accessLevel
          /\ accessLevel # Off /\ accessFile # NoFile
          /\ ~ (accessFile = file /\ accessLevel = lvl)
      BY <1>2, <1>5, <1>8, <2>1 DEF Shared, Wanted
    <2> QED
      BY <1>3, <1>8, <2>1, <2>2
  <1>9. CASE access = "access" /\ ~ Wanted /\ sink["access"] = Off
    <2>1. accessing = Unset \/ accessLevel = Off \/ accessFile = NoFile
      BY <1>5, <1>9 DEF Wanted
    <2> QED
      BY <1>3, <1>4, <1>9, <2>1
  <1> QED
    BY <1>1, <1>7, <1>8, <1>9 DEF LogsInv, AccessIsSet

-----------------------------------------------------------------------------
(***************************************************************************)
(* Every step of main keeps the invariant.                                 *)
(***************************************************************************)
LEMMA AskedStays ==
  ASSUME AskedType, UNCHANGED asked
  PROVE  /\ AskedType' /\ LogConfig' = LogConfig /\ AccessConfig' = AccessConfig
         /\ Wanted' = Wanted /\ Shared' = Shared
BY DEF asked, AskedType, LogConfig, AccessConfig, Wanted, Shared

LEMMA LogsStep ==
  ASSUME LogsInv, Next
  PROVE  LogsInv'
PROOF
  <1>1. AskedType /\ DOMAIN sink = Names /\ DOMAIN level = Names
    BY DEF LogsInv
  <1>2. /\ "activity" \in DOMAIN sink /\ "activity" \in DOMAIN level
        /\ "access" \in DOMAIN sink /\ "access" \in DOMAIN level
    BY <1>1 DEF Names
  <1>3. UNCHANGED asked
    BY DEF Next, StartOnConsole, StopAfterUsage, StartLog, LevelLog,
           CreateAccessLog, StopLogs, Goes
  <1>4. /\ AskedType' /\ LogConfig' = LogConfig /\ AccessConfig' = AccessConfig
        /\ Wanted' = Wanted /\ Shared' = Shared
    BY <1>1, <1>3, AskedStays
  <1>5. CASE StartOnConsole
    <2>1. /\ logs = "console" /\ logs' = "file" /\ UNCHANGED logVars
      BY <1>5 DEF StartOnConsole, Goes, SetConsoleLogger, Make, LogsInv,
                  LogIsSet
    <2> QED
      BY <1>1, <1>4, <2>1 DEF LogsInv, LogIsSet, AccessIsSet, logVars
  <1>6. CASE StartLog
    <2>1. /\ logs = "file" /\ logs' = "level"
          /\ Make("activity", LogConfig.filename) /\ Replace("activity")
      BY <1>6 DEF StartLog, Goes, SetLogger
    <2>2. /\ sink' = [sink EXCEPT !["activity"] = LogConfig.filename]
          /\ level' = [level EXCEPT !["activity"] = globalLevel]
      BY <2>1 DEF Make
    <2>3. g_logger = "stderr" /\ registered = {"", "stderr"}
      BY <2>1 DEF LogsInv, LogIsSet
    <2>4. /\ g_logger' = "activity" /\ defaultLogger' = "activity"
          /\ "activity" \in registered'
      BY <2>1, <2>3 DEF Replace
    <2> QED
      BY <1>1, <1>2, <1>4, <2>1, <2>2, <2>4 DEF LogsInv, LogIsSet, AccessIsSet
  <1>7. CASE LevelLog
    <2>1. /\ logs = "level" /\ logs' = "access"
          /\ level' = [n \in Names |-> IF n \in registered THEN LogConfig.level
                                       ELSE level[n]]
          /\ UNCHANGED <<g_logger, registered, defaultLogger, sink>>
      BY <1>7 DEF LevelLog, Goes, SetLevel
    <2>2. level'["activity"] = LogConfig.level
      BY <2>1 DEF LogsInv, LogIsSet, Names
    <2> QED
      BY <1>1, <1>4, <2>1, <2>2 DEF LogsInv, LogIsSet, AccessIsSet
  <1>8. CASE CreateAccessLog
    <2>1. logs = "access" /\ logs' = "serving"
      BY <1>8 DEF CreateAccessLog, Goes
    <2>2. /\ defaultLogger = "activity" /\ g_logger = "activity"
          /\ sink["activity"] = LogConfig.filename
          /\ level["activity"] = LogConfig.level
      BY <2>1 DEF LogsInv, LogIsSet
    <2>3. ASSUME NEW to, NEW l, MakeAccess(to, l)
          PROVE  /\ DOMAIN sink' = Names /\ DOMAIN level' = Names
                 /\ LogIsSet'
                 /\ sink'["access"] = to /\ level'["access"] = l
      <3>1. /\ sink' = [sink EXCEPT !["access"] = to]
            /\ level' = [level EXCEPT !["access"] = l]
            /\ defaultLogger' = defaultLogger
        BY <2>3 DEF MakeAccess
      <3> QED
        BY <1>1, <1>2, <1>4, <2>1, <2>2, <3>1 DEF LogIsSet
    <2>4. CASE MakeAccess(Off, globalLevel) /\ ~ Wanted /\ access' = "access"
      BY <1>4, <2>3, <2>4 DEF LogsInv, AccessIsSet
    <2>5. CASE Wanted /\ Shared /\ access' = g_logger /\ UNCHANGED logVars
      BY <1>1, <1>4, <2>1, <2>2, <2>5
         DEF LogsInv, LogIsSet, AccessIsSet, logVars
    <2>6. CASE /\ MakeAccess(AccessConfig.filename, AccessConfig.level)
               /\ Wanted /\ ~ Shared /\ access' = "access"
      BY <1>4, <2>3, <2>6 DEF LogsInv, AccessIsSet
    <2> QED
      BY <1>8, <2>4, <2>5, <2>6 DEF CreateAccessLog
  <1>9. CASE StopAfterUsage \/ StopLogs
    <2>1. logs' = "stopped" /\ UNCHANGED <<sink, level>>
      BY <1>9 DEF StopAfterUsage, StopLogs, Goes, StopAllLogs
    <2> QED
      BY <1>1, <1>4, <2>1 DEF LogsInv, LogIsSet, AccessIsSet
  <1> QED
    BY <1>5, <1>6, <1>7, <1>8, <1>9 DEF Next

(***************************************************************************)
(* While the bridge serves, the logs are those that were asked for         *)
(* (yy_mqtt_bridge.cpp:137-148 and 173-208).                               *)
(***************************************************************************)
THEOREM LogsAreAsAsked == Spec => []LogsAsAsked
PROOF
  <1>1. Init => LogsInv
    BY DEF Init, LoggerInit, LogsInv, AskedType, LogIsSet, AccessIsSet
  <1>2. LogsInv /\ [Next]_vars => LogsInv'
    <2>1. ASSUME LogsInv, UNCHANGED vars  PROVE LogsInv'
      <3>1. /\ AskedType' /\ LogConfig' = LogConfig
            /\ AccessConfig' = AccessConfig
            /\ Wanted' = Wanted /\ Shared' = Shared
        BY <2>1, AskedStays DEF LogsInv, vars, asked
      <3> QED
        BY <2>1, <3>1 DEF LogsInv, LogIsSet, AccessIsSet, vars, logVars
    <2> QED
      BY <2>1, LogsStep
  <1> QED
    BY <1>1, <1>2, InvLogsAsAsked, PTL DEF Spec
=============================================================================

------------------------------- MODULE Logger -------------------------------
(***************************************************************************)
(* logger.cpp: the program's log, g_logger, which is on the console        *)
(* ("stderr") or in a file ("activity"), against spdlog's registry of      *)
(* loggers by name and its default logger, to which spdlog::info and the   *)
(* like write.  Making a logger of a name that is registered throws, and   *)
(* then nothing has changed.                                               *)
(*                                                                         *)
(* The functions may be called in any order.  A logger is known by its     *)
(* name; sink and level are those of the last one made under it.           *)
(***************************************************************************)
CONSTANTS
  Files,    \* log files
  Levels,   \* spdlog's levels; the program starts with "info"
  Console,  \* the sink of what is not in a file
  NoLogger  \* a null pointer

VARIABLES
  g_logger,      \* the current log
  registered,    \* names in the registry
  defaultLogger, \* spdlog's default logger; its own, made at first, is ""
  sink,          \* sink[n]: what logger n writes to
  level,         \* level[n]: its level
  globalLevel,   \* the level of loggers made from now on
  switched,      \* history: the current log has been set, or all were stopped
  cut            \* history: stop_log(name) was called for the current log

history == <<switched, cut>>
logVars ==
  <<g_logger, registered, defaultLogger, sink, level, globalLevel, history>>

Names == {"", "stderr", "activity", "access"}

\* A null pointer is no logger.
ASSUME LoggerAssumption == NoLogger \notin Names

LoggerInit ==
  /\ g_logger = "stderr"
  /\ registered = {"", "stderr"}
  /\ defaultLogger = ""
  /\ sink = [n \in Names |-> Console]
  /\ level = [n \in Names |-> "info"]
  /\ globalLevel = "info"
  /\ switched = FALSE
  /\ cut = FALSE

-----------------------------------------------------------------------------
\* A logger of that name is made, if none is registered.
Make(n, to) ==
  /\ n \notin registered
  /\ sink' = [sink EXCEPT ![n] = to]
  /\ level' = [level EXCEPT ![n] = globalLevel]
  /\ UNCHANGED <<globalLevel, cut>>

(***************************************************************************)
(* The new log is the current and the default one, and the old one leaves  *)
(* the registry.  spdlog may take its former default out of the registry   *)
(* as well, and has no default any more if that is what is dropped.        *)
(***************************************************************************)
Replace(n) ==
  /\ g_logger' = n
  /\ defaultLogger' = IF g_logger = n THEN NoLogger ELSE n
  /\ \E former \in {{}, {defaultLogger}} :
       registered' = ((registered \ former) \cup {n}) \ {g_logger}
  /\ switched' = TRUE

SetLogger(file) == Make("activity", file) /\ Replace("activity")

\* A mutant: the default logger is not set.
StopLogSilent ==
  /\ Make("stderr", Console)
  /\ g_logger' = "stderr"
  /\ defaultLogger' = IF g_logger = defaultLogger THEN NoLogger ELSE defaultLogger
  /\ registered' = (registered \cup {"stderr"}) \ {g_logger}
  /\ switched' = TRUE

\* stop_log() throws if the log is on the console already.
StopLog == Make("stderr", Console) /\ Replace("stderr")

SetConsoleLogger ==
  \/ "stderr" \in registered /\ UNCHANGED logVars
  \/ Make("stderr", Console) /\ Replace("stderr")

StopLogNamed(n) ==
  /\ registered' = registered \ {n}
  /\ defaultLogger' = IF defaultLogger = n THEN NoLogger ELSE defaultLogger
  /\ cut' = (cut \/ n = g_logger)
  /\ UNCHANGED <<g_logger, sink, level, globalLevel, switched>>

StopAllLogs ==
  /\ g_logger' = NoLogger
  /\ registered' = {}
  /\ defaultLogger' = NoLogger
  /\ switched' = TRUE
  /\ UNCHANGED <<sink, level, globalLevel, cut>>

\* spdlog::set_level, of all loggers there are and will be.
SetLevel(l) ==
  /\ globalLevel' = l
  /\ level' = [n \in Names |-> IF n \in registered THEN l ELSE level[n]]
  /\ UNCHANGED <<g_logger, registered, defaultLogger, sink, history>>

\* A logger of the web server's, in a file or in none.
MakeAccess(to, l) ==
  /\ "access" \notin registered
  /\ registered' = registered \cup {"access"}
  /\ sink' = [sink EXCEPT !["access"] = to]
  /\ level' = [level EXCEPT !["access"] = l]
  /\ UNCHANGED <<g_logger, defaultLogger, globalLevel, history>>

\* set_logger() is stop_log() and then set_logger(file).
LoggerNext ==
  \/ \E file \in Files : SetLogger(file) \/ MakeAccess(file, globalLevel)
  \/ StopLog \/ SetConsoleLogger \/ StopAllLogs
  \/ \E n \in Names : StopLogNamed(n)
  \/ \E l \in Levels : SetLevel(l)

LoggerSpec == LoggerInit /\ [][LoggerNext]_logVars

-----------------------------------------------------------------------------
(***************************************************************************)
(* Whatever calls came before, there is one log: it is registered, and the *)
(* other one is not, so that a switch to it cannot fail and drops nothing  *)
(* in use; and once a log has been set, it is where spdlog::info writes,   *)
(* on the console too.  Only stop_log(name) of the current log breaks      *)
(* this: the next log is then dropped with it (logger.cpp:51-124).         *)
(***************************************************************************)
OneLog ==
  ~ cut =>
    /\ registered \cap {"stderr", "activity"} = {g_logger} \ {NoLogger}
    /\ switched => defaultLogger = g_logger
=============================================================================

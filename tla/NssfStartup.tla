---------------------------- MODULE NssfStartup ----------------------------
(***************************************************************************)
(* The start of main(): the command line is parsed, then the configuration *)
(* is read, the base configuration from the file that the line names and   *)
(* the slice configuration from the file that the base configuration       *)
(* names; only then is a server created.                                   *)
(***************************************************************************)
EXTENDS OptionsParser, SliceConfigLoader

VARIABLE main   \* where main() is, or how the process has ended

startup_vars == <<options_vars, loader_vars, main>>

StartupInit == OptionsInit /\ LoaderInit /\ main = "options"

StepOptions == /\ main = "options"
               /\ OptionsNext
               /\ UNCHANGED <<loader_vars, main>>

\* What parse returns is not looked at (a plausible slip).
use_options_unchecked ==
  /\ main = "options" /\ state # "parsing"
  /\ main' = IF state = "exited" THEN "exited" ELSE "base-configuration"
  /\ argv' = <<>> /\ index' = 0
  /\ UNCHANGED <<result, m_libconfigcfg, m_log_stdout, m_log_rot_file_log,
                 state, loader_vars>>

\* After a wrong line main() goes on with the defaults (a plausible slip).
use_options_default ==
  /\ main = "options" /\ state # "parsing"
  /\ main' = CASE state = "true"   -> "base-configuration"
               [] state = "false"  -> "server"
               [] state = "exited" -> "exited"
  /\ argv' = <<>> /\ index' = 0
  /\ UNCHANGED <<result, m_libconfigcfg, m_log_stdout, m_log_rot_file_log,
                 state, loader_vars>>

\* main() has what the line says in static members, and forgets the line.
UseOptions ==
  /\ main = "options" /\ state # "parsing"
  /\ main' = CASE state = "true"   -> "base-configuration"
               [] state = "false"  -> "failed"
               [] state = "exited" -> "exited"
  /\ argv' = <<>> /\ index' = 0
  /\ UNCHANGED <<result, m_libconfigcfg, m_log_stdout, m_log_rot_file_log,
                 state, loader_vars>>

\* config::init() reads the base configuration, or fails.
ReadBase ==
  /\ main = "base-configuration"
  /\ main' \in {"slice-configuration", "failed"}
  /\ UNCHANGED <<options_vars, loader_vars>>

StepLoader == /\ main = "slice-configuration"
              /\ LoaderNext
              /\ UNCHANGED <<options_vars, main>>

UseConfiguration ==
  /\ main = "slice-configuration" /\ section \in {"true", "false", "thrown"}
  /\ main' = CASE section = "true"   -> "server"
               [] section = "false"  -> "failed"
               [] section = "thrown" -> "terminated"
  /\ UNCHANGED <<options_vars, loader_vars>>

StartupNext == \/ StepOptions \/ UseOptions \/ ReadBase
               \/ StepLoader \/ UseConfiguration

StartupSpec == StartupInit /\ [][StartupNext]_startup_vars

\* main() runs on: nothing it does here waits for anything.
StartupFairSpec == StartupSpec /\ WF_startup_vars(StartupNext)

-----------------------------------------------------------------------------
(***************************************************************************)
(* How the start refines the first steps of NssfProcess, in which what the *)
(* line and the configuration say are outcomes that just happen.           *)
(***************************************************************************)
process_main ==
  CASE main = "options" \/ (main \in {"failed", "exited"} /\ state # "true") ->
         "options"
    [] main = "server" -> "pid-file"
    [] OTHER           -> "configuration"

process_exit ==
  CASE main \in {"failed", "exited"} -> main
    [] main = "terminated"           -> "crashed"
    [] OTHER                         -> "running"

Process == INSTANCE NssfProcess WITH
  HttpVersions <- {1, 2}, Signal <- {"SIGTERM", "SIGINT"}, http_version <- 1,
  main <- process_main, exit <- process_exit, server <- "none",
  running_server <- FALSE, stop_asked <- FALSE, handlers <- <<>>,
  deleted <- FALSE, pointer <- FALSE, status_file <- "none"

-----------------------------------------------------------------------------
(* Properties *)

(***************************************************************************)
(* Every start is a behaviour of the process: main() reads the line, then  *)
(* the configuration, and comes to the server only past both, whatever an  *)
(* option, a file or an exception does on the way.                         *)
(***************************************************************************)
StartsTheProcess == Process!Spec

\* While main() still has the line, it is parsed as AcceptsRightLines says.
LineIsAccepted == main = "options" => AcceptsRightLines

(***************************************************************************)
(* A server is created only for a line that names a file and has nothing   *)
(* wrong, and a slice configuration that has all three sections; what each *)
(* section contributes is what comes before its first bad item, whatever   *)
(* was wrong in the others.                                                *)
(***************************************************************************)
ServesWhatWasRead ==
  main = "server" =>
    /\ result /\ m_libconfigcfg # NoFileName
    /\ file \notin {NoFile, Malformed}
    /\ \A s \in {"nsi", "ta", "amf"} : file[s] # Missing
    /\ Loaded

\* main() comes to the server, or ends the process.
StartupEnds == <>(main \in {"server", "failed", "exited", "terminated"})
=============================================================================

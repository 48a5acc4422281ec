--------------------------- MODULE OptionsParser ---------------------------
(***************************************************************************)
(* Options::parse: the loop over getopt_long, which reads the command line *)
(* one option at a time into static members.                               *)
(***************************************************************************)
EXTENDS Naturals, Sequences, SequencesExt

CONSTANTS
  FileName,      \* names of configuration files
  NoFileName,    \* the empty m_libconfigcfg
  CommandLines   \* the command lines to parse

(***************************************************************************)
(* An argument is an option that takes none, an option with the one it     *)
(* takes or without (at the end of the line), or no option at all.         *)
(***************************************************************************)
Argument == [name : {"help", "stdoutlog", "rotatelog", "unknown", "none"}]
            \cup [name : {"c", "libconfigcfg"}, file : FileName \cup {NoFileName}]

\* An option that takes an argument takes what comes next, if anything does.
TakesNext(line) ==
  \A i \in 1 .. Len(line) - 1 :
    line[i].name \in {"c", "libconfigcfg"} => line[i].file # NoFileName

ASSUME CommandLinesAssumption ==
  CommandLines \subseteq {line \in Seq(Argument) : TakesNext(line)}
ASSUME FileNameAssumption == NoFileName \notin FileName

VARIABLES
  argv,    \* the arguments
  index,   \* how many getopt_long has returned
  result,  \* of parseInputOptions
  m_libconfigcfg, m_log_stdout, m_log_rot_file_log,
  state    \* parsing, or how parse has ended

options_vars == <<argv, index, result, m_libconfigcfg, m_log_stdout,
                  m_log_rot_file_log, state>>

OptionsInit ==
  /\ argv \in CommandLines
  /\ index = 0
  /\ result = TRUE
  /\ m_libconfigcfg = NoFileName
  /\ m_log_stdout = FALSE /\ m_log_rot_file_log = FALSE
  /\ state = "parsing"

\* getopt_long returns the next option: it passes over what is none.
Returns(arg) ==
  /\ state = "parsing"
  /\ index < Len(argv)
  /\ arg = argv[index + 1]
  /\ index' = index + 1

NoOption ==
  /\ \E arg \in Argument : Returns(arg) /\ arg.name = "none"
  /\ UNCHANGED <<argv, result, m_libconfigcfg, m_log_stdout,
                 m_log_rot_file_log, state>>

\* 'h': help() and exit(0), whatever comes after it.
Help ==
  /\ \E arg \in Argument : Returns(arg) /\ arg.name = "help"
  /\ state' = "exited"
  /\ UNCHANGED <<argv, result, m_libconfigcfg, m_log_stdout, m_log_rot_file_log>>

\* The first file named is kept.
first_config ==
  /\ \E arg \in Argument :
       /\ Returns(arg) /\ arg.name = "c" /\ arg.file # NoFileName
       /\ m_libconfigcfg' = IF m_libconfigcfg = NoFileName THEN arg.file
                                                           ELSE m_libconfigcfg
  /\ UNCHANGED <<argv, result, m_log_stdout, m_log_rot_file_log, state>>

\* 'c' is the short option only: --libconfigcfg returns 'f'.
Config ==
  /\ \E arg \in Argument :
       /\ Returns(arg) /\ arg.name = "c" /\ arg.file # NoFileName
       /\ m_libconfigcfg' = arg.file
  /\ UNCHANGED <<argv, result, m_log_stdout, m_log_rot_file_log, state>>

StdoutLog ==
  /\ \E arg \in Argument : Returns(arg) /\ arg.name = "stdoutlog"
  /\ m_log_stdout' = TRUE
  /\ UNCHANGED <<argv, result, m_libconfigcfg, m_log_rot_file_log, state>>

RotateLog ==
  /\ \E arg \in Argument : Returns(arg) /\ arg.name = "rotatelog"
  /\ m_log_rot_file_log' = TRUE
  /\ UNCHANGED <<argv, result, m_libconfigcfg, m_log_stdout, state>>

\* '?' and default: unknown options, missing arguments, and 'f'.
Refused ==
  /\ \E arg \in Argument :
       /\ Returns(arg)
       /\ \/ arg.name \in {"unknown", "libconfigcfg"}
          \/ arg.name = "c" /\ arg.file = NoFileName
  /\ result' = FALSE
  /\ UNCHANGED <<argv, m_libconfigcfg, m_log_stdout, m_log_rot_file_log, state>>

\* getopt_long returns -1, and validateOptions asks for a file.
Validate ==
  /\ state = "parsing" /\ index = Len(argv)
  /\ state' = IF result /\ m_libconfigcfg # NoFileName THEN "true" ELSE "false"
  /\ UNCHANGED <<argv, index, result, m_libconfigcfg, m_log_stdout,
                 m_log_rot_file_log>>

OptionsNext == \/ NoOption \/ Help \/ Config \/ StdoutLog \/ RotateLog \/ Refused
               \/ Validate

OptionsSpec == OptionsInit /\ [][OptionsNext]_options_vars

-----------------------------------------------------------------------------
(* Properties *)

Names == {argv[i].name : i \in DOMAIN argv}

\* Where the line gives files with -c, and the last of them.
FilesGiven == {i \in DOMAIN argv : argv[i].name = "c"}

LastFile ==
  argv[CHOOSE i \in FilesGiven : \A j \in FilesGiven : j <= i].file

(***************************************************************************)
(* parse accepts exactly the lines without a wrong option that name a      *)
(* file, with options in any order, and nssf is then configured from the   *)
(* last file named and logs where the line says; help ends the process     *)
(* whether the line is right or not.                                       *)
(***************************************************************************)
AcceptsRightLines ==
  /\ state = "exited" => "help" \in Names
  /\ state \in {"true", "false"} => "help" \notin Names
  /\ state = "true" =>
       /\ Names \subseteq {"c", "stdoutlog", "rotatelog", "none"}
       /\ m_libconfigcfg = LastFile
       /\ m_log_stdout = ("stdoutlog" \in Names)
       /\ m_log_rot_file_log = ("rotatelog" \in Names)
  /\ state = "false" =>
       \/ FilesGiven = {}
       \/ {"unknown", "libconfigcfg"} \cap Names # {}
       \/ LastFile = NoFileName

(***************************************************************************)
(* "-c, --libconfigcfg filename  Read the application configuration from   *)
(* this file." (help() in options.cpp): a line that names a file with the  *)
(* long option, and has nothing wrong, is accepted.                        *)
(***************************************************************************)
LongOptionAccepted ==
  (/\ argv # <<>> /\ Names \subseteq {"libconfigcfg", "stdoutlog", "rotatelog"}
   /\ \A i \in DOMAIN argv : argv[i].name = "libconfigcfg" =>
                               argv[i].file # NoFileName
   /\ "libconfigcfg" \in Names)
  => state # "false"
=============================================================================

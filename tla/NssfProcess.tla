---------------------------- MODULE NssfProcess ----------------------------
(***************************************************************************)
(* The nssf process: main() reads the configuration, starts the server of  *)
(* the configured HTTP version in a thread and joins it; SIGTERM and       *)
(* SIGINT are handled in the main thread, which runs                       *)
(* my_app_signal_handler wherever it is.                                   *)
(***************************************************************************)
EXTENDS Naturals, Sequences, SequencesExt

CONSTANTS
  HttpVersions,  \* the HTTP versions that may be configured
  Signal         \* the signals that have the handler

ASSUME HttpVersionsAssumption == HttpVersions \subseteq {1, 2}
ASSUME SignalAssumption == Signal \subseteq {"SIGTERM", "SIGINT"}

VARIABLES
  http_version,    \* of the configuration
  main,            \* where main() is
  server,          \* where the thread that runs start() is
  running_server,  \* of the HTTP/2 server: not initialized by its constructor
  stop_asked,      \* the server has been told to stop
  handlers,        \* the handlers on the main thread's stack, innermost last
  deleted,         \* the server object has been deleted
  pointer,         \* nssf_api_server_1 or _2 is not null
  status_file,     \* what /tmp/nssf_<pid>.status says
  exit             \* how the process has ended

process_vars == <<http_version, main, server, running_server, stop_asked,
                  handlers, deleted, pointer, status_file, exit>>

Init ==
  /\ http_version \in HttpVersions
  /\ main = "options"
  /\ server = "none"
  /\ running_server \in BOOLEAN
  /\ stop_asked = FALSE
  /\ handlers = <<>>
  /\ deleted = FALSE
  /\ pointer = FALSE
  /\ status_file = "none"
  /\ exit = "running"

-----------------------------------------------------------------------------
(* main() *)

\* The main thread runs main() unless a handler has interrupted it.
AtMain(place) == exit = "running" /\ handlers = <<>> /\ main = place

MainGoesTo(place) ==
  /\ main' = place
  /\ UNCHANGED <<http_version, server, running_server, stop_asked, handlers,
                 deleted, pointer, status_file, exit>>

MainEnds(how) ==
  /\ exit' = how
  /\ UNCHANGED <<http_version, main, server, running_server, stop_asked,
                 handlers, deleted, pointer, status_file>>

\* A wrong line ends main(), and a line with --help calls exit(0) in parse.
ParseOptions ==
  AtMain("options") /\ (\/ MainGoesTo("configuration")
                        \/ \E how \in {"failed", "exited"} : MainEnds(how))

(***************************************************************************)
(* init() fails, or lets an exception out that nobody catches: the process *)
(* is terminated without a word of main().                                 *)
(***************************************************************************)
ReadConfiguration ==
  AtMain("configuration") /\ (\/ MainGoesTo("pid-file")
                              \/ \E how \in {"failed", "crashed"} : MainEnds(how))

LockPidFile ==
  AtMain("pid-file") /\ (MainGoesTo("server") \/ MainEnds("failed"))

CreateServer ==
  /\ AtMain("server")
  /\ pointer' = TRUE
  /\ main' = "thread"
  /\ UNCHANGED <<http_version, server, running_server, stop_asked, handlers,
                 deleted, status_file, exit>>

StartThread ==
  /\ AtMain("thread")
  /\ server' = "start"
  /\ main' = "join"
  /\ UNCHANGED <<http_version, running_server, stop_asked, handlers, deleted,
                 pointer, status_file, exit>>

\* The thread is detached instead of joined (a plausible slip).
join_detached == AtMain("join") /\ MainGoesTo("status")

Join == AtMain("join") /\ server = "returned" /\ MainGoesTo("status")

WriteStatus ==
  /\ AtMain("status")
  /\ status_file' = "STARTED"
  /\ main' = "pause"
  /\ UNCHANGED <<http_version, server, running_server, stop_asked, handlers,
                 deleted, pointer, exit>>

-----------------------------------------------------------------------------
(* start(), in its thread *)

ServerGoesTo(from, to) ==
  /\ exit = "running" /\ server = from
  /\ server' = to
  /\ UNCHANGED <<http_version, main, stop_asked, handlers, deleted, pointer,
                 status_file, exit>>

SetRunning ==
  /\ ServerGoesTo("start", "starting")
  /\ running_server' = IF http_version = 2 THEN TRUE ELSE running_server

(***************************************************************************)
(* serve() or listen_and_serve().  Without its port the first throws out   *)
(* of the thread, which ends the process, and the second returns an error. *)
(***************************************************************************)
Listen ==
  /\ \/ ServerGoesTo("starting", "listening")
     \/ http_version = 2 /\ ServerGoesTo("starting", "stopped")
  /\ UNCHANGED running_server

PortTaken ==
  /\ http_version = 1 /\ exit = "running" /\ server = "starting"
  /\ exit' = "crashed"
  /\ UNCHANGED <<http_version, main, server, running_server, stop_asked,
                 handlers, deleted, pointer, status_file>>

Stop ==
  /\ stop_asked
  /\ ServerGoesTo("listening", "stopped")
  /\ UNCHANGED running_server

\* The flag is left set when start() ends.
return_running == ServerGoesTo("stopped", "returned") /\ UNCHANGED running_server

Return ==
  /\ ServerGoesTo("stopped", "returned")
  /\ running_server' = IF http_version = 2 THEN FALSE ELSE running_server

-----------------------------------------------------------------------------
(* my_app_signal_handler *)

\* main() has not called std::signal yet.
Kill ==
  /\ exit = "running" /\ main = "options"
  /\ exit' = "killed"
  /\ UNCHANGED <<http_version, main, server, running_server, stop_asked,
                 handlers, deleted, pointer, status_file>>

\* The handler's own signal may interrupt it (as with System V's signal).
catch_unblocked(signal) ==
  /\ exit = "running" /\ main # "options"
  /\ handlers' = Append(handlers, [signal |-> signal, at |-> "shutdown"])
  /\ UNCHANGED <<http_version, main, server, running_server, stop_asked,
                 deleted, pointer, status_file, exit>>

\* A signal is blocked while its own handler runs, but the other one is not.
Catch(signal) ==
  /\ exit = "running" /\ main # "options"
  /\ \A i \in DOMAIN handlers : handlers[i].signal # signal
  /\ handlers' = Append(handlers, [signal |-> signal, at |-> "shutdown"])
  /\ UNCHANGED <<http_version, main, server, running_server, stop_asked,
                 deleted, pointer, status_file, exit>>

AtHandler(place) ==
  exit = "running" /\ handlers # <<>> /\ Last(handlers).at = place

HandlerGoesTo(place) ==
  handlers' = [handlers EXCEPT ![Len(handlers)].at = place]

NoServer ==
  /\ AtHandler("shutdown")
  /\ ~pointer
  /\ HandlerGoesTo("exit")
  /\ UNCHANGED <<http_version, main, server, running_server, stop_asked,
                 deleted, pointer, status_file, exit>>

(***************************************************************************)
(* The server is told to stop.  One that does not listen yet, or has been  *)
(* deleted by the handler that this one interrupts, is undefined           *)
(* behaviour: the process crashes, or nothing is stopped.                  *)
(***************************************************************************)
AskToStop ==
  /\ AtHandler("shutdown")
  /\ pointer
  /\ LET listens == ~deleted /\ server \in {"listening", "stopped", "returned"}
     IN  \/ /\ stop_asked' = (stop_asked \/ listens)
            /\ HandlerGoesTo(IF http_version = 2 THEN "wait" ELSE "delete")
            /\ UNCHANGED exit
         \/ /\ ~listens
            /\ exit' = "crashed"
            /\ UNCHANGED <<stop_asked, handlers>>
  /\ UNCHANGED <<http_version, main, server, running_server, deleted, pointer,
                 status_file>>

\* stop() does not wait for the server.
no_wait ==
  /\ AtHandler("wait")
  /\ HandlerGoesTo("delete")
  /\ UNCHANGED <<http_version, main, server, running_server, stop_asked,
                 deleted, pointer, status_file, exit>>

\* while (running_server) sleep, in stop() of the HTTP/2 server
WaitUntilStopped ==
  /\ AtHandler("wait")
  /\ ~running_server
  /\ HandlerGoesTo("delete")
  /\ UNCHANGED <<http_version, main, server, running_server, stop_asked,
                 deleted, pointer, status_file, exit>>

\* A second deletion, by the inner handler, is undefined behaviour too.
Delete ==
  /\ AtHandler("delete")
  /\ \/ /\ deleted' = TRUE
        /\ HandlerGoesTo("forget")
        /\ UNCHANGED exit
     \/ /\ deleted
        /\ exit' = "crashed"
        /\ UNCHANGED <<deleted, handlers>>
  /\ UNCHANGED <<http_version, main, server, running_server, stop_asked,
                 pointer, status_file>>

Forget ==
  /\ AtHandler("forget")
  /\ pointer' = FALSE
  /\ HandlerGoesTo("exit")
  /\ UNCHANGED <<http_version, main, server, running_server, stop_asked,
                 deleted, status_file, exit>>

Exit ==
  /\ AtHandler("exit")
  /\ exit' = "exited"
  /\ UNCHANGED <<http_version, main, server, running_server, stop_asked,
                 handlers, deleted, pointer, status_file>>

MainThread == \/ ParseOptions \/ ReadConfiguration \/ LockPidFile
              \/ CreateServer \/ StartThread \/ Join \/ WriteStatus
              \/ NoServer \/ AskToStop \/ WaitUntilStopped
              \/ Delete \/ Forget \/ Exit

ServerThread == SetRunning \/ Listen \/ PortTaken \/ Stop \/ Return

Next == \/ MainThread \/ ServerThread
        \/ Kill \/ (\E signal \in Signal : Catch(signal))

Spec == Init /\ [][Next]_process_vars

\* Both threads run; nobody has to send a signal.
FairSpec == Spec /\ WF_process_vars(MainThread) /\ WF_process_vars(ServerThread)

-----------------------------------------------------------------------------
(* Properties *)

\* The types of the variables, and that a signal's handler runs once.
TypeOK ==
  /\ http_version \in HttpVersions
  /\ main \in {"options", "configuration", "pid-file", "server", "thread",
               "join", "status", "pause"}
  /\ server \in {"none", "start", "starting", "listening", "stopped", "returned"}
  /\ {running_server, stop_asked, deleted, pointer} \subseteq BOOLEAN
  /\ \A i \in DOMAIN handlers : 
       /\ handlers[i].signal \in Signal
       /\ handlers[i].at \in {"shutdown", "wait", "delete", "forget", "exit"}
  /\ Len(handlers) <= 2
  /\ status_file \in {"none", "STARTED"}
  /\ exit \in {"running", "failed", "exited", "killed", "crashed"}

(***************************************************************************)
(* "Shutting down HTTP servers..." comes before "Freeing Allocated         *)
(* memory..." (main.cpp): a server that listens when it is told to stop    *)
(* listens no more when it is deleted.                                     *)
(***************************************************************************)
StoppedBeforeFreed == deleted /\ stop_asked => server # "listening"

\* The HTTP/2 server is, since stop() waits for the flag start() resets.
Http2StoppedBeforeFreed == http_version = 2 => StoppedBeforeFreed

(***************************************************************************)
(* "STARTED" in the status file (main.cpp writes it after join()) says the *)
(* opposite: the server's thread has come to its end, by itself or told to *)
(* stop, and no request is served any more.                                *)
(***************************************************************************)
StartedMeansServed == status_file = "STARTED" => server = "returned"


(***************************************************************************)
(* The one state in which a handler may wait for ever: nghttp2 was told to *)
(* stop before it listened, and running_server is set, by start() or by    *)
(* whatever the uninitialised flag held, with nobody left to reset it.     *)
(***************************************************************************)
StoppedTooEarly ==
  /\ handlers # <<>> /\ Last(handlers).at = "wait"
  /\ http_version = 2 /\ running_server /\ ~stop_asked
  /\ server \in {"none", "listening"}

(***************************************************************************)
(* A handler that waits for the flag waits for a server thread that has    *)
(* still to reset it, and can go on by itself, in every other state: past  *)
(* stop(), start() leaves no flag set behind it.                           *)
(***************************************************************************)
OnlyTooEarlyIsStuck ==
  AtHandler("wait") /\ running_server =>
    \/ server \in {"start", "starting", "stopped"}
    \/ server = "listening" /\ stop_asked
    \/ StoppedTooEarly

=============================================================================

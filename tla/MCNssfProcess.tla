--------------------------- MODULE MCNssfProcess ---------------------------
(***************************************************************************)
(* The two signals that nssf handles, for either HTTP version.             *)
(***************************************************************************)
EXTENDS NssfProcess

MCSignal == {"SIGTERM", "SIGINT"}
=============================================================================

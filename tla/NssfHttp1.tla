----------------------------- MODULE NssfHttp1 -----------------------------
(***************************************************************************)
(* nssf with HTTP version 1: each worker thread of the Pistache endpoint   *)
(* routes and parses a request (Http1Server), calls nssf_app with what it  *)
(* has parsed (NssfService), and sends the http_code that comes back.      *)
(***************************************************************************)
EXTENDS NssfService

CONSTANTS Requests, EmptyNfId, NoRequest  \* as in Http1Server

ASSUME Http1Assumption == http_version = 1

VARIABLES place, request, sent, computed  \* of Http1Server; place is its at

Http1 == INSTANCE Http1Server WITH
  Thread <- Worker, NfInstance <- NfId, at <- place

\* What Http1Server and HttpData assume of their constants.
ASSUME FrontAssumption ==
  /\ Requests \subseteq Http1!Request /\ EmptyNfId \notin NfId
  /\ NoRequest \notin Http1!Request

front_vars == <<place, request, sent, computed>>

http1_service_vars == <<service_vars, front_vars>>

Http1ServiceInit == ServiceInit /\ Http1!Init

(***************************************************************************)
(* What a request is parsed into: the parts that it gives, and at most the *)
(* identities that it gives, since an empty TAC is as good as none.        *)
(***************************************************************************)
Parses(r, q) ==
  /\ q.reg # Absent <=> r.reg = "good"
  /\ q.pdu # Absent <=> r.pdu = "good"
  /\ q.tai # NoTai => r.tai = "good"
  /\ q.home_plmnid => r.home = "good"

ReceiveRequest(w) ==
  /\ \E r \in Requests : Http1!Receive(w, r)
  /\ UNCHANGED service_vars

\* The thread parses and answers what needs no call of nssf_app.
ParseRequest(w) ==
  /\ place[w] \notin {"application", "returned"}
  /\ Http1!Handle(w)
  /\ place'[w] # "application"
  /\ UNCHANGED service_vars

CallSelection(w) ==
  /\ Http1!Selection(w)
  /\ place'[w] = "application"
  /\ \E q \in Queries : Parses(request[w], q) /\ Receive(w, q)
  /\ UNCHANGED put_only

CallPut(w) ==
  /\ Http1!ParsePut(w)
  /\ place'[w] = "application"
  /\ \E r \in Puts : r.nfId = request[w].nfId /\ ReceivePut(w, r)
  /\ UNCHANGED selection_only

\* The handlers of nssf_app run.
RunApplication(w) ==
  /\ \/ pc[w] # "done" /\ Serve(w) /\ UNCHANGED put_only
     \/ put_pc[w] # "done" /\ HandlePut(w) /\ UNCHANGED selection_only
  /\ UNCHANGED front_vars

\* The thread answers with the http_code of the last PUT (a plausible slip).
leave_with_put_code(w) ==
  /\ \/ pc[w] = "done" /\ Http1!Application(w, put_code[w])
     \/ put_pc[w] = "done" /\ Http1!Application(w, put_code[w])
  /\ UNCHANGED service_vars

LeaveApplication(w) ==
  /\ \/ pc[w] = "done" /\ Http1!Application(w, http_code[w])
     \/ put_pc[w] = "done" /\ Http1!Application(w, put_code[w])
  /\ UNCHANGED service_vars

\* The handler ends, and with it the variables of the request.
EndRequest(w) ==
  /\ Http1!Return(w)
  /\ \/ Reply(w) /\ UNCHANGED put_only
     \/ ReplyPut(w) /\ UNCHANGED selection_only
     \/ Free(w) /\ UNCHANGED service_vars

HandleRequest(w) ==
  \/ ParseRequest(w) \/ CallSelection(w) \/ CallPut(w) \/ RunApplication(w)
  \/ LeaveApplication(w) \/ EndRequest(w)

Http1ServiceNext == \E w \in Worker : ReceiveRequest(w) \/ HandleRequest(w)

Http1ServiceSpec == Http1ServiceInit /\ [][Http1ServiceNext]_http1_service_vars

\* Each thread goes on with its request; nobody has to send one.
Http1ServiceFairSpec ==
  Http1ServiceSpec /\ \A w \in Worker : WF_http1_service_vars(HandleRequest(w))

-----------------------------------------------------------------------------
(* Properties *)

(***************************************************************************)
(* What a client is sent is the status that the configuration and its own  *)
(* request determine, whatever requests of either service the other        *)
(* threads handle meanwhile and this one has handled before.               *)
(***************************************************************************)
SentIsDecided ==
  \A w \in Worker : place[w] = "returned" =>
    /\ pc[w] = "done" =>
         /\ sent[w] = <<Abstract!Status(nssf_cfg, query[w])>>
         /\ Parses(request[w], query[w])
    /\ put_pc[w] = "done" =>
         /\ sent[w] = <<PutStatus(put[w])>>
         /\ put[w].nfId = request[w].nfId

(***************************************************************************)
(* The front end that calls the application behaves as Http1Server says,   *)
(* where the application just comes back with some status: in particular   *)
(* it always comes back.                                                   *)
(***************************************************************************)
ImplementsHttp1 == Http1!FairSpec
=============================================================================

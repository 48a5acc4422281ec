----------------------------- MODULE NssfHttp2 -----------------------------
(***************************************************************************)
(* nssf with HTTP version 2: the one I/O thread of nghttp2 runs callbacks  *)
(* (Http2Server), and a callback that has something to handle runs the     *)
(* handlers of nssf_app to their end (NssfService) before the thread turns *)
(* to anything else.                                                       *)
(***************************************************************************)
EXTENDS NssfService, SequencesExt

CONSTANTS
  Stream, Requests, EmptyNfId, NoRequest, NoHead, MaxFrames,  \* as in Http2Server
  NoStream   \* no callback is in nssf_app

ASSUME NoStreamAssumption == NoStream \notin Stream
ASSUME NoPutAssumption == NoPut \notin Puts
ASSUME IoThreadAssumption == http_version = 2 /\ \E w \in Worker : Worker = {w}

VARIABLES
  stream, request, frames, arrived, head, computed, handled,
  nfId,       \* of Http2Server
  asked,      \* the query that the parameters of a selection are parsed into
  documents,  \* what the frames of a PUT are parsed into, one by one
  busy        \* the stream whose callback is in nssf_app

Http2 == INSTANCE Http2Server WITH NfInstance <- NfId

\* What Http2Server asks of its constants.
ASSUME FrontAssumption ==
  /\ Requests \subseteq Http2!Request /\ EmptyNfId \notin NfId
  /\ \A r \in Requests : r.resource \in Http2!Registered
  /\ NoHead \notin Nat /\ NoRequest \notin Http2!Request /\ MaxFrames \in Nat

front_vars == <<stream, request, frames, arrived, head, computed, handled, nfId>>

parsed_vars == <<asked, documents>>

http2_service_vars == <<service_vars, front_vars, parsed_vars, busy>>

\* The I/O thread.
io == CHOOSE w \in Worker : TRUE

Http2ServiceInit ==
  /\ ServiceInit /\ Http2!Init
  /\ asked = [s \in Stream |-> NoQuery] /\ documents = [s \in Stream |-> <<>>]
  /\ busy = NoStream

\* What a request is parsed into: the first part it gives is, the other may be.
Parses(r, q) ==
  /\ q.reg # Absent <=> r.reg = "good"
  /\ q.reg = Absent => q.pdu # Absent
  /\ q.pdu # Absent => r.pdu # "none"
  /\ q.tai # NoTai => r.tai = "good"
  /\ q.home_plmnid => r.home = "good"

\* The query of a selection that a handler takes, parsed at every callback.
Asks(r) ==
  IF /\ r.resource = "network-slice-information" /\ r.method = "GET"
     /\ Http2!HandlesSelection(r) /\ Http2!Accepts(r)
    THEN {q \in Queries : Parses(r, q)} ELSE {NoQuery}

\* The frames of a PUT, each parsed by itself into a PUT for the NF of the path.
Documents(r, f) ==
  IF r.resource = "nssai-availability/:nfId" /\ r.method = "PUT" /\ r.nfId # EmptyNfId
    THEN {d \in [DOMAIN f -> Puts \cup {NoPut}] :
            \A i \in DOMAIN f : IF f[i] = "bad" THEN d[i] = NoPut
                               ELSE d[i] # NoPut /\ d[i].nfId = r.nfId}
    ELSE {<<>>}

\* Frames are read by the thread that runs the callbacks.
OpenStream(s) ==
  /\ busy = NoStream
  /\ \E r \in Requests : \E f \in Http2!Framings(r.body) :
       /\ Http2!Headers(s, r, f)
       /\ \E q \in Asks(r) : asked' = [asked EXCEPT ![s] = q]
       /\ \E d \in Documents(r, f) : documents' = [documents EXCEPT ![s] = d]
  /\ UNCHANGED <<service_vars, busy>>

CloseStream(s) ==
  /\ busy = NoStream
  /\ Http2!Close(s)
  /\ asked' = [asked EXCEPT ![s] = NoQuery]
  /\ documents' = [documents EXCEPT ![s] = <<>>]
  /\ UNCHANGED <<service_vars, busy>>

\* A callback that does not call nssf_app.
AnswerDirectly(s) ==
  /\ busy = NoStream
  /\ Http2!Callback(s)
  /\ computed' = computed
  /\ UNCHANGED <<service_vars, parsed_vars, busy>>

CallSelection(s) ==
  /\ busy = NoStream
  /\ stream[s] = "open" /\ Http2!AtSelection(s)
  /\ asked[s] \in Queries /\ Receive(io, asked[s])
  /\ busy' = s
  /\ UNCHANGED <<put_only, front_vars, parsed_vars>>

CallPut(s) ==
  /\ busy = NoStream
  /\ stream[s] = "open" /\ Http2!AtAvailability(s)
  /\ request[s].method = "PUT" /\ request[s].nfId # EmptyNfId
  /\ arrived[s] < Len(frames[s])
  /\ LET r == documents[s][arrived[s] + 1]
     IN  r \in Puts /\ ReceivePut(io, r)
  /\ busy' = s
  /\ UNCHANGED <<selection_only, front_vars, parsed_vars>>

RunApplication ==
  /\ busy # NoStream
  /\ \/ pc[io] # "done" /\ Serve(io) /\ UNCHANGED put_only
     \/ put_pc[io] # "done" /\ HandlePut(io) /\ UNCHANGED selection_only
  /\ UNCHANGED <<front_vars, parsed_vars, busy>>

\* The handlers have returned, and the callback ends with its answer.
LeaveApplication(s) ==
  /\ busy = s /\ busy' = NoStream /\ UNCHANGED parsed_vars
  /\ \/ /\ Reply(io) /\ UNCHANGED put_only
        /\ Http2!SelectionHandled(s, http_code[io])
     \/ /\ ReplyPut(io) /\ UNCHANGED selection_only
        /\ Http2!PutHandled(s, put_code[io])

BeginCallback(s) == AnswerDirectly(s) \/ CallSelection(s) \/ CallPut(s)

EndCallback == RunApplication \/ \E s \in Stream : LeaveApplication(s)

Http2ServiceNext ==
  EndCallback \/ \E s \in Stream : OpenStream(s) \/ BeginCallback(s)
                                   \/ CloseStream(s)

Http2ServiceSpec == Http2ServiceInit /\ [][Http2ServiceNext]_http2_service_vars

(***************************************************************************)
(* The thread goes on with the callback it is in.  Between callbacks it    *)
(* takes what is ready in turn, so that no stream is passed over for ever. *)
(***************************************************************************)
Http2ServiceFairSpec ==
  /\ Http2ServiceSpec
  /\ WF_http2_service_vars(EndCallback)
  /\ \A s \in Stream : SF_http2_service_vars(BeginCallback(s))

-----------------------------------------------------------------------------
(* Properties *)

RegistrationAlone(q) == IF q.reg # Absent THEN [q EXCEPT !.pdu = Absent] ELSE q

(***************************************************************************)
(* What the application computes in a callback is the status that the      *)
(* configuration and the request of the callback's own stream determine:   *)
(* of a selection with both parts, the registration alone; of a PUT in     *)
(* several frames, the one that has arrived.                               *)
(***************************************************************************)
AnswersAreDecided ==
  [][\A s \in Stream : computed'[s] \notin {computed[s], <<>>} =>
       /\ pc[io] = "done" =>
            Last(computed'[s]) =
              Abstract!Status(nssf_cfg, RegistrationAlone(asked[s]))
       /\ put_pc[io] = "done" =>
            LET r == documents[s][arrived'[s]]
            IN  Last(computed'[s]) = PutStatus(r) /\ Last(handled'[s]) = r.nfId
    ]_http2_service_vars

(***************************************************************************)
(* What a client is told, whatever other streams do: of a selection, the   *)
(* status that is decided for its own query; of a PUT, the status of its   *)
(* first frame's document or, if that is none, 400, whatever is put by the *)
(* frames that come later.                                                 *)
(***************************************************************************)
HeadIsDecided ==
  \A s \in Stream : head[s] # NoHead =>
    /\ asked[s] # NoQuery =>
         head[s] = Abstract!Status(nssf_cfg, RegistrationAlone(asked[s]))
    /\ documents[s] # <<>> =>
         head[s] = IF documents[s][1] = NoPut THEN BAD_REQUEST
                   ELSE PutStatus(documents[s][1])

(***************************************************************************)
(* The front end that calls the application behaves as Http2Server says,   *)
(* where a callback with all it calls is one step that always comes.       *)
(***************************************************************************)
ImplementsHttp2 == Http2!FairSpec
=============================================================================

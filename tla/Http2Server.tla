---------------------------- MODULE Http2Server ----------------------------
(***************************************************************************)
(* nssf_http2_server: one I/O thread calls the on_data callback of a       *)
(* stream for each DATA frame, and once more, with no data, when the       *)
(* client has ended the stream.  The callbacks of the streams interleave,  *)
(* and all of them capture the one local nfId of start().                  *)
(***************************************************************************)
EXTENDS HttpData, FiniteSets

CONSTANTS
  Stream,     \* the streams of the server's connections
  NoRequest,  \* the request of a stream that is not open
  NoHead,     \* the status of a stream that is not answered
  MaxFrames   \* a client cuts a body into at most this many DATA frames

(***************************************************************************)
(* The patterns that start() registers.  nghttp2 hands to "/" every path   *)
(* that no other pattern matches; the paths below nssai-availability other *)
(* than these two are left out (their patterns are in a submodule).        *)
(***************************************************************************)
Registered == {"network-slice-information", "nssai-availability/:nfId",
               "subscriptions", "nnssf-slice-config", "/"}

ASSUME RegisteredAssumption == \A r \in Requests : r.resource \in Registered
ASSUME NoHeadAssumption == NoHead \notin Nat
ASSUME NoRequestAssumption == NoRequest \notin Request
ASSUME MaxFramesAssumption == MaxFrames \in Nat

VARIABLES
  stream,    \* whether a stream is idle, open or ended by its client
  request,   \* the request of a stream
  frames,    \* the DATA frames of its body
  arrived,   \* how many of them have arrived
  head,      \* the status of the first write_head
  computed,  \* the statuses that the application has computed for it
  handled,   \* the NFs that handle_create_nssai_availability was called for
  nfId       \* the local of start() that the availability lambda captures

http2_vars == <<stream, request, frames, arrived, head, computed, handled, nfId>>

Init ==
  /\ stream  = [s \in Stream |-> "idle"]
  /\ request = [s \in Stream |-> NoRequest]
  /\ frames  = [s \in Stream |-> <<>>]
  /\ arrived = [s \in Stream |-> 0]
  /\ head    = [s \in Stream |-> NoHead]
  /\ computed = [s \in Stream |-> <<>>]
  /\ handled = [s \in Stream |-> <<>>]
  /\ nfId    = EmptyNfId

(***************************************************************************)
(* How a client may cut a body into DATA frames, each of which the server  *)
(* parses by itself.  Neither white space nor a piece of a JSON object is  *)
(* a JSON document, unless the piece is an object inside it; a body that   *)
(* is none may have been put together from several.                        *)
(***************************************************************************)
IsCut(f, body) ==
  LET first == f[1]
      last  == f[Len(f)]
  IN
  IF Len(f) = 1 THEN first = body
  ELSE \/ body = "bad"
       \/ first = "bad" /\ last = "bad"
       \/ first = body /\ \A i \in 2 .. Len(f) : f[i] = "bad"
       \/ last = body /\ \A i \in 1 .. Len(f) - 1 : f[i] = "bad"

Framings(body) ==
  IF body = "none" THEN {<<>>}
  ELSE {f \in UNION {[1 .. n -> {"good", "bad", body}] : n \in 1 .. MaxFrames} :
          IsCut(f, body)}

\* The headers arrive, and the handler of the path registers its callback.
Headers(s, r, f) ==
  /\ stream[s] = "idle"
  /\ f \in Framings(r.body)
  /\ stream'  = [stream EXCEPT ![s] = "open"]
  /\ request' = [request EXCEPT ![s] = r]
  /\ frames'  = [frames EXCEPT ![s] = f]
  /\ UNCHANGED <<arrived, head, computed, handled, nfId>>

\* The callback is called with the next frame, or with no data at the end.
Arrives(s, data) ==
  /\ stream[s] = "open"
  /\ IF arrived[s] < Len(frames[s])
       THEN /\ data = frames[s][arrived[s] + 1]
            /\ arrived' = [arrived EXCEPT ![s] = @ + 1]
            /\ UNCHANGED stream
       ELSE /\ data = "none"
            /\ stream' = [stream EXCEPT ![s] = "ended"]
            /\ UNCHANGED arrived
  /\ UNCHANGED <<request, frames>>

Data == Body

\* The last write_head counts (a plausible slip).
answer_again(s, code) == head' = [head EXCEPT ![s] = code]

\* write_head: what comes after the first one has no effect.
Answer(s, code) ==
  head' = [head EXCEPT ![s] = IF @ = NoHead THEN code ELSE @]

\* The application has computed code, and the handler answers with it.
AnswerComputed(s, code) ==
  /\ computed' = [computed EXCEPT ![s] = Append(@, code)]
  /\ Answer(s, code)

-----------------------------------------------------------------------------
(* Network slice information *)

AtSelection(s) == /\ request[s].resource = "network-slice-information"
                  /\ request[s].method = "GET"

\* The registration and the PDU session handler.
Accepts(r) == r.nf_type \in {"AMF", "NSSF"}

\* The first parameter that decides the answer; "none" if there is none.
Unparsable(r) == \/ r.home = "bad" \/ r.tai = "bad" \/ r.reg = "bad"
                 \/ r.reg = "none" /\ r.pdu = "bad"

\* The part for a PDU session is looked up, but not handled.
handles_registration(r) == ~Unparsable(r) /\ r.reg = "good"

HandlesSelection(r) == ~Unparsable(r) /\ (r.reg = "good" \/ r.pdu = "good")

SelectionHandled(s, code) ==
  /\ \E d \in Data : Arrives(s, d)
  /\ AtSelection(s)
  /\ HandlesSelection(request[s]) /\ Accepts(request[s])
  /\ code \in SelectionCode
  /\ AnswerComputed(s, code)
  /\ UNCHANGED <<handled, nfId>>

SelectionRefused(s) ==
  /\ \E d \in Data : Arrives(s, d)
  /\ AtSelection(s)
  /\ HandlesSelection(request[s]) /\ ~Accepts(request[s])
  /\ Answer(s, BAD_REQUEST)
  /\ UNCHANGED <<computed, handled, nfId>>

\* The lambda catches nlohmann::detail::exception.
SelectionUnparsable(s) ==
  /\ \E d \in Data : Arrives(s, d)
  /\ AtSelection(s)
  /\ Unparsable(request[s])
  /\ Answer(s, BAD_REQUEST)
  /\ UNCHANGED <<computed, handled, nfId>>

(***************************************************************************)
(* The parameter of a UE configuration update is looked up under the name  *)
(* of the registration's: its handler is never called, and the default     *)
(* handler leaves the stream unanswered.                                   *)
(***************************************************************************)
get_slice_info_default_handler(s) ==
  /\ \E d \in Data : Arrives(s, d)
  /\ AtSelection(s)
  /\ ~Unparsable(request[s]) /\ ~HandlesSelection(request[s])
  /\ UNCHANGED <<head, computed, handled, nfId>>

SelectionMethodIgnored(s) ==
  /\ \E d \in Data : Arrives(s, d)
  /\ request[s].resource = "network-slice-information"
  /\ request[s].method # "GET"
  /\ UNCHANGED <<head, computed, handled, nfId>>

-----------------------------------------------------------------------------
(* NSSAI availability *)

AtAvailability(s) == request[s].resource = "nssai-availability/:nfId"

\* The callback keeps the nfId of the stream before (a plausible slip).
set_nf_id_once(s) == nfId' = IF nfId = EmptyNfId THEN request[s].nfId ELSE nfId

\* nfId is set from the path of the request that the callback belongs to.
SetNfId(s) == nfId' = request[s].nfId

\* A PUT is handled for every frame, the empty one at the end included.
put_handled_at_end(s, code) ==
  /\ \E d \in {"good", "invalid", "none"} : Arrives(s, d)
  /\ AtAvailability(s)
  /\ SetNfId(s)
  /\ request[s].method = "PUT" /\ nfId' # EmptyNfId
  /\ handled' = [handled EXCEPT ![s] = Append(@, nfId')]
  /\ code \in PutCode
  /\ AnswerComputed(s, code)

\* The check that the last segment of the path is not empty is dropped.
put_handled_unnamed(s, code) ==
  /\ \E d \in {"good", "invalid"} : Arrives(s, d)
  /\ AtAvailability(s)
  /\ SetNfId(s)
  /\ request[s].method = "PUT"
  /\ handled' = [handled EXCEPT ![s] = Append(@, nfId')]
  /\ code \in PutCode
  /\ AnswerComputed(s, code)

\* A status that is not set is sent as 400 (a plausible repair).
put_handled_unparsed(s, code) ==
  /\ \E d \in {"good", "invalid"} : Arrives(s, d)
  /\ AtAvailability(s)
  /\ SetNfId(s)
  /\ request[s].method = "PUT" /\ nfId' # EmptyNfId
  /\ handled' = [handled EXCEPT ![s] = Append(@, nfId')]
  /\ code \in PutCode
  /\ computed' = [computed EXCEPT ![s] = Append(@, code)]
  /\ Answer(s, IF code = 0 THEN BAD_REQUEST ELSE code)

\* A frame that is a JSON document is handed to the application.
PutHandled(s, code) ==
  /\ \E d \in {"good", "invalid"} : Arrives(s, d)
  /\ AtAvailability(s)
  /\ SetNfId(s)
  /\ request[s].method = "PUT" /\ nfId' # EmptyNfId
  /\ handled' = [handled EXCEPT ![s] = Append(@, nfId')]
  /\ code \in PutCode
  /\ AnswerComputed(s, code)

BodyUnparsable(s) ==
  /\ Arrives(s, "bad")
  /\ AtAvailability(s)
  /\ SetNfId(s)
  /\ request[s].method \in {"PUT", "PATCH"} /\ nfId' # EmptyNfId
  /\ Answer(s, BAD_REQUEST)
  /\ UNCHANGED <<computed, handled>>

\* Only PUT is implemented; the end of a stream (len = 0) answers nothing.
AvailabilityIgnored(s) ==
  /\ \E d \in Data :
       /\ Arrives(s, d)
       /\ \/ d = "none"
          \/ request[s].nfId = EmptyNfId
          \/ request[s].method = "PATCH" /\ d # "bad"
          \/ request[s].method \notin {"PUT", "PATCH"}
  /\ AtAvailability(s)
  /\ SetNfId(s)
  /\ UNCHANGED <<head, computed, handled>>

-----------------------------------------------------------------------------
(* The other paths *)

get_api_list(s) ==
  /\ \E d \in Data : Arrives(s, d)
  /\ request[s].resource = "/" /\ request[s].method = "GET"
  /\ Answer(s, OK)
  /\ UNCHANGED <<computed, handled, nfId>>

\* What answers with a status is commented out.
get_slice_config(s) ==
  /\ \E d \in Data : Arrives(s, d)
  /\ request[s].resource = "nnssf-slice-config" /\ request[s].method = "GET"
  /\ UNCHANGED <<head, computed, handled, nfId>>

SubscriptionsIgnored(s) ==
  /\ \E d \in Data : Arrives(s, d)
  /\ request[s].resource = "subscriptions"
  /\ UNCHANGED <<head, computed, handled, nfId>>

CustomMethodIgnored(s) ==
  /\ \E d \in Data : Arrives(s, d)
  /\ request[s].resource \in {"nnssf-slice-config", "/"}
  /\ request[s].method # "GET"
  /\ UNCHANGED <<head, computed, handled, nfId>>

Callback(s) ==
  \/ \E code \in SelectionCode : SelectionHandled(s, code)
  \/ SelectionRefused(s) \/ SelectionUnparsable(s)
  \/ get_slice_info_default_handler(s) \/ SelectionMethodIgnored(s)
  \/ \E code \in PutCode : PutHandled(s, code)
  \/ BodyUnparsable(s) \/ AvailabilityIgnored(s)
  \/ SubscriptionsIgnored(s) \/ get_slice_config(s) \/ get_api_list(s)
  \/ CustomMethodIgnored(s)

\* The stream is closed: answered, or given up by its client.
Close(s) ==
  /\ stream[s] = "ended"
  /\ stream'  = [stream EXCEPT ![s] = "idle"]
  /\ request' = [request EXCEPT ![s] = NoRequest]
  /\ head'    = [head EXCEPT ![s] = NoHead]
  /\ frames'  = [frames EXCEPT ![s] = <<>>]
  /\ arrived' = [arrived EXCEPT ![s] = 0]
  /\ computed' = [computed EXCEPT ![s] = <<>>]
  /\ handled' = [handled EXCEPT ![s] = <<>>]
  /\ UNCHANGED nfId

Next == \E s \in Stream :
          \/ \E r \in Requests : \E f \in Framings(r.body) : Headers(s, r, f)
          \/ Callback(s)
          \/ Close(s)

Spec == Init /\ [][Next]_http2_vars

(***************************************************************************)
(* A client that has opened a stream sends the rest of its request, and    *)
(* the I/O thread calls the callbacks; a client closes a stream or not.    *)
(***************************************************************************)
FairSpec == Spec /\ \A s \in Stream : WF_http2_vars(Callback(s))

-----------------------------------------------------------------------------
(* Properties *)

\* The types of the variables.
TypeOK ==
  /\ stream \in [Stream -> {"idle", "open", "ended"}]
  /\ request \in [Stream -> Request \cup {NoRequest}]
  /\ frames \in [Stream -> Seq(Data)]
  /\ arrived \in [Stream -> Nat] /\ \A s \in Stream : arrived[s] <= Len(frames[s])
  /\ head \in [Stream -> Nat \cup {NoHead}]
  /\ computed \in [Stream -> Seq(SelectionCode \cup PutCode)]
  /\ handled \in [Stream -> Seq(NfInstance)]
  /\ nfId \in NfInstance \cup {EmptyNfId}

(***************************************************************************)
(* A PUT is handled for the NF of its own path, although nfId is shared by *)
(* all streams and callbacks of other streams run between its frames.      *)
(***************************************************************************)
HandledForOwnNf ==
  \A s \in Stream : \A i \in DOMAIN handled[s] :
    handled[s][i] = request[s].nfId

\* The frames that have arrived and are JSON documents.
Parsed(s) == {i \in 1 .. arrived[s] : frames[s][i] \in {"good", "invalid"}}

(***************************************************************************)
(* The application is called once for every frame of a PUT that is a       *)
(* document by itself: twice for two documents that one client puts into   *)
(* frames of their own, never for a document that is cut, and never at the *)
(* end of the stream or for another request.                               *)
(***************************************************************************)
HandledPerDocument ==
  \A s \in Stream :
    Len(handled[s]) =
      IF stream[s] # "idle" /\ PutsAvailability(request[s])
        THEN Cardinality(Parsed(s)) ELSE 0

(***************************************************************************)
(* A selection that is parsed is answered with the first status that the   *)
(* application computes for it.  The first frame of a PUT decides: its     *)
(* status if it is a document, else 400, whatever is computed for later    *)
(* frames and whatever other streams do.                                   *)
(***************************************************************************)
StatusIsComputed ==
  \A s \in Stream : stream[s] # "idle" /\ head[s] # NoHead =>
    /\ AtSelection(s) /\ Accepts(request[s]) /\ ~Unparsable(request[s])
         => head[s] = computed[s][1]
    /\ AtAvailability(s) =>
         head[s] = IF /\ request[s].method = "PUT"
                      /\ frames[s][1] \in {"good", "invalid"}
                   THEN computed[s][1] ELSE BAD_REQUEST

\* A selection or a PUT whose client ends it is answered.
RequestsAnswered ==
  \A s \in Stream :
    (stream[s] = "open"
       /\ (AsksSelection(request[s]) \/ PutsAvailability(request[s])))
      ~> head[s] # NoHead

\* What a client can tell of the answer before it sends its request.
Answerable(r, body) ==
  \/ AsksSelection(r) \/ PutsAvailability(r)
  \/ /\ r.resource = "network-slice-information" /\ r.method = "GET"
     /\ "bad" \in {r.home, r.tai}
  \/ /\ r.resource = "nssai-availability/:nfId" /\ r.method = "PATCH"
     /\ r.nfId # EmptyNfId
     /\ \E i \in 1 .. Len(body) : body[i] = "bad"
  \/ r.resource = "/" /\ r.method = "GET"

(***************************************************************************)
(* When its client has ended a stream, it has its answer or will never get *)
(* one, and which of the two depends on its own request and frames alone.  *)
(***************************************************************************)
AnsweredAtEnd ==
  \A s \in Stream : stream[s] = "ended" =>
    (head[s] # NoHead <=> Answerable(request[s], frames[s]))

(***************************************************************************)
(* "API not implemented yet !!!" (nssf-http2-server.cpp, the handler of UE *)
(* configuration updates): a client that asks for one is told so.          *)
(***************************************************************************)
UeCuAnswered ==
  \A s \in Stream :
    (stream[s] = "open" /\ AtSelection(s) /\ request[s].ue_cu = "good")
      ~> head[s] # NoHead
=============================================================================

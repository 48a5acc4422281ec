-------------------------- MODULE NssfHttp2Proofs --------------------------
(***************************************************************************)
(* The HTTP/2 server with the application behind it: the callback that is  *)
(* in the application has the I/O thread, so that what the application     *)
(* computes is the answer of the stream whose callback called it.          *)
(***************************************************************************)
EXTENDS NssfHttp2, NssfServiceProofs

\* The front end by itself, with the theorems about it.
Server == INSTANCE Http2ServerProofs WITH NfInstance <- NfId

Codes == Http2!SelectionCode \cup Http2!PutCode

Names == {r.nfId : r \in Requests}

\* What the request of an open stream, and its frames, are parsed into.
ParsedOf(s) ==
  IF stream[s] = "idle" THEN asked[s] = NoQuery /\ documents[s] = <<>>
  ELSE /\ asked[s] \in Asks(request[s])
       /\ documents[s] \in Documents(request[s], frames[s])

\* What the callbacks keep of the streams.
StreamTypes ==
  /\ stream = [s \in Stream |-> stream[s]]
  /\ request = [s \in Stream |-> request[s]]
  /\ asked = [s \in Stream |-> asked[s]]
  /\ documents = [s \in Stream |-> documents[s]]
  /\ computed \in [Stream -> Seq(Codes)]
  /\ handled \in [Stream -> Seq(Names)]
  /\ \A s \in Stream : stream[s] = "open" => request[s] \in Requests
  /\ \A s \in Stream : ParsedOf(s)

\* A selection that is being handled: the PDU session part is dropped.
SelectionOf(s) ==
  /\ pc[io] # "idle" /\ put_pc[io] = "idle"
  /\ Http2!AtSelection(s)
  /\ asked[s] \in Queries /\ query[io] = Asked(asked[s])

\* A PUT that is being handled: the one in the frame that has arrived.
PutOf(s) ==
  /\ pc[io] = "idle" /\ put_pc[io] # "idle"
  /\ Http2!AtAvailability(s)
  /\ put[io] = documents[s][arrived[s] + 1]
  /\ put[io] \in Puts /\ put[io].nfId = request[s].nfId

\* The I/O thread is in the application for the callback of one stream.
BusyInv ==
  /\ busy \in Stream \cup {NoStream}
  /\ busy = NoStream => Free(io)
  /\ busy # NoStream => /\ stream[busy] = "open"
                        /\ SelectionOf(busy) \/ PutOf(busy)

HInv == IInv /\ PutIInv /\ StreamTypes /\ BusyInv

LEMMA IoIsWorker == io \in Worker /\ http_version = 2
  BY IoThreadAssumption DEF io

-----------------------------------------------------------------------------
(* The composition takes steps of the services *)

LEMMA ServiceAct ==
  ASSUME BusyInv, [Http2ServiceNext]_http2_service_vars
  PROVE  [ServiceNext]_service_vars
<1>1. CASE UNCHANGED http2_service_vars
  BY <1>1 DEF http2_service_vars
<1>2. ASSUME NEW s \in Stream, CallSelection(s) \/ CallPut(s) PROVE ServiceNext
  <2>1. Free(io)
    BY <1>2 DEF BusyInv, CallSelection, CallPut
  <2>2. ServiceSelect(io) \/ ServicePut(io)
    BY <1>2, <2>1 DEF CallSelection, CallPut, ServiceSelect, ServicePut
  <2> QED
    BY <2>2, IoIsWorker DEF ServiceNext
<1>3. CASE RunApplication
  <2>1. ServiceSelect(io) \/ ServicePut(io)
    BY <1>3 DEF RunApplication, ServiceSelect, ServicePut
  <2> QED
    BY <2>1, IoIsWorker DEF ServiceNext
<1>4. ASSUME NEW s \in Stream, LeaveApplication(s) PROVE ServiceNext
  <2>1. ServiceSelect(io) \/ ServicePut(io)
    BY <1>4 DEF LeaveApplication, ServiceSelect, ServicePut, Serve, HandlePut
  <2> QED
    BY <2>1, IoIsWorker DEF ServiceNext
<1>5. ASSUME NEW s \in Stream, OpenStream(s) \/ CloseStream(s) \/ AnswerDirectly(s)
      PROVE  UNCHANGED service_vars
  BY <1>5 DEF OpenStream, CloseStream, AnswerDirectly
<1> QED
  BY <1>1, <1>2, <1>3, <1>4, <1>5 DEF Http2ServiceNext, EndCallback, BeginCallback

-----------------------------------------------------------------------------
(* The front end by itself *)

LEMMA ArrivesKeeps ==
  ASSUME StreamTypes, NEW s \in Stream, NEW d, Http2!Arrives(s, d)
  PROVE  /\ stream[s] = "open" /\ request' = request /\ frames' = frames
         /\ stream' = [u \in Stream |-> stream'[u]]
         /\ \A u \in Stream : stream'[u] = "open" => stream[u] = "open"
         /\ \A u \in Stream : stream'[u] = "idle" <=> stream[u] = "idle"
  BY DEF Http2!Arrives, StreamTypes

LEMMA CallbackKeeps ==
  ASSUME StreamTypes, NEW s \in Stream, Http2!Callback(s)
  PROVE  /\ request' = request /\ stream' = [u \in Stream |-> stream'[u]]
         /\ frames' = frames /\ \E d : Http2!Arrives(s, d)
         /\ \A u \in Stream : stream'[u] = "open" => stream[u] = "open"
         /\ \A u \in Stream : stream'[u] = "idle" <=> stream[u] = "idle"
<1>1. PICK d : Http2!Arrives(s, d)
  BY DEF Http2!Callback, Http2!SelectionHandled, Http2!SelectionRefused,
         Http2!SelectionUnparsable, Http2!get_slice_info_default_handler,
         Http2!SelectionMethodIgnored, Http2!PutHandled, Http2!BodyUnparsable,
         Http2!AvailabilityIgnored, Http2!SubscriptionsIgnored,
         Http2!get_slice_config, Http2!get_api_list, Http2!CustomMethodIgnored
<1> QED
  BY <1>1, ArrivesKeeps

\* What a stream is parsed into does not change while it is open.
LEMMA ParsedStays ==
  ASSUME NEW u \in Stream, ParsedOf(u),
         asked'[u] = asked[u], documents'[u] = documents[u],
         request'[u] = request[u], frames'[u] = frames[u],
         stream'[u] = "idle" <=> stream[u] = "idle"
  PROVE  ParsedOf(u)'
  BY DEF ParsedOf

LEMMA HandledTypes ==
  ASSUME StreamTypes, UNCHANGED parsed_vars, NEW s \in Stream, NEW code,
         Http2!SelectionHandled(s, code) \/ Http2!PutHandled(s, code)
  PROVE  /\ StreamTypes'
         /\ request' = request /\ stream[s] = "open"
         /\ \A u \in Stream \ {s} : computed'[u] = computed[u]
         /\ Last(computed'[s]) = code
         /\ Http2!PutHandled(s, code) => Last(handled'[s]) = request[s].nfId
<1>1. PICK d : Http2!Arrives(s, d)
  BY DEF Http2!SelectionHandled, Http2!PutHandled
<1>2. /\ stream[s] = "open" /\ request' = request /\ request[s] \in Requests
      /\ stream' = [u \in Stream |-> stream'[u]]
      /\ \A u \in Stream : stream'[u] = "open" => stream[u] = "open"
      /\ \A u \in Stream : ParsedOf(u)'
  BY <1>1, ArrivesKeeps, ParsedStays DEF StreamTypes, parsed_vars
<1>3. /\ code \in Codes
      /\ computed' = [computed EXCEPT ![s] = Append(@, code)]
      /\ \/ handled' = handled
         \/ handled' = [handled EXCEPT ![s] = Append(@, request[s].nfId)]
      /\ Http2!PutHandled(s, code) =>
           handled' = [handled EXCEPT ![s] = Append(@, request[s].nfId)]
  BY DEF Http2!SelectionHandled, Http2!PutHandled, Http2!AnswerComputed,
         Http2!SetNfId, Codes
<1>4. \A S, seq, e : seq \in Seq(S) /\ e \in S =>
        Append(seq, e) \in Seq(S) /\ Last(Append(seq, e)) = e
  BY AppendProperties DEF Last
<1>5. /\ computed' \in [Stream -> Seq(Codes)] /\ Last(computed'[s]) = code
      /\ \A u \in Stream \ {s} : computed'[u] = computed[u]
  <2>1. computed \in [Stream -> Seq(Codes)]
    BY DEF StreamTypes
  <2>2. Append(computed[s], code) \in Seq(Codes) /\ Last(Append(computed[s], code)) = code
    BY <1>3, <1>4, <2>1
  <2> QED
    BY <1>3, <2>1, <2>2
<1>6. /\ handled' \in [Stream -> Seq(Names)]
      /\ Http2!PutHandled(s, code) => Last(handled'[s]) = request[s].nfId
  <2>1. handled \in [Stream -> Seq(Names)] /\ request[s].nfId \in Names
    BY <1>2 DEF StreamTypes, Names
  <2>2. /\ Append(handled[s], request[s].nfId) \in Seq(Names)
        /\ Last(Append(handled[s], request[s].nfId)) = request[s].nfId
    BY <1>4, <2>1
  <2> QED
    BY <1>3, <2>1, <2>2
<1> QED
  BY <1>2, <1>5, <1>6 DEF StreamTypes, parsed_vars

-----------------------------------------------------------------------------
(* The composition takes steps of the front end *)

\* The callback that has been in the application ends as one of Http2Server's.
LEMMA LeaveRunsCallback ==
  ASSUME NEW s \in Stream, LeaveApplication(s)
  PROVE  Http2!Callback(s)
<1>1. CASE Http2!SelectionHandled(s, http_code[io])
  <2>1. http_code[io] \in Http2!SelectionCode
    BY <1>1 DEF Http2!SelectionHandled
  <2> QED
    BY <1>1, <2>1 DEF Http2!Callback
<1>2. CASE Http2!PutHandled(s, put_code[io])
  <2>1. put_code[io] \in Http2!PutCode
    BY <1>2 DEF Http2!PutHandled
  <2> QED
    BY <1>2, <2>1 DEF Http2!Callback
<1> QED
  BY <1>1, <1>2 DEF LeaveApplication

(***************************************************************************)
(* What a client of the whole server sees are runs of the front end whose  *)
(* application computes some status in one step (the safety part of        *)
(* ImplementsHttp2).                                                       *)
(***************************************************************************)
THEOREM FrontBehavesAsServer == Http2ServiceSpec => Http2!Spec
<1>1. Http2ServiceInit => Http2!Init
  BY DEF Http2ServiceInit
<1>2. [Http2ServiceNext]_http2_service_vars => [Http2!Next]_(Http2!http2_vars)
  <2> SUFFICES ASSUME [Http2ServiceNext]_http2_service_vars
               PROVE  [Http2!Next]_(Http2!http2_vars)
    OBVIOUS
  <2>1. ASSUME NEW s \in Stream,
               OpenStream(s) \/ CloseStream(s) \/ AnswerDirectly(s)
        PROVE  Http2!Next
    BY <2>1 DEF OpenStream, CloseStream, AnswerDirectly, Http2!Next
  <2>2. ASSUME NEW s \in Stream, LeaveApplication(s) PROVE Http2!Next
    BY <2>2, LeaveRunsCallback DEF Http2!Next
  <2>3. CASE \/ RunApplication \/ UNCHANGED http2_service_vars
             \/ \E s \in Stream : CallSelection(s) \/ CallPut(s)
    <3>1. UNCHANGED front_vars
      BY <2>3 DEF RunApplication, CallSelection, CallPut, http2_service_vars
    <3> QED
      BY <3>1 DEF front_vars, Http2!http2_vars
  <2> QED
    BY <2>1, <2>2, <2>3 DEF Http2ServiceNext, EndCallback, BeginCallback
<1> QED
  BY <1>1, <1>2, PTL DEF Http2ServiceSpec, Http2!Spec

LEMMA ServerAssumptions ==
  /\ Requests \subseteq Server!Request /\ EmptyNfId \notin NfId
  /\ \A r \in Requests : r.resource \in Server!Registered
  /\ NoHead \notin Nat /\ NoRequest \notin Server!Request /\ MaxFrames \in Nat
  BY FrontAssumption
  DEF Server!Request, Server!Resource, Server!Parameter, Server!Body,
      Server!Registered, Http2!Request, Http2!Resource, Http2!Parameter,
      Http2!Body, Http2!Registered

LEMMA SameCallback ==
  ASSUME NEW s \in Stream
  PROVE  Http2!Callback(s) <=> Server!Callback(s)
  BY DEF Http2!Callback, Http2!SelectionHandled, Http2!SelectionRefused,
  Http2!SelectionUnparsable, Http2!get_slice_info_default_handler,
  Http2!SelectionMethodIgnored, Http2!PutHandled, Http2!BodyUnparsable,
  Http2!AvailabilityIgnored, Http2!SubscriptionsIgnored, Http2!get_slice_config,
  Http2!get_api_list, Http2!CustomMethodIgnored, Http2!Arrives, Http2!AtSelection,
  Http2!AtAvailability, Http2!SetNfId, Http2!Answer, Http2!AnswerComputed,
  Http2!SelectionCode, Http2!PutCode, Http2!Data, Http2!Body, Http2!Accepts,
  Http2!Unparsable, Http2!HandlesSelection, Http2!OK, Http2!NO_CONTENT,
  Http2!BAD_REQUEST, Http2!FORBIDDEN, Http2!SERVICE_UNAVAILABLE,
  Server!Callback, Server!SelectionHandled, Server!SelectionRefused,
  Server!SelectionUnparsable, Server!get_slice_info_default_handler,
  Server!SelectionMethodIgnored, Server!PutHandled, Server!BodyUnparsable,
  Server!AvailabilityIgnored, Server!SubscriptionsIgnored, Server!get_slice_config,
  Server!get_api_list, Server!CustomMethodIgnored, Server!Arrives,
  Server!AtSelection, Server!AtAvailability, Server!SetNfId, Server!Answer,
  Server!AnswerComputed, Server!SelectionCode, Server!PutCode, Server!Data,
  Server!Body, Server!Accepts, Server!Unparsable, Server!HandlesSelection,
  Server!OK, Server!NO_CONTENT, Server!BAD_REQUEST, Server!FORBIDDEN,
  Server!SERVICE_UNAVAILABLE

LEMMA FrontRunsServer == Http2ServiceSpec => Server!Spec
<1>1. Http2!Init => Server!Init
  BY DEF Http2!Init, Server!Init
<1>2. [Http2!Next]_(Http2!http2_vars) => [Server!Next]_(Server!http2_vars)
  BY SameCallback
  DEF Http2!Next, Http2!Headers, Http2!Framings, Http2!IsCut, Http2!Close,
      Http2!http2_vars, Server!Next, Server!Headers, Server!Framings,
      Server!IsCut, Server!Close, Server!http2_vars
<1> QED
  BY <1>1, <1>2, FrontBehavesAsServer, PTL DEF Http2!Spec, Server!Spec

LEMMA ServerIInv == Http2ServiceSpec => []Server!IInv
<1>1. Server!Spec => []Server!IInv
  BY Server!IInvIsInvariant, ServerAssumptions
<1> QED
  BY <1>1, FrontRunsServer, PTL

-----------------------------------------------------------------------------
(* The invariant *)

LEMMA OpenStreamStep ==
  ASSUME HInv, Server!IInv, NEW s \in Stream, OpenStream(s)
  PROVE  StreamTypes' /\ BusyInv'
<1>1. PICK r \in Requests : \E f \in Http2!Framings(r.body) :
        /\ stream' = [stream EXCEPT ![s] = "open"]
        /\ request' = [request EXCEPT ![s] = r]
        /\ frames' = [frames EXCEPT ![s] = f]
        /\ \E q \in Asks(r) : asked' = [asked EXCEPT ![s] = q]
        /\ \E d \in Documents(r, f) : documents' = [documents EXCEPT ![s] = d]
        /\ UNCHANGED <<computed, handled>>
  BY DEF OpenStream, Http2!Headers
<1>2. busy = NoStream /\ busy' = NoStream /\ pc' = pc /\ put_pc' = put_pc
  BY DEF OpenStream, service_vars, vars, put_only
<1>3. StreamTypes
  BY DEF HInv
<1>4. PICK f \in Http2!Framings(r.body) :
        /\ frames' = [frames EXCEPT ![s] = f]
        /\ \E q \in Asks(r) : asked' = [asked EXCEPT ![s] = q]
        /\ \E d \in Documents(r, f) : documents' = [documents EXCEPT ![s] = d]
  BY <1>1
<1>5. ASSUME NEW u \in Stream PROVE ParsedOf(u)'
  <2>1. CASE u # s
    BY <1>1, <1>3, <1>4, <2>1, ParsedStays DEF StreamTypes, Server!IInv, Server!TypeOK
  <2>2. CASE u = s
    <3>1. /\ stream'[u] = "open" /\ request'[u] = r
          /\ asked'[u] \in Asks(r) /\ documents'[u] \in Documents(r, f)
      BY <1>1, <1>3, <1>4, <2>2 DEF StreamTypes
    <3>2. frames'[u] = f
      BY <1>4, <2>2 DEF Server!IInv, Server!TypeOK
    <3> QED
      BY <3>1, <3>2 DEF ParsedOf
  <2> QED
    BY <2>1, <2>2
<1>6. StreamTypes'
  BY <1>1, <1>3, <1>4, <1>5 DEF StreamTypes
<1> QED
  BY <1>2, <1>6 DEF HInv, BusyInv, Free

LEMMA CloseStreamStep ==
  ASSUME HInv, Server!IInv, NEW s \in Stream, CloseStream(s)
  PROVE  StreamTypes' /\ BusyInv'
<1>1. /\ stream' = [stream EXCEPT ![s] = "idle"]
      /\ request' = [request EXCEPT ![s] = NoRequest]
      /\ frames' = [frames EXCEPT ![s] = <<>>]
      /\ computed' = [computed EXCEPT ![s] = <<>>]
      /\ handled' = [handled EXCEPT ![s] = <<>>]
      /\ asked' = [asked EXCEPT ![s] = NoQuery]
      /\ documents' = [documents EXCEPT ![s] = <<>>]
  BY DEF CloseStream, Http2!Close
<1>2. busy = NoStream /\ busy' = NoStream /\ pc' = pc /\ put_pc' = put_pc
  BY DEF CloseStream, service_vars, vars, put_only
<1>3. <<>> \in Seq(Codes) /\ <<>> \in Seq(Names)
  OBVIOUS
<1>4. ASSUME NEW u \in Stream PROVE ParsedOf(u)'
  <2>1. CASE u # s
    BY <1>1, <2>1, ParsedStays DEF HInv, StreamTypes, Server!IInv, Server!TypeOK
  <2>2. CASE u = s
    BY <1>1, <2>2 DEF HInv, StreamTypes, ParsedOf
  <2> QED
    BY <2>1, <2>2
<1>5. StreamTypes'
  BY <1>1, <1>3, <1>4 DEF HInv, StreamTypes
<1> QED
  BY <1>2, <1>5 DEF HInv, BusyInv, Free

LEMMA AnswerDirectlyStep ==
  ASSUME HInv, NEW s \in Stream, AnswerDirectly(s)
  PROVE  StreamTypes' /\ BusyInv'
<1>1. /\ request' = request /\ computed' = computed /\ frames' = frames
      /\ UNCHANGED parsed_vars
      /\ stream' = [u \in Stream |-> stream'[u]]
      /\ \A u \in Stream : stream'[u] = "open" => stream[u] = "open"
      /\ \A u \in Stream : stream'[u] = "idle" <=> stream[u] = "idle"
  BY CallbackKeeps DEF AnswerDirectly, HInv
<1>2. handled' \in [Stream -> Seq(Names)]
  <2>1. CASE \E code : Http2!SelectionHandled(s, code) \/ Http2!PutHandled(s, code)
    BY <1>1, <2>1, HandledTypes DEF HInv, StreamTypes
  <2>2. CASE handled' = handled
    BY <2>2 DEF HInv, StreamTypes
  <2> QED
    BY <2>1, <2>2
    DEF AnswerDirectly, Http2!Callback, Http2!SelectionRefused,
        Http2!SelectionUnparsable, Http2!get_slice_info_default_handler,
        Http2!SelectionMethodIgnored, Http2!BodyUnparsable,
        Http2!AvailabilityIgnored, Http2!SubscriptionsIgnored,
        Http2!get_slice_config, Http2!get_api_list, Http2!CustomMethodIgnored
<1>3. busy = NoStream /\ busy' = NoStream /\ pc' = pc /\ put_pc' = put_pc
  BY DEF AnswerDirectly, service_vars, vars, put_only
<1>4. \A u \in Stream : ParsedOf(u)'
  BY <1>1, ParsedStays DEF HInv, StreamTypes, parsed_vars
<1>5. StreamTypes'
  BY <1>1, <1>2, <1>4 DEF HInv, StreamTypes, parsed_vars
<1> QED
  BY <1>3, <1>5 DEF HInv, BusyInv, Free

\* A step that calls the application leaves the streams as they are.
LEMMA StreamsStay ==
  ASSUME HInv, UNCHANGED <<front_vars, parsed_vars>>
  PROVE  StreamTypes'
<1>1. \A u \in Stream : ParsedOf(u)'
  BY ParsedStays DEF HInv, StreamTypes, front_vars, parsed_vars
<1> QED
  BY <1>1 DEF HInv, StreamTypes, front_vars, parsed_vars

LEMMA CallSelectionStep ==
  ASSUME HInv, NEW s \in Stream, CallSelection(s)
  PROVE  StreamTypes' /\ BusyInv'
<1>1. /\ busy = NoStream /\ busy' = s
      /\ UNCHANGED <<put_only, front_vars, parsed_vars>>
      /\ stream[s] = "open" /\ Http2!AtSelection(s)
      /\ asked[s] \in Queries /\ Receive(io, asked[s])
  BY DEF CallSelection
<1>2. Free(io) /\ TypeOK
  BY <1>1 DEF HInv, BusyInv, IInv
<1>3. pc'[io] = "pdu" /\ query'[io] = Asked(asked[s])
  BY <1>1, <1>2, IoIsWorker DEF Receive, TypeOK
<1>4. SelectionOf(s)'
  BY <1>1, <1>2, <1>3
  DEF SelectionOf, front_vars, parsed_vars, put_only, Free, Http2!AtSelection, Asked
<1>5. StreamTypes'
  BY <1>1, StreamsStay
<1> QED
  BY <1>1, <1>4, <1>5, NoStreamAssumption DEF BusyInv, front_vars

LEMMA CallPutStep ==
  ASSUME HInv, Server!IInv, NEW s \in Stream, CallPut(s)
  PROVE  StreamTypes' /\ BusyInv'
<1> DEFINE n == arrived[s] + 1
           r == documents[s][n]
<1>1. /\ busy = NoStream /\ busy' = s
      /\ UNCHANGED <<selection_only, front_vars, parsed_vars>>
      /\ stream[s] = "open" /\ Http2!AtAvailability(s)
      /\ r \in Puts /\ ReceivePut(io, r)
  BY DEF CallPut
<1>2. r.nfId = request[s].nfId
  <2>1. documents[s] \in Documents(request[s], frames[s])
    BY <1>1 DEF HInv, StreamTypes, ParsedOf
  <2>2. n \in DOMAIN frames[s]
    <3>1. /\ frames[s] \in Seq(Server!Data) /\ arrived[s] \in Nat
          /\ arrived[s] < Len(frames[s])
      BY DEF CallPut, Server!IInv, Server!TypeOK
    <3> QED
      BY <3>1
  <2>3. /\ request[s].resource = "nssai-availability/:nfId"
        /\ request[s].method = "PUT" /\ request[s].nfId # EmptyNfId
    BY DEF CallPut, Http2!AtAvailability
  <2> HIDE DEF n
  <2> QED
    BY <1>1, <2>1, <2>2, <2>3, NoPutAssumption DEF Documents
<1>3. Free(io) /\ PutTypeOK
  BY <1>1 DEF HInv, BusyInv, PutIInv
<1>4. put_pc'[io] = "handler" /\ put'[io] = r
  BY <1>1, <1>3, IoIsWorker DEF ReceivePut, PutTypeOK
<1>5. PutOf(s)'
  BY <1>1, <1>2, <1>3, <1>4
  DEF PutOf, front_vars, parsed_vars, selection_only, Free, Http2!AtAvailability
<1>6. StreamTypes'
  BY <1>1, StreamsStay
<1> QED
  BY <1>1, <1>5, <1>6, NoStreamAssumption DEF BusyInv, front_vars

LEMMA RunApplicationStep ==
  ASSUME HInv, RunApplication, IInv', PutIInv'
  PROVE  StreamTypes' /\ BusyInv'
<1>1. busy # NoStream /\ UNCHANGED <<front_vars, parsed_vars, busy>>
  BY DEF RunApplication
<1>2. StreamTypes'
  BY <1>1, StreamsStay
<1>3. CASE pc[io] # "done" /\ Serve(io) /\ UNCHANGED put_only
  <2>1. pc[io] # "idle" /\ query' = query
    BY <1>3, ServeKeepsQuery, IoIsWorker
  <2>2. pc'[io] # "idle"
    BY <2>1, IoIsWorker DEF HInv, IInv, PhaseInvariant, PhaseOf
  <2>3. SelectionOf(busy)'
    BY <1>1, <1>3, <2>1, <2>2
    DEF HInv, BusyInv, SelectionOf, PutOf, front_vars, parsed_vars, put_only,
        Http2!AtSelection, Asked
  <2> QED
    BY <1>1, <1>2, <2>3 DEF HInv, BusyInv, front_vars
<1>4. CASE put_pc[io] # "done" /\ HandlePut(io) /\ UNCHANGED selection_only
  <2>1. put_pc[io] # "idle" /\ put_pc'[io] # "idle" /\ put' = put
    BY <1>4, HandlePutKeepsPut, IoIsWorker DEF HInv, PutIInv
  <2>2. PutOf(busy)'
    BY <1>1, <1>4, <2>1
    DEF HInv, BusyInv, SelectionOf, PutOf, front_vars, parsed_vars,
        selection_only, Http2!AtAvailability
  <2> QED
    BY <1>1, <1>2, <2>2 DEF HInv, BusyInv, front_vars
<1> QED
  BY <1>3, <1>4 DEF RunApplication

LEMMA LeaveApplicationStep ==
  ASSUME HInv, NEW s \in Stream, LeaveApplication(s)
  PROVE  StreamTypes' /\ BusyInv'
<1>1. busy = s /\ busy' = NoStream
  BY DEF LeaveApplication
<1>2. StreamTypes'
  BY HandledTypes DEF LeaveApplication, HInv
<1>3. Free(io)'
  <2>1. TypeOK /\ PutTypeOK /\ (SelectionOf(s) \/ PutOf(s))
    BY <1>1, NoStreamAssumption DEF HInv, IInv, PutIInv, BusyInv
  <2>2. CASE Reply(io) /\ UNCHANGED put_only
    BY <2>1, <2>2, IoIsWorker
    DEF Reply, put_only, TypeOK, SelectionOf, PutOf, Free
  <2>3. CASE ReplyPut(io) /\ UNCHANGED selection_only
    BY <2>1, <2>3, IoIsWorker
    DEF ReplyPut, selection_only, PutTypeOK, SelectionOf, PutOf, Free
  <2> QED
    BY <2>2, <2>3 DEF LeaveApplication
<1> QED
  BY <1>1, <1>2, <1>3 DEF BusyInv

LEMMA InitHInv == Http2ServiceInit => HInv
<1> SUFFICES ASSUME Http2ServiceInit PROVE HInv
  OBVIOUS
<1>1. IInv /\ PutIInv
  BY InitIInv, PutInitIInv DEF Http2ServiceInit, ServiceInit
<1>2. <<>> \in Seq(Codes) /\ <<>> \in Seq(Names)
  OBVIOUS
<1>3. StreamTypes
  BY <1>2 DEF Http2ServiceInit, Http2!Init, StreamTypes, ParsedOf
<1>4. BusyInv
  BY IoIsWorker DEF Http2ServiceInit, ServiceInit, Init, PutInit, BusyInv, Free
<1> QED
  BY <1>1, <1>3, <1>4 DEF HInv

LEMMA HStep ==
  HInv /\ Server!IInv /\ [Http2ServiceNext]_http2_service_vars => HInv'
<1> SUFFICES ASSUME HInv, Server!IInv, [Http2ServiceNext]_http2_service_vars
             PROVE  HInv'
  OBVIOUS
<1>1. IInv' /\ PutIInv'
  <2>1. [ServiceNext]_service_vars
    BY ServiceAct DEF HInv
  <2> QED
    BY <2>1, ServiceStep, IInvStep, ServicePutStep, PutStep DEF HInv
<1>2. CASE Http2ServiceNext
  BY <1>1, <1>2, OpenStreamStep, CloseStreamStep, AnswerDirectlyStep,
     CallSelectionStep, CallPutStep, RunApplicationStep, LeaveApplicationStep
  DEF HInv, Http2ServiceNext, EndCallback, BeginCallback
<1>3. CASE UNCHANGED http2_service_vars
  <2>1. UNCHANGED <<front_vars, parsed_vars, busy, pc, query, put_pc, put>>
    BY <1>3 DEF http2_service_vars, service_vars, vars, put_only
  <2>2. StreamTypes'
    BY <2>1, StreamsStay
  <2>3. BusyInv'
    BY <2>1 DEF HInv, BusyInv, Free, SelectionOf, PutOf, Asked, front_vars,
                parsed_vars, Http2!AtSelection, Http2!AtAvailability
  <2> QED
    BY <1>1, <2>2, <2>3 DEF HInv
<1> QED
  BY <1>2, <1>3

THEOREM HInvIsInvariant == Http2ServiceSpec => []HInv
  BY InitHInv, HStep, ServerIInv, PTL DEF Http2ServiceSpec

-----------------------------------------------------------------------------
(* What the composition inherits, and what it answers *)

\* The I/O thread takes only steps of the two services.
THEOREM FrontRunsServices == Http2ServiceSpec => ServiceSpec
<1>1. Http2ServiceInit => ServiceInit
  BY DEF Http2ServiceInit
<1>2. HInv /\ [Http2ServiceNext]_http2_service_vars => [ServiceNext]_service_vars
  BY ServiceAct DEF HInv
<1> QED
  BY <1>1, <1>2, HInvIsInvariant, PTL DEF Http2ServiceSpec, ServiceSpec

(***************************************************************************)
(* A selection that a client asks for over HTTP/2 is given the decision    *)
(* that the configuration determines, whatever is put meanwhile.           *)
(***************************************************************************)
THEOREM FrontImplementsAuthorization ==
  Http2ServiceSpec => ServiceImplementsAuthorization
  BY FrontRunsServices, PutsDisturbNoSelection

(***************************************************************************)
(* Inside the callbacks the invariants of the two services hold.           *)
(***************************************************************************)
THEOREM FrontKeepsServices ==
  Http2ServiceSpec => [](/\ TypeOK /\ ScanIsExhaustive
                         /\ PutTypeOK /\ PutStatusExplained /\ OneEntryPerAmf)
  BY FrontRunsServices, ServiceRunsSelection, TypeCorrect, ScanExhaustive,
     PutTypeCorrect, PutStatusHasCause, PutLeavesOneEntry, PTL

(***************************************************************************)
(* Each step of a handler brings it nearer to its reply, and with it the   *)
(* I/O thread to the other streams.                                        *)
(***************************************************************************)
THEOREM FrontLoopsEnd == Http2ServiceSpec => HandlersAdvance
  BY FrontRunsServices, LoopsEnd

\* What is handled for a selection is its registration alone, if it has one.
LEMMA AskedAlone ==
  ASSUME NEW q
  PROVE  Asked(q) = RegistrationAlone(q)
  BY IoIsWorker DEF Asked, RegistrationAlone

\* A callback leaves the application with what was decided for its stream.
LEMMA LeaveDecides ==
  ASSUME HInv, Server!IInv, StatusDecided, NEW s \in Stream, LeaveApplication(s)
  PROVE  \/ /\ Http2!SelectionHandled(s, http_code[io])
            /\ pc[io] = "done" /\ put_pc[io] = "idle" /\ asked[s] \in Queries
            /\ http_code[io] = Abstract!Status(nssf_cfg, RegistrationAlone(asked[s]))
         \/ /\ Http2!PutHandled(s, put_code[io])
            /\ put_pc[io] = "done" /\ pc[io] = "idle"
            /\ arrived[s] \in Nat /\ arrived'[s] = arrived[s] + 1
            /\ put_code[io] = PutStatus(documents[s][arrived'[s]])
            /\ documents[s][arrived'[s]].nfId = request[s].nfId
            /\ documents[s][arrived'[s]] \in Puts
<1>1. busy = s /\ (SelectionOf(s) \/ PutOf(s))
  BY NoStreamAssumption DEF LeaveApplication, HInv, BusyInv
<1>2. CASE Reply(io) /\ Http2!SelectionHandled(s, http_code[io])
  <2>1. /\ pc[io] = "done" /\ put_pc[io] = "idle"
        /\ asked[s] \in Queries /\ query[io] = Asked(asked[s])
    BY <1>1, <1>2 DEF Reply, SelectionOf, PutOf
  <2>2. http_code[io] = Abstract!Status(nssf_cfg, query[io])
    BY <2>1, IoIsWorker DEF StatusDecided, DecidedStatus
  <2> QED
    BY <1>2, <2>1, <2>2, AskedAlone
<1>3. CASE ReplyPut(io) /\ Http2!PutHandled(s, put_code[io])
  <2>1. /\ put_pc[io] = "done" /\ pc[io] = "idle"
        /\ put[io] = documents[s][arrived[s] + 1] /\ put[io] \in Puts
        /\ put[io].nfId = request[s].nfId
    BY <1>1, <1>3 DEF ReplyPut, SelectionOf, PutOf
  <2>2. put_code[io] = PutStatus(put[io])
    BY <2>1, IoIsWorker, PutStatusWhenDone DEF HInv
  <2>3. arrived[s] \in Nat /\ arrived'[s] = arrived[s] + 1
    BY <1>3 DEF Server!IInv, Server!TypeOK, Http2!PutHandled, Http2!Arrives
  <2> QED
    BY <1>3, <2>1, <2>2, <2>3
<1> QED
  BY <1>2, <1>3 DEF LeaveApplication

(***************************************************************************)
(* Each status that the application computes in a callback is that of the  *)
(* request of the stream it is sent on: of its query, or of the frame that *)
(* has arrived.                                                            *)
(***************************************************************************)
THEOREM StreamsAreAnsweredDecisions == Http2ServiceSpec => AnswersAreDecided
<1> DEFINE Decides(s) ==
      computed'[s] \notin {computed[s], <<>>} =>
        /\ pc[io] = "done" =>
             Last(computed'[s]) =
               Abstract!Status(nssf_cfg, RegistrationAlone(asked[s]))
        /\ put_pc[io] = "done" =>
             LET r == documents[s][arrived'[s]]
             IN  Last(computed'[s]) = PutStatus(r) /\ Last(handled'[s]) = r.nfId
<1>1. ASSUME HInv, Server!IInv, StatusDecided,
             [Http2ServiceNext]_http2_service_vars, NEW s \in Stream
      PROVE  Decides(s)
  <2>1. CASE computed' = computed
    BY <2>1
  <2>2. ASSUME NEW u \in Stream, CloseStream(u) PROVE Decides(s)
    BY <1>1, <2>2 DEF CloseStream, Http2!Close, HInv, StreamTypes
  <2>3. ASSUME NEW u \in Stream, LeaveApplication(u) PROVE Decides(s)
    <3>1. UNCHANGED parsed_vars
      BY <2>3 DEF LeaveApplication
    <3>2. CASE u # s
      BY <1>1, <2>3, <3>1, <3>2, HandledTypes DEF LeaveApplication, HInv
    <3>3. CASE u = s /\ pc[io] = "done"
      <4>1. /\ Http2!SelectionHandled(s, http_code[io]) /\ put_pc[io] = "idle"
            /\ http_code[io] =
                 Abstract!Status(nssf_cfg, RegistrationAlone(asked[s]))
        BY <1>1, <2>3, <3>3, LeaveDecides
      <4>2. Last(computed'[s]) = http_code[io]
        BY <1>1, <3>1, <4>1, HandledTypes DEF HInv
      <4> QED
        BY <4>1, <4>2
    <3>4. CASE u = s /\ pc[io] # "done"
      <4>1. /\ Http2!PutHandled(s, put_code[io])
            /\ put_code[io] = PutStatus(documents[s][arrived'[s]])
            /\ documents[s][arrived'[s]].nfId = request[s].nfId
        BY <1>1, <2>3, <3>4, LeaveDecides
      <4>2. /\ Last(computed'[s]) = put_code[io]
            /\ Last(handled'[s]) = request[s].nfId
        BY <1>1, <3>1, <4>1, HandledTypes DEF HInv
      <4> QED
        BY <3>4, <4>1, <4>2
    <3> QED
      BY <3>2, <3>3, <3>4
  <2> HIDE DEF Decides
  <2>4. ASSUME computed' = computed PROVE Decides(s)
    BY <2>1, <2>4
  <2> QED
    BY <1>1, <2>2, <2>3, <2>4
    DEF Http2ServiceNext, EndCallback, BeginCallback, OpenStream, Http2!Headers,
        AnswerDirectly, CallSelection, CallPut, RunApplication, front_vars,
        http2_service_vars
<1>2. HInv /\ Server!IInv /\ StatusDecided
        /\ [Http2ServiceNext]_http2_service_vars
        => [\A s \in Stream : Decides(s)]_http2_service_vars
  BY <1>1
<1>3. Http2ServiceSpec => []StatusDecided
  BY FrontRunsServices, ServiceRunsSelection, RepliesHaveDecidedStatus, PTL
<1>4. Http2ServiceSpec => [][\A s \in Stream : Decides(s)]_http2_service_vars
  <2> HIDE DEF Decides
  <2> QED
    BY <1>2, <1>3, HInvIsInvariant, ServerIInv, PTL DEF Http2ServiceSpec
<1> QED
  BY <1>4 DEF AnswersAreDecided

-----------------------------------------------------------------------------
(* What the front end promises, kept with the application behind it *)

LEMMA SamePromises ==
  /\ Server!HandledForOwnNf => Http2!HandledForOwnNf
  /\ Server!HandledPerDocument => Http2!HandledPerDocument
  /\ Server!StatusIsComputed => Http2!StatusIsComputed
  /\ Server!AnsweredAtEnd => Http2!AnsweredAtEnd
<1>1. Server!HandledForOwnNf => Http2!HandledForOwnNf
  BY DEF Server!HandledForOwnNf, Http2!HandledForOwnNf
<1>2. Server!HandledPerDocument => Http2!HandledPerDocument
  <2>1. \A s : Server!Parsed(s) = Http2!Parsed(s)
    BY Zenon DEF Server!Parsed, Http2!Parsed
  <2>2. \A r : Server!PutsAvailability(r) <=> Http2!PutsAvailability(r)
    BY DEF Server!PutsAvailability, Http2!PutsAvailability
  <2>3. \A S : Server!Cardinality(S) = Http2!Cardinality(S)
    BY Zenon DEF Server!Cardinality, Http2!Cardinality, Server!IsFiniteSet,
                 Http2!IsFiniteSet
  <2> QED
    BY <2>1, <2>2, <2>3 DEF Server!HandledPerDocument, Http2!HandledPerDocument
<1>3. Server!StatusIsComputed => Http2!StatusIsComputed
  BY DEF Server!StatusIsComputed, Http2!StatusIsComputed, Server!AtAvailability,
         Http2!AtAvailability, Server!AtSelection, Http2!AtSelection,
         Server!Accepts, Http2!Accepts, Server!Unparsable, Http2!Unparsable,
         Server!BAD_REQUEST, Http2!BAD_REQUEST
<1>4. Server!AnsweredAtEnd => Http2!AnsweredAtEnd
  BY DEF Server!AnsweredAtEnd, Http2!AnsweredAtEnd, Server!Answerable,
         Http2!Answerable, Server!AsksSelection, Http2!AsksSelection,
         Server!PutsAvailability, Http2!PutsAvailability
<1> QED
  BY <1>1, <1>2, <1>3, <1>4

(***************************************************************************)
(* The invariants of the front end hold of the whole server: a PUT is      *)
(* handled for its own NF and once for each of its frames that is a        *)
(* document, the first status that counts is the answer, and the same      *)
(* streams are answered.                                                   *)
(***************************************************************************)
THEOREM FrontKeepsPromises ==
  Http2ServiceSpec => [](/\ Http2!HandledForOwnNf /\ Http2!HandledPerDocument
                         /\ Http2!StatusIsComputed /\ Http2!AnsweredAtEnd)
<1>1. Server!Spec => []Server!HandledForOwnNf
  BY Server!PutHandledForItsNf, ServerAssumptions
<1>2. Server!Spec => []Server!HandledPerDocument
  BY Server!OneCallPerDocument, ServerAssumptions
<1>3. Server!Spec => []Server!StatusIsComputed
  BY Server!AnswerIsComputed, ServerAssumptions
<1>4. Server!Spec => []Server!AnsweredAtEnd
  BY Server!AnsweredOrNever, ServerAssumptions
<1> QED
  BY <1>1, <1>2, <1>3, <1>4, SamePromises, FrontRunsServer, PTL

-----------------------------------------------------------------------------
(* What a client is told *)

\* The answer of a selection, and of a PUT, whose first frame decides.
HeadOf(s) ==
  /\ asked[s] # NoQuery =>
       head[s] \in {NoHead, Abstract!Status(nssf_cfg, RegistrationAlone(asked[s]))}
  /\ documents[s] # <<>> =>
       head[s] = IF arrived[s] = 0 THEN NoHead
                 ELSE IF documents[s][1] = NoPut THEN BAD_REQUEST
                 ELSE PutStatus(documents[s][1])

HeadInv == \A s \in Stream : HeadOf(s)

LEMMA ConfigurationStays ==
  ASSUME [ServiceNext]_service_vars
  PROVE  nssf_cfg' = nssf_cfg
  BY SelectionsOnlyRead, PutsOnlyRead
  DEF ServiceNext, ServiceSelect, ServicePut, service_vars, vars, Receive, ReceivePut

\* What is decided for a request stays decided for it.
LEMMA HeadStays ==
  ASSUME nssf_cfg' = nssf_cfg, NEW s \in Stream, HeadOf(s),
         asked'[s] = asked[s], documents'[s] = documents[s],
         head'[s] = head[s], arrived'[s] = arrived[s]
  PROVE  HeadOf(s)'
<1>1. \A r : PutStatus(r)' = PutStatus(r)
  BY DEF PutStatus, SetsNamed
<1>2. \A q : Abstract!Status(nssf_cfg, q)' = Abstract!Status(nssf_cfg, q)
  OBVIOUS
<1> QED
  BY <1>1, <1>2 DEF HeadOf, RegistrationAlone

LEMMA PutStatusType == \A r : PutStatus(r) \in Nat /\ BAD_REQUEST \in Nat
  BY DEF PutStatus, SERVICE_UNAVAILABLE, NO_CONTENT, BAD_REQUEST

\* Asks and Documents tell selections from PUTs.
LEMMA ParsedFrom ==
  ASSUME HInv, NEW s \in Stream, stream[s] = "open"
  PROVE  /\ asked[s] # NoQuery =>
              /\ Http2!AtSelection(s) /\ ~Http2!AtAvailability(s)
              /\ Http2!HandlesSelection(request[s]) /\ Http2!Accepts(request[s])
         /\ documents[s] # <<>> =>
              /\ Http2!AtAvailability(s) /\ ~Http2!AtSelection(s)
              /\ request[s].method = "PUT" /\ request[s].nfId # EmptyNfId
              /\ asked[s] = NoQuery
              /\ \A i \in DOMAIN frames[s] :
                   frames[s][i] = "bad" => documents[s][i] = NoPut
<1>1. ParsedOf(s)
  BY DEF HInv, StreamTypes
<1>2. ASSUME asked[s] # NoQuery
      PROVE  /\ request[s].resource = "network-slice-information"
             /\ request[s].method = "GET"
             /\ Http2!HandlesSelection(request[s]) /\ Http2!Accepts(request[s])
  BY <1>1, <1>2 DEF ParsedOf, Asks
<1>3. ASSUME documents[s] # <<>>
      PROVE  /\ request[s].resource = "nssai-availability/:nfId"
             /\ request[s].method = "PUT" /\ request[s].nfId # EmptyNfId
             /\ \A i \in DOMAIN frames[s] :
                  frames[s][i] = "bad" => documents[s][i] = NoPut
  BY <1>1, <1>3 DEF ParsedOf, Documents
<1> QED
  BY <1>2, <1>3 DEF Http2!AtSelection, Http2!AtAvailability

\* A callback that computes nothing and does not hand a request on.
LEMMA NothingComputed ==
  ASSUME HInv, NEW s \in Stream, computed' = computed
  PROVE  \A code : ~Http2!SelectionHandled(s, code) /\ ~Http2!PutHandled(s, code)
<1> SUFFICES ASSUME NEW code,
                    Http2!SelectionHandled(s, code) \/ Http2!PutHandled(s, code)
             PROVE  FALSE
  OBVIOUS
<1>1. computed' = [computed EXCEPT ![s] = Append(@, code)] /\ code \in Codes
  BY DEF Http2!SelectionHandled, Http2!PutHandled, Http2!AnswerComputed, Codes
<1>2. computed \in [Stream -> Seq(Codes)]
  BY DEF HInv, StreamTypes
<1>3. Len(computed'[s]) = Len(computed[s]) + 1 /\ Len(computed[s]) \in Nat
  BY <1>1, <1>2
<1> QED
  BY <1>3

\* A frame that is no document, or the end of a stream.
LEMMA DirectHead ==
  ASSUME HInv, Server!IInv, NEW s \in Stream, HeadOf(s),
         AnswerDirectly(s), nssf_cfg' = nssf_cfg
  PROVE  HeadOf(s)'
<1>1. /\ Http2!Callback(s) /\ computed' = computed
      /\ asked' = asked /\ documents' = documents
  BY DEF AnswerDirectly, parsed_vars
<1>2. PICK c : Http2!Arrives(s, c)
  BY <1>1, CallbackKeeps DEF HInv
<1>3. stream[s] = "open"
  BY <1>2 DEF Http2!Arrives
<1>4. \A r : PutStatus(r)' = PutStatus(r)
  BY DEF PutStatus, SetsNamed
<1>5. CASE asked[s] # NoQuery
  BY <1>1, <1>3, <1>5, NothingComputed, ParsedFrom
  DEF Http2!Callback, Http2!SelectionRefused, Http2!SelectionUnparsable,
      Http2!get_slice_info_default_handler, Http2!SelectionMethodIgnored,
      Http2!BodyUnparsable, Http2!AvailabilityIgnored, Http2!SubscriptionsIgnored,
      Http2!get_slice_config, Http2!get_api_list, Http2!CustomMethodIgnored,
      Http2!AtSelection, Http2!HandlesSelection
<1>6. CASE documents[s] # <<>>
  <2>1. /\ Http2!AtAvailability(s) /\ ~Http2!AtSelection(s)
        /\ request[s].method = "PUT" /\ request[s].nfId # EmptyNfId
        /\ asked[s] = NoQuery
        /\ \A i \in DOMAIN frames[s] :
             frames[s][i] = "bad" => documents[s][i] = NoPut
    BY <1>3, <1>6, ParsedFrom
  <2>2. /\ frames[s] \in Seq(Server!Data) /\ arrived[s] \in Nat
        /\ arrived \in [Stream -> Nat] /\ head \in [Stream -> Nat \cup {NoHead}]
    BY DEF Server!IInv, Server!TypeOK
  <2>3. CASE Http2!BodyUnparsable(s)
    <3>1. /\ arrived[s] < Len(frames[s]) /\ frames[s][arrived[s] + 1] = "bad"
          /\ arrived'[s] = arrived[s] + 1
      BY <2>2, <2>3 DEF Http2!BodyUnparsable, Http2!Arrives
    <3>2. head'[s] = IF head[s] = NoHead THEN BAD_REQUEST ELSE head[s]
      BY <2>2, <2>3
      DEF Http2!BodyUnparsable, Http2!Answer, Http2!BAD_REQUEST, BAD_REQUEST
    <3>3. CASE arrived[s] = 0
      <4>1. documents[s][1] = NoPut /\ head[s] = NoHead
        BY <1>6, <2>1, <2>2, <3>1, <3>3 DEF HeadOf
      <4> QED
        BY <1>1, <2>1, <3>1, <3>2, <3>3, <4>1 DEF HeadOf
    <3>4. CASE arrived[s] # 0
      <4>1. head[s] = (IF documents[s][1] = NoPut THEN BAD_REQUEST
                       ELSE PutStatus(documents[s][1]))
        BY <1>6, <3>4 DEF HeadOf
      <4>2. head'[s] = head[s] /\ arrived'[s] # 0
        BY <2>2, <3>1, <3>2, <3>4, <4>1, PutStatusType, FrontAssumption
      <4> QED
        BY <1>1, <1>4, <2>1, <4>1, <4>2 DEF HeadOf
    <3> QED
      BY <3>3, <3>4
  <2>4. CASE Http2!AvailabilityIgnored(s)
    <3>1. Http2!Arrives(s, "none") /\ head' = head
      BY <2>1, <2>4 DEF Http2!AvailabilityIgnored
    <3>2. Server!Arrives(s, "none")
      BY <3>1 DEF Http2!Arrives, Server!Arrives
    <3>3. arrived' = arrived
      BY <3>2, Server!ArrivesStep, ServerAssumptions
    <3> QED
      BY <1>1, <3>1, <3>3, HeadStays
  <2> QED
    BY <1>1, <2>1, <2>3, <2>4, NothingComputed
    DEF Http2!Callback, Http2!SelectionRefused, Http2!SelectionUnparsable,
        Http2!get_slice_info_default_handler, Http2!SelectionMethodIgnored,
        Http2!SubscriptionsIgnored, Http2!get_slice_config, Http2!get_api_list,
        Http2!CustomMethodIgnored, Http2!AtSelection, Http2!AtAvailability
<1>7. CASE asked[s] = NoQuery /\ documents[s] = <<>>
  BY <1>1, <1>7 DEF HeadOf
<1> QED
  BY <1>5, <1>6, <1>7

\* The callback leaves the application, and answers if it is the first.
LEMMA LeaveHead ==
  ASSUME HInv, Server!IInv, StatusDecided, NEW s \in Stream, HeadOf(s),
         LeaveApplication(s), nssf_cfg' = nssf_cfg
  PROVE  HeadOf(s)'
<1>1. asked' = asked /\ documents' = documents
  BY DEF LeaveApplication, parsed_vars
<1>2. \A r : PutStatus(r)' = PutStatus(r)
  BY DEF PutStatus, SetsNamed
<1>3. head \in [Stream -> Nat \cup {NoHead}]
  BY DEF Server!IInv, Server!TypeOK
<1>4. CASE pc[io] = "done"
  <2>1. /\ Http2!SelectionHandled(s, http_code[io])
        /\ http_code[io] = Abstract!Status(nssf_cfg, RegistrationAlone(asked[s]))
    BY <1>4, LeaveDecides
  <2>2. /\ stream[s] = "open" /\ Http2!AtSelection(s)
        /\ head'[s] = IF head[s] = NoHead THEN http_code[io] ELSE head[s]
    BY <1>3, <2>1 DEF Http2!SelectionHandled, Http2!Arrives, Http2!AnswerComputed,
                      Http2!Answer
  <2>3. documents[s] = <<>>
    BY <2>2, ParsedFrom
  <2>4. Abstract!Status(nssf_cfg, RegistrationAlone(asked[s]))'
          = Abstract!Status(nssf_cfg, RegistrationAlone(asked[s]))
    BY <1>1 DEF RegistrationAlone
  <2> QED
    BY <1>1, <2>1, <2>2, <2>3, <2>4 DEF HeadOf
<1>5. CASE pc[io] # "done"
  <2>1. /\ Http2!PutHandled(s, put_code[io])
        /\ arrived[s] \in Nat /\ arrived'[s] = arrived[s] + 1
        /\ put_code[io] = PutStatus(documents[s][arrived'[s]])
        /\ documents[s][arrived'[s]] \in Puts
    BY <1>5, LeaveDecides
  <2>2. /\ stream[s] = "open" /\ Http2!AtAvailability(s)
        /\ head'[s] = IF head[s] = NoHead THEN put_code[io] ELSE head[s]
    BY <1>3, <2>1 DEF Http2!PutHandled, Http2!Arrives, Http2!AnswerComputed,
                      Http2!Answer
  <2>3. asked[s] = NoQuery
    BY <2>2, ParsedFrom
  <2>4. CASE arrived[s] = 0
    <3>1. /\ arrived'[s] = 1 /\ documents[s][1] # NoPut
          /\ put_code[io] = PutStatus(documents[s][1])
      BY <2>1, <2>4, NoPutAssumption
    <3>2. documents[s] # <<>> => head'[s] = PutStatus(documents[s][1])
      BY <2>2, <2>4, <3>1 DEF HeadOf
    <3> QED
      BY <1>1, <1>2, <2>3, <3>1, <3>2 DEF HeadOf
  <2>5. CASE arrived[s] # 0
    <3>1. documents[s] # <<>> =>
            head[s] = IF documents[s][1] = NoPut THEN BAD_REQUEST
                      ELSE PutStatus(documents[s][1])
      BY <2>5 DEF HeadOf
    <3>2. documents[s] # <<>> => head'[s] = head[s]
      BY <2>2, <3>1, PutStatusType, FrontAssumption
    <3>3. arrived'[s] # 0
      BY <2>1
    <3> QED
      BY <1>1, <1>2, <2>3, <3>1, <3>2, <3>3 DEF HeadOf
  <2> QED
    BY <2>4, <2>5
<1> QED
  BY <1>4, <1>5

LEMMA HeadStep ==
  HInv /\ Server!IInv /\ StatusDecided /\ HeadInv
    /\ [Http2ServiceNext]_http2_service_vars => HeadInv'
<1> SUFFICES ASSUME HInv, Server!IInv, StatusDecided, HeadInv,
                    [Http2ServiceNext]_http2_service_vars, NEW u \in Stream
             PROVE  HeadOf(u)'
  BY DEF HeadInv
<1>1. nssf_cfg' = nssf_cfg /\ HeadOf(u) /\ StreamTypes
  BY ServiceAct, ConfigurationStays DEF HInv, HeadInv
<1>2. CASE UNCHANGED <<front_vars, parsed_vars>>
  BY <1>1, <1>2, HeadStays DEF front_vars, parsed_vars
<1>3. ASSUME NEW s \in Stream, OpenStream(s) PROVE HeadOf(u)'
  <2>1. /\ stream[s] = "idle" /\ UNCHANGED <<head, arrived>>
        /\ \E q : asked' = [asked EXCEPT ![s] = q]
        /\ \E d : documents' = [documents EXCEPT ![s] = d]
    BY <1>3 DEF OpenStream, Http2!Headers
  <2>2. CASE u = s
    <3>1. head[u] = NoHead /\ arrived[u] = 0
      BY <2>1, <2>2 DEF Server!IInv, Server!StreamInv, Server!IdleOf
    <3> QED
      BY <2>1, <3>1 DEF HeadOf
  <2>3. CASE u # s
    BY <1>1, <2>1, <2>3, HeadStays DEF StreamTypes
  <2> QED
    BY <2>2, <2>3
<1>4. ASSUME NEW s \in Stream, CloseStream(s) PROVE HeadOf(u)'
  <2>1. /\ asked' = [asked EXCEPT ![s] = NoQuery]
        /\ documents' = [documents EXCEPT ![s] = <<>>]
        /\ head' = [head EXCEPT ![s] = NoHead]
        /\ arrived' = [arrived EXCEPT ![s] = 0]
    BY <1>4 DEF CloseStream, Http2!Close
  <2>2. CASE u = s
    <3>1. asked'[u] = NoQuery /\ documents'[u] = <<>>
      BY <1>1, <2>1, <2>2 DEF StreamTypes
    <3> QED
      BY <3>1 DEF HeadOf
  <2>3. CASE u # s
    <3>1. head'[u] = head[u] /\ arrived'[u] = arrived[u]
      BY <2>1, <2>3 DEF Server!IInv, Server!TypeOK
    <3> QED
      BY <1>1, <2>1, <2>3, <3>1, HeadStays DEF StreamTypes
  <2> QED
    BY <2>2, <2>3
<1>5. ASSUME NEW s \in Stream, AnswerDirectly(s) \/ LeaveApplication(s)
      PROVE  HeadOf(u)'
  <2>1. UNCHANGED parsed_vars
    BY <1>5 DEF AnswerDirectly, LeaveApplication
  <2>2. CASE u = s
    BY <1>1, <1>5, <2>2, DirectHead, LeaveHead
  <2>3. CASE u # s
    <3>1. Http2!Callback(s)
      <4>1. CASE AnswerDirectly(s)
        BY <4>1 DEF AnswerDirectly
      <4>2. CASE LeaveApplication(s)
        BY <4>2, LeaveRunsCallback
      <4> QED
        BY <1>5, <4>1, <4>2
    <3>2. Server!OnlyOf(s)
      BY <3>1, SameCallback, Server!CallbackStep, ServerAssumptions
    <3>3. head'[u] = head[u] /\ arrived'[u] = arrived[u]
      BY <2>3, <3>2 DEF Server!OnlyOf, Server!Untouched
    <3> QED
      BY <1>1, <2>1, <3>3, HeadStays DEF parsed_vars
  <2> QED
    BY <2>2, <2>3
<1>6. CASE \/ UNCHANGED http2_service_vars \/ RunApplication
           \/ \E s \in Stream : CallSelection(s) \/ CallPut(s)
  BY <1>2, <1>6 DEF RunApplication, CallSelection, CallPut, http2_service_vars
<1> QED
  BY <1>3, <1>4, <1>5, <1>6 DEF Http2ServiceNext, EndCallback, BeginCallback

LEMMA HeadIsInvariant == Http2ServiceSpec => []HeadInv
<1>1. Http2ServiceInit => HeadInv
  BY DEF Http2ServiceInit, Http2!Init, HeadInv, HeadOf
<1>2. Http2ServiceSpec => []StatusDecided
  BY FrontRunsServices, ServiceRunsSelection, RepliesHaveDecidedStatus, PTL
<1> QED
  BY <1>1, <1>2, HeadStep, HInvIsInvariant, ServerIInv, PTL DEF Http2ServiceSpec

(***************************************************************************)
(* From the configuration to the frames on the wire: a selection is        *)
(* answered with the status that is decided for its own query, a PUT with  *)
(* that of the document in its first frame, or 400 if that frame is none,  *)
(* for any number of streams and whatever is cut, and comes, later.        *)
(***************************************************************************)
THEOREM ClientsAreToldDecisions == Http2ServiceSpec => []HeadIsDecided
<1>1. HeadInv => HeadIsDecided
  BY DEF HeadInv, HeadOf, HeadIsDecided
<1> QED
  BY <1>1, HeadIsInvariant, PTL
=============================================================================

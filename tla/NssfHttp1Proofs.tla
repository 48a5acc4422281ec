-------------------------- MODULE NssfHttp1Proofs --------------------------
(***************************************************************************)
(* The HTTP/1 server with the application behind it: the composition takes *)
(* only steps of the two services and only steps of the front end, so that *)
(* what is proved of each holds of their composition; and what a client is *)
(* sent is the status that its own request determines.                     *)
(***************************************************************************)
EXTENDS NssfHttp1, NssfServiceProofs

\* What is no status.
NoStatus == CHOOSE s : s \notin Nat

\* The front end by itself, with the theorems about it: they do not speak of
\* the HTTP/2 server beside it, whose variables stand for nothing here.
Server == INSTANCE HttpFrontEndsProofs WITH
  Thread <- Worker, NfInstance <- NfId, at <- place, NoHead <- NoStatus,
  MaxFrames <- 1,
  code <- <<>>, stream <- <<>>, frames <- <<>>, arrived <- <<>>, head <- <<>>,
  stream_computed <- <<>>, handled <- <<>>, nfId <- <<>>

\* The variables of the front end are functions of the threads.
FrontFunctions ==
  /\ place = [w \in Worker |-> place[w]]
  /\ request = [w \in Worker |-> request[w]]
  /\ sent = [w \in Worker |-> sent[w]]
  /\ computed = [w \in Worker |-> computed[w]]

\* Where the front end is tells where the application is.
PlacesOf(w) ==
  /\ pc[w] = "idle" \/ put_pc[w] = "idle"
  /\ place[w] \notin {"application", "computed", "returned"} => Free(w)
  /\ place[w] \in {"computed", "returned"} =>
       pc[w] \in {"idle", "done"} /\ put_pc[w] \in {"idle", "done"}

\* What the front end has been told, and tells the client.
StatusesOf(w) ==
  /\ place[w] # "returned" => sent[w] = <<>>
  /\ place[w] \notin {"computed", "returned"} => computed[w] = <<>>
  /\ place[w] = "computed" =>
       computed[w] = <<IF pc[w] = "done" THEN http_code[w] ELSE put_code[w]>>
  /\ place[w] = "returned" /\ pc[w] = "done" => sent[w] = <<http_code[w]>>
  /\ place[w] = "returned" /\ put_pc[w] = "done" => sent[w] = <<put_code[w]>>

\* The application handles the request that the front end has received.
RequestOf(w) ==
  /\ place[w] # "idle" => request[w] \in Requests
  /\ pc[w] # "idle" => Parses(request[w], query[w])
  /\ put_pc[w] # "idle" => put[w].nfId = request[w].nfId

FrontInvOf(w) == PlacesOf(w) /\ StatusesOf(w) /\ RequestOf(w)

FrontInv == FrontFunctions /\ \A w \in Worker : FrontInvOf(w)

HInv == IInv /\ PutIInv /\ FrontInv

-----------------------------------------------------------------------------
(* Steps of the front end *)

LEMMA AppendToEmpty == \A c : Append(<<>>, c) = <<c>> /\ Len(<<c>>) = 1 /\ <<c>>[1] = c
  OBVIOUS

\* The front end has gone on, or has sent a status and returned.
WentOn(w) ==
  /\ place[w] # "computed" /\ place'[w] \notin {"computed", "returned"}
  /\ sent' = sent

SentCode(w, code) ==
  /\ place' = [place EXCEPT ![w] = "returned"]
  /\ sent' = [sent EXCEPT ![w] = Append(@, code)]
  /\ place[w] = "computed" => code = Http1!Last(computed[w])

LEMMA ParseStep ==
  ASSUME FrontFunctions, NEW w \in Worker, RequestOf(w),
         place[w] \notin {"application", "returned"},
         Http1!Handle(w)
  PROVE  /\ UNCHANGED <<request, computed>> /\ place[w] # "idle"
         /\ \E next : place' = [place EXCEPT ![w] = next]
         /\ WentOn(w) \/ \E code : SentCode(w, code)
<1>1. ASSUME NEW code, Http1!Send(w, code), place[w] # "computed"
      PROVE  SentCode(w, code)
  BY <1>1 DEF Http1!Send, SentCode
<1>2. ASSUME NEW next, Http1!GoTo(w, next), place[w] # "computed",
             next \notin {"computed", "returned"}
      PROVE  place' = [place EXCEPT ![w] = next] /\ WentOn(w)
  <2>1. place'[w] = next
    BY <1>2 DEF Http1!GoTo, FrontFunctions
  <2> QED
    BY <1>2, <2>1 DEF Http1!GoTo, WentOn
<1>3. CASE Http1!NotFound(w)
  BY <1>1, <1>3 DEF Http1!NotFound, SentCode
<1>4. CASE \/ Http1!ParseNfType(w) \/ Http1!ParseRegistration(w)
           \/ Http1!ParsePduSession(w)
  <2>0. CASE Http1!ParseNfType(w)
    BY <1>1, <2>0 DEF Http1!ParseNfType, SentCode
  <2>1. CASE Http1!ParseRegistration(w)
    BY <1>1, <1>2, <2>1 DEF Http1!ParseRegistration, Http1!ParsePart, SentCode
  <2>2. CASE Http1!ParsePduSession(w)
    BY <1>1, <1>2, <2>2 DEF Http1!ParsePduSession, Http1!ParsePart, SentCode
  <2> QED
    BY <1>4, <2>0, <2>1, <2>2
<1>5. CASE Http1!ParseUeCu(w)
  <2>1. request[w].ue_cu \in {"none", "good", "bad"}
    BY <1>5, FrontAssumption
    DEF RequestOf, Http1!ParseUeCu, Http1!Request, Http1!Parameter
  <2> QED
    BY <1>1, <1>2, <1>5, <2>1 DEF Http1!ParseUeCu, SentCode
<1>6. CASE Http1!ParseHomePlmn(w) \/ Http1!ParseTai(w)
  BY <1>1, <1>2, <1>6
  DEF Http1!ParseHomePlmn, Http1!ParseTai, Http1!ParseIdentity, SentCode
<1>7. CASE Http1!Selection(w)
  BY <1>1, <1>2, <1>7 DEF Http1!Selection, SentCode
<1>8. CASE Http1!AnswerComputed(w)
  BY <1>8 DEF Http1!AnswerComputed, Http1!Send, SentCode
<1>9. CASE \/ Http1!ParsePut(w) \/ Http1!ParsePatch(w) \/ Http1!ParseModify(w)
           \/ Http1!ParsePost(w)
  BY <1>1, <1>2, <1>9
  DEF Http1!ParsePut, Http1!ParsePatch, Http1!ParseModify, Http1!ParsePost,
      Http1!ParseBody, SentCode
<1>10. CASE \/ Http1!n_ssai_availability_patch(w)
            \/ Http1!n_ssai_availability_delete(w)
            \/ Http1!n_ssai_availability_options(w)
            \/ Http1!n_ssai_availability_post(w)
            \/ Http1!n_ssai_availability_sub_modify_patch(w)
            \/ Http1!n_ssai_availability_unsubscribe(w)
            \/ Http1!nssf_slice_config_get(w) \/ Http1!nssf_slice_config_get_apis(w)
  BY <1>1, <1>10
  DEF Http1!n_ssai_availability_patch, Http1!n_ssai_availability_delete,
      Http1!n_ssai_availability_options, Http1!n_ssai_availability_post,
      Http1!n_ssai_availability_sub_modify_patch,
      Http1!n_ssai_availability_unsubscribe, Http1!nssf_slice_config_get,
      Http1!nssf_slice_config_get_apis, Http1!Operation, SentCode
<1> QED
  BY <1>3, <1>4, <1>5, <1>6, <1>7, <1>8, <1>9, <1>10
  DEF Http1!Handle, Http1!Application, Http1!Return

-----------------------------------------------------------------------------
(* The composition takes steps of the services *)

LEMMA CallsAreFree ==
  ASSUME FrontInv, NEW w \in Worker, place[w] \in {"selection", "put-body"}
  PROVE  Free(w)
  BY DEF FrontInv, FrontInvOf, PlacesOf

LEMMA ServiceAct ==
  ASSUME FrontInv, [Http1ServiceNext]_http1_service_vars
  PROVE  [ServiceNext]_service_vars
<1>1. CASE UNCHANGED http1_service_vars
  BY <1>1 DEF http1_service_vars
<1>2. ASSUME NEW w \in Worker, CallSelection(w) PROVE ServiceNext
  <2>1. Free(w)
    BY <1>2, CallsAreFree DEF CallSelection, Http1!Selection
  <2> QED
    BY <1>2, <2>1 DEF CallSelection, ServiceNext, ServiceSelect
<1>3. ASSUME NEW w \in Worker, CallPut(w) PROVE ServiceNext
  <2>1. Free(w)
    BY <1>3, CallsAreFree DEF CallPut, Http1!ParsePut, Http1!ParseBody
  <2> QED
    BY <1>3, <2>1 DEF CallPut, ServiceNext, ServicePut
<1>4. ASSUME NEW w \in Worker, RunApplication(w) PROVE ServiceNext
  BY <1>4 DEF RunApplication, ServiceNext, ServiceSelect, ServicePut
<1>5. ASSUME NEW w \in Worker, EndRequest(w) PROVE [ServiceNext]_service_vars
  BY <1>5 DEF EndRequest, ServiceNext, ServiceSelect, ServicePut, Serve, HandlePut
<1>6. ASSUME NEW w \in Worker,
             ReceiveRequest(w) \/ ParseRequest(w) \/ LeaveApplication(w)
      PROVE  UNCHANGED service_vars
  BY <1>6 DEF ReceiveRequest, ParseRequest, LeaveApplication
<1> QED
  BY <1>1, <1>2, <1>3, <1>4, <1>5, <1>6 DEF Http1ServiceNext, HandleRequest

-----------------------------------------------------------------------------
(* The invariant *)

UntouchedOf(v) ==
  /\ pc'[v] = pc[v] /\ query'[v] = query[v] /\ http_code'[v] = http_code[v]
  /\ put_pc'[v] = put_pc[v] /\ put'[v] = put[v] /\ put_code'[v] = put_code[v]
  /\ place'[v] = place[v] /\ request'[v] = request[v]
  /\ sent'[v] = sent[v] /\ computed'[v] = computed[v]

LEMMA FrontFrame ==
  ASSUME NEW v \in Worker, FrontInvOf(v), UntouchedOf(v)
  PROVE  FrontInvOf(v)'
  BY DEF FrontInvOf, UntouchedOf, PlacesOf, StatusesOf, RequestOf, Free, Parses

\* Where a step of one thread leaves the others.
LEMMA ServicesOfOthers ==
  ASSUME HInv, NEW w \in Worker, NEW v \in Worker \ {w},
         \/ UNCHANGED service_vars
         \/ Serve(w) /\ UNCHANGED put_only
         \/ (\E q \in Queries : Receive(w, q)) /\ UNCHANGED put_only
         \/ HandlePut(w) /\ UNCHANGED selection_only
         \/ (\E r \in Puts : ReceivePut(w, r)) /\ UNCHANGED selection_only
  PROVE  /\ pc'[v] = pc[v] /\ query'[v] = query[v]
         /\ http_code'[v] = http_code[v] /\ put_pc'[v] = put_pc[v]
         /\ put'[v] = put[v] /\ put_code'[v] = put_code[v]
<1>1. CASE UNCHANGED service_vars
  BY <1>1 DEF service_vars, vars, put_only
<1>2. CASE /\ Serve(w) \/ \E q \in Queries : Receive(w, q)
           /\ UNCHANGED put_only
  <2>1. Untouched(v)
    BY <1>2, OthersUntouched DEF HInv, IInv
  <2> QED
    BY <1>2, <2>1 DEF Untouched, put_only
<1>3. CASE /\ HandlePut(w) \/ \E r \in Puts : ReceivePut(w, r)
           /\ UNCHANGED selection_only
  <2>1. PutUntouched(v)
    BY <1>3, OtherPutsUntouched DEF HInv, PutIInv
  <2> QED
    BY <1>3, <2>1 DEF PutUntouched, selection_only, results
<1> QED
  BY <1>1, <1>2, <1>3

LEMMA StartPlaces ==
  \A route \in Http1!Routes : route[3] \notin {"computed", "returned"}
  BY DEF Http1!Routes, Http1!SelectionRoutes, Http1!NfInstanceRoutes,
         Http1!StoreRoutes, Http1!CollectionRoutes, Http1!SubscriptionRoutes,
         Http1!SliceConfigRoutes

\* What a step of thread w establishes.
Steps(w) ==
  /\ FrontFunctions' /\ FrontInvOf(w)'
  /\ \A v \in Worker \ {w} : UntouchedOf(v)

\* What all steps of one thread share.
LEMMA OwnFrame ==
  ASSUME HInv, NEW w \in Worker,
         \E x : place' = [place EXCEPT ![w] = x],
         request' = request \/ \E x : request' = [request EXCEPT ![w] = x],
         sent' = sent \/ \E x : sent' = [sent EXCEPT ![w] = x],
         computed' = computed \/ \E x : computed' = [computed EXCEPT ![w] = x],
         \/ UNCHANGED service_vars
         \/ Serve(w) /\ UNCHANGED put_only
         \/ (\E q \in Queries : Receive(w, q)) /\ UNCHANGED put_only
         \/ HandlePut(w) /\ UNCHANGED selection_only
         \/ (\E r \in Puts : ReceivePut(w, r)) /\ UNCHANGED selection_only
  PROVE  FrontFunctions' /\ \A v \in Worker \ {w} : UntouchedOf(v)
<1>1. FrontFunctions
  BY DEF HInv, FrontInv
<1>2. FrontFunctions'
  BY <1>1 DEF FrontFunctions
<1>3. ASSUME NEW v \in Worker \ {w} PROVE UntouchedOf(v)
  <2>1. /\ place'[v] = place[v] /\ request'[v] = request[v]
        /\ sent'[v] = sent[v] /\ computed'[v] = computed[v]
    BY <1>1, <1>3 DEF FrontFunctions
  <2> QED
    BY <1>3, <2>1, ServicesOfOthers DEF UntouchedOf
<1> QED
  BY <1>2, <1>3

LEMMA ReceiveRequestStep ==
  ASSUME HInv, NEW w \in Worker, ReceiveRequest(w)
  PROVE  Steps(w)
<1>1. PICK r \in Requests : Http1!Receive(w, r)
  BY DEF ReceiveRequest
<1>2. FrontFunctions /\ FrontInvOf(w)
  BY DEF HInv, FrontInv
<1>3. PICK start : /\ place' = [place EXCEPT ![w] = start]
                   /\ start \notin {"computed", "returned"}
  BY <1>1, StartPlaces DEF Http1!Receive
<1>4. /\ place[w] = "idle" /\ UNCHANGED <<sent, computed>>
      /\ request' = [request EXCEPT ![w] = r]
      /\ UNCHANGED service_vars
  BY <1>1 DEF Http1!Receive, ReceiveRequest
<1>5. /\ pc' = pc /\ put_pc' = put_pc
      /\ pc[w] = "idle" /\ put_pc[w] = "idle"
      /\ sent[w] = <<>> /\ computed[w] = <<>>
  BY <1>2, <1>4
  DEF FrontInvOf, PlacesOf, StatusesOf, Free, service_vars, vars, put_only
<1>6. place'[w] \notin {"computed", "returned"} /\ request'[w] = r
  BY <1>2, <1>3, <1>4 DEF FrontFunctions
<1>7. FrontInvOf(w)'
  BY <1>4, <1>5, <1>6
  DEF FrontInvOf, PlacesOf, StatusesOf, RequestOf, Free
<1> QED
  BY <1>3, <1>4, <1>7, OwnFrame DEF Steps

LEMMA ParseRequestStep ==
  ASSUME HInv, NEW w \in Worker, ParseRequest(w)
  PROVE  Steps(w)
<1>1. FrontFunctions /\ FrontInvOf(w) /\ RequestOf(w)
  BY DEF HInv, FrontInv, FrontInvOf
<1>2. /\ place[w] \notin {"application", "returned"} /\ Http1!Handle(w)
      /\ place'[w] # "application" /\ UNCHANGED service_vars
  BY DEF ParseRequest
<1>3. /\ UNCHANGED <<request, computed>> /\ place[w] # "idle"
      /\ \E next : place' = [place EXCEPT ![w] = next]
      /\ WentOn(w) \/ \E code : SentCode(w, code)
  BY <1>1, <1>2, ParseStep
<1>4. /\ pc' = pc /\ put_pc' = put_pc /\ http_code' = http_code
      /\ put_code' = put_code /\ query' = query /\ put' = put
  BY <1>2 DEF service_vars, vars, put_only
<1>5. sent' = sent \/ \E x : sent' = [sent EXCEPT ![w] = x]
  BY <1>3 DEF WentOn, SentCode
<1>6. RequestOf(w)'
  BY <1>1, <1>3, <1>4 DEF RequestOf, Parses
<1>7. CASE WentOn(w)
  <2>1. pc[w] = "idle" /\ put_pc[w] = "idle"
    BY <1>1, <1>2, <1>7 DEF WentOn, FrontInvOf, PlacesOf, Free
  <2> QED
    BY <1>1, <1>2, <1>3, <1>4, <1>5, <1>6, <1>7, <2>1, OwnFrame
    DEF WentOn, Steps, FrontInvOf, PlacesOf, StatusesOf, Free
<1>8. ASSUME NEW code, SentCode(w, code) PROVE Steps(w)
  <2>1. place'[w] = "returned" /\ sent'[w] = <<code>>
    BY <1>1, <1>2, <1>8, AppendToEmpty
    DEF SentCode, FrontFunctions, FrontInvOf, StatusesOf
  <2>2. CASE place[w] # "computed"
    <3>1. pc[w] = "idle" /\ put_pc[w] = "idle"
      BY <1>1, <1>2, <2>2 DEF FrontInvOf, PlacesOf, Free
    <3>2. PlacesOf(w)' /\ StatusesOf(w)'
      BY <1>4, <2>1, <3>1 DEF PlacesOf, StatusesOf, Free
    <3> QED
      BY <1>2, <1>3, <1>5, <1>6, <3>2, OwnFrame DEF Steps, FrontInvOf
  <2>3. CASE place[w] = "computed"
    <3>1. /\ code = IF pc[w] = "done" THEN http_code[w] ELSE put_code[w]
          /\ pc[w] = "idle" \/ put_pc[w] = "idle"
          /\ pc[w] \in {"idle", "done"} /\ put_pc[w] \in {"idle", "done"}
      BY <1>1, <1>8, <2>3, AppendToEmpty
      DEF SentCode, Http1!Last, FrontInvOf, PlacesOf, StatusesOf
    <3>2. PlacesOf(w)'
      BY <1>4, <2>1, <3>1 DEF PlacesOf
    <3>3. StatusesOf(w)'
      BY <1>4, <2>1, <3>1 DEF StatusesOf
    <3> QED
      BY <1>2, <1>3, <1>5, <1>6, <3>2, <3>3, OwnFrame DEF Steps, FrontInvOf
  <2> QED
    BY <2>2, <2>3
<1> QED
  BY <1>3, <1>7, <1>8

LEMMA CallSelectionStep ==
  ASSUME HInv, NEW w \in Worker, CallSelection(w)
  PROVE  Steps(w)
<1>1. FrontFunctions /\ FrontInvOf(w) /\ TypeOK
  BY DEF HInv, FrontInv, IInv
<1>2. /\ place[w] = "selection" /\ place'[w] = "application"
      /\ UNCHANGED <<request, computed, put_only>>
  BY DEF CallSelection, Http1!Selection
<1>3. place' = [place EXCEPT ![w] = "application"] /\ sent' = sent
  <2>1. \/ \E code : Http1!Send(w, code)
        \/ Http1!GoTo(w, "application")
    BY DEF CallSelection, Http1!Selection
  <2> QED
    BY <1>1, <1>2, <2>1 DEF Http1!Send, Http1!GoTo, FrontFunctions
<1>4. PICK q \in Queries : Parses(request[w], q) /\ Receive(w, q)
  BY DEF CallSelection
<1>5. query'[w] = q /\ pc'[w] = "pdu"
  BY <1>1, <1>4, Http1Assumption DEF Receive, Asked, TypeOK
<1>6. put_pc[w] = "idle" /\ sent[w] = <<>> /\ computed[w] = <<>>
  BY <1>1, <1>2 DEF FrontInvOf, PlacesOf, StatusesOf, Free
<1>7. FrontInvOf(w)'
  <2>1. PlacesOf(w)' /\ StatusesOf(w)'
    BY <1>2, <1>3, <1>6 DEF PlacesOf, StatusesOf, put_only
  <2>2. RequestOf(w)'
    BY <1>1, <1>2, <1>4, <1>5, <1>6
    DEF FrontInvOf, RequestOf, put_only, Parses
  <2> QED
    BY <2>1, <2>2 DEF FrontInvOf
<1> QED
  BY <1>2, <1>3, <1>4, <1>7, OwnFrame DEF Steps

LEMMA CallPutStep ==
  ASSUME HInv, NEW w \in Worker, CallPut(w)
  PROVE  Steps(w)
<1>1. FrontFunctions /\ FrontInvOf(w) /\ PutTypeOK
  BY DEF HInv, FrontInv, PutIInv
<1>2. /\ place[w] = "put-body" /\ place'[w] = "application"
      /\ UNCHANGED <<request, computed, selection_only>>
  BY DEF CallPut, Http1!ParsePut, Http1!ParseBody
<1>3. place' = [place EXCEPT ![w] = "application"] /\ sent' = sent
  <2>1. \/ \E code : Http1!Send(w, code)
        \/ Http1!GoTo(w, "application")
    BY DEF CallPut, Http1!ParsePut, Http1!ParseBody
  <2> QED
    BY <1>1, <1>2, <2>1 DEF Http1!Send, Http1!GoTo, FrontFunctions
<1>4. PICK r \in Puts : r.nfId = request[w].nfId /\ ReceivePut(w, r)
  BY DEF CallPut
<1>5. put'[w] = r
  BY <1>1, <1>4 DEF ReceivePut, PutTypeOK
<1>6. pc[w] = "idle" /\ sent[w] = <<>> /\ computed[w] = <<>>
  BY <1>1, <1>2 DEF FrontInvOf, PlacesOf, StatusesOf, Free
<1>7. FrontInvOf(w)'
  <2>1. PlacesOf(w)' /\ StatusesOf(w)'
    BY <1>2, <1>3, <1>6 DEF PlacesOf, StatusesOf, selection_only
  <2>2. RequestOf(w)'
    BY <1>1, <1>2, <1>4, <1>5, <1>6 DEF FrontInvOf, RequestOf, selection_only
  <2> QED
    BY <2>1, <2>2 DEF FrontInvOf
<1> QED
  BY <1>2, <1>3, <1>4, <1>7, OwnFrame DEF Steps

LEMMA RunApplicationStep ==
  ASSUME HInv, NEW w \in Worker, RunApplication(w)
  PROVE  Steps(w)
<1>1. FrontFunctions /\ FrontInvOf(w)
  BY DEF HInv, FrontInv
<1>2. UNCHANGED <<place, request, sent, computed>>
  BY DEF RunApplication, front_vars
<1>3. \E x : place' = [place EXCEPT ![w] = x]
  BY <1>1, <1>2 DEF FrontFunctions
<1>4. CASE pc[w] # "done" /\ Serve(w) /\ UNCHANGED put_only
  <2>1. pc[w] # "idle" /\ query' = query /\ put_pc' = put_pc
    BY <1>4, ServeKeepsQuery DEF put_only
  <2>2. place[w] = "application" /\ put_pc[w] = "idle"
    BY <1>1, <1>4, <2>1 DEF FrontInvOf, PlacesOf, Free
  <2>3. FrontInvOf(w)'
    BY <1>1, <1>2, <2>1, <2>2
    DEF FrontInvOf, PlacesOf, StatusesOf, RequestOf, Parses
  <2> QED
    BY <1>2, <1>3, <1>4, <2>3, OwnFrame DEF Steps
<1>5. CASE put_pc[w] # "done" /\ HandlePut(w) /\ UNCHANGED selection_only
  <2>1. put_pc[w] # "idle" /\ put' = put /\ pc' = pc
    BY <1>5, HandlePutKeepsPut DEF selection_only, HInv, PutIInv
  <2>2. place[w] = "application" /\ pc[w] = "idle"
    BY <1>1, <1>5, <2>1 DEF FrontInvOf, PlacesOf, Free
  <2>3. FrontInvOf(w)'
    BY <1>1, <1>2, <2>1, <2>2
    DEF FrontInvOf, PlacesOf, StatusesOf, RequestOf
  <2> QED
    BY <1>2, <1>3, <1>5, <2>3, OwnFrame DEF Steps
<1> QED
  BY <1>4, <1>5 DEF RunApplication

LEMMA LeaveApplicationStep ==
  ASSUME HInv, NEW w \in Worker, LeaveApplication(w)
  PROVE  Steps(w)
<1>1. FrontFunctions /\ FrontInvOf(w)
  BY DEF HInv, FrontInv
<1>2. /\ pc' = pc /\ put_pc' = put_pc /\ http_code' = http_code
      /\ put_code' = put_code /\ query' = query /\ put' = put
      /\ UNCHANGED service_vars
  BY DEF LeaveApplication, service_vars, vars, put_only
<1>3. PICK code :
        /\ Http1!Application(w, code)
        /\ \/ pc[w] = "done" /\ code = http_code[w]
           \/ put_pc[w] = "done" /\ code = put_code[w]
  BY DEF LeaveApplication
<1>4. /\ place[w] = "application" /\ UNCHANGED <<request, sent>>
      /\ place' = [place EXCEPT ![w] = "computed"]
      /\ computed' = [computed EXCEPT ![w] = Append(@, code)]
  BY <1>3 DEF Http1!Application
<1>5. /\ sent[w] = <<>> /\ computed[w] = <<>>
      /\ pc[w] = "idle" \/ put_pc[w] = "idle"
  BY <1>1, <1>4 DEF FrontInvOf, PlacesOf, StatusesOf
<1>6. place'[w] = "computed" /\ computed'[w] = <<code>>
  BY <1>1, <1>4, <1>5, AppendToEmpty DEF FrontFunctions
<1>7. FrontInvOf(w)'
  <2>1. PlacesOf(w)'
    BY <1>2, <1>3, <1>5, <1>6 DEF PlacesOf
  <2>2. StatusesOf(w)'
    BY <1>2, <1>3, <1>4, <1>5, <1>6 DEF StatusesOf
  <2>3. RequestOf(w)'
    BY <1>1, <1>2, <1>4 DEF FrontInvOf, RequestOf, Parses
  <2> QED
    BY <2>1, <2>2, <2>3 DEF FrontInvOf
<1> QED
  BY <1>2, <1>4, <1>7, OwnFrame DEF Steps

LEMMA EndRequestStep ==
  ASSUME HInv, NEW w \in Worker, EndRequest(w)
  PROVE  Steps(w)
<1>1. FrontFunctions /\ FrontInvOf(w) /\ TypeOK /\ PutTypeOK
  BY DEF HInv, FrontInv, IInv, PutIInv
<1>2. /\ place[w] = "returned"
      /\ place' = [place EXCEPT ![w] = "idle"]
      /\ request' = [request EXCEPT ![w] = NoRequest]
      /\ sent' = [sent EXCEPT ![w] = <<>>]
      /\ computed' = [computed EXCEPT ![w] = <<>>]
  BY DEF EndRequest, Http1!Return
<1>3. place'[w] = "idle" /\ sent'[w] = <<>> /\ computed'[w] = <<>>
  BY <1>1, <1>2 DEF FrontFunctions
<1>4. pc'[w] = "idle" /\ put_pc'[w] = "idle"
  <2>1. CASE Reply(w) /\ UNCHANGED put_only
    BY <1>1, <2>1 DEF Reply, put_only, TypeOK, FrontInvOf, PlacesOf
  <2>2. CASE ReplyPut(w) /\ UNCHANGED selection_only
    BY <1>1, <2>2 DEF ReplyPut, selection_only, PutTypeOK, FrontInvOf, PlacesOf
  <2>3. CASE Free(w) /\ UNCHANGED service_vars
    BY <2>3 DEF Free, service_vars, vars, put_only
  <2> QED
    BY <2>1, <2>2, <2>3 DEF EndRequest
<1>5. FrontInvOf(w)'
  BY <1>3, <1>4 DEF FrontInvOf, PlacesOf, StatusesOf, RequestOf, Free
<1>6. \/ UNCHANGED service_vars
      \/ Serve(w) /\ UNCHANGED put_only
      \/ HandlePut(w) /\ UNCHANGED selection_only
  BY DEF EndRequest, Serve, HandlePut
<1> QED
  BY <1>2, <1>5, <1>6, OwnFrame DEF Steps

LEMMA InitHInv == Http1ServiceInit => HInv
<1> SUFFICES ASSUME Http1ServiceInit PROVE HInv
  OBVIOUS
<1>1. IInv /\ PutIInv
  BY InitIInv, PutInitIInv DEF Http1ServiceInit, ServiceInit
<1>2. FrontInv
  BY DEF Http1ServiceInit, ServiceInit, Init, PutInit, Http1!Init, FrontInv,
         FrontFunctions, FrontInvOf, PlacesOf, StatusesOf, RequestOf, Free
<1> QED
  BY <1>1, <1>2 DEF HInv

LEMMA HStep == HInv /\ [Http1ServiceNext]_http1_service_vars => HInv'
<1> SUFFICES ASSUME HInv, [Http1ServiceNext]_http1_service_vars PROVE HInv'
  OBVIOUS
<1>1. IInv' /\ PutIInv'
  <2>1. [ServiceNext]_service_vars
    BY ServiceAct DEF HInv
  <2> QED
    BY <2>1, ServiceStep, IInvStep, ServicePutStep, PutStep DEF HInv
<1>2. FrontInv'
  <2>1. ASSUME NEW w \in Worker, Steps(w) PROVE FrontInv'
    BY <2>1, FrontFrame DEF Steps, HInv, FrontInv
  <2>2. CASE Http1ServiceNext
    <3>1. PICK w \in Worker : ReceiveRequest(w) \/ HandleRequest(w)
      BY <2>2 DEF Http1ServiceNext
    <3>2. Steps(w)
      BY <3>1, ReceiveRequestStep, ParseRequestStep, CallSelectionStep,
         CallPutStep, RunApplicationStep, LeaveApplicationStep, EndRequestStep
      DEF HandleRequest
    <3> QED
      BY <2>1, <3>2
  <2>3. CASE UNCHANGED http1_service_vars
    <3>1. FrontFunctions'
      BY <2>3 DEF http1_service_vars, front_vars, HInv, FrontInv, FrontFunctions
    <3>2. ASSUME NEW v \in Worker PROVE UntouchedOf(v)
      BY <2>3 DEF http1_service_vars, front_vars, service_vars, vars, put_only,
                  UntouchedOf
    <3> QED
      BY <3>1, <3>2, FrontFrame DEF HInv, FrontInv
  <2> QED
    BY <2>2, <2>3
<1> QED
  BY <1>1, <1>2 DEF HInv

THEOREM HInvIsInvariant == Http1ServiceSpec => []HInv
  BY InitHInv, HStep, PTL DEF Http1ServiceSpec

-----------------------------------------------------------------------------
(* What the composition inherits *)

(***************************************************************************)
(* With the front end, the threads take only steps of the two services: a  *)
(* thread is never in both, nor in either for two requests at once.        *)
(***************************************************************************)
THEOREM FrontRunsServices == Http1ServiceSpec => ServiceSpec
<1>1. Http1ServiceInit => ServiceInit
  BY DEF Http1ServiceInit
<1>2. HInv /\ [Http1ServiceNext]_http1_service_vars => [ServiceNext]_service_vars
  BY ServiceAct DEF HInv
<1> QED
  BY <1>1, <1>2, HInvIsInvariant, PTL DEF Http1ServiceSpec, ServiceSpec

(***************************************************************************)
(* A selection that a client asks for over HTTP/1 is given the decision    *)
(* that the configuration determines, whatever is put meanwhile.           *)
(***************************************************************************)
THEOREM FrontImplementsAuthorization ==
  Http1ServiceSpec => ServiceImplementsAuthorization
  BY FrontRunsServices, PutsDisturbNoSelection

(***************************************************************************)
(* Behind the front end, the invariants of the two services hold: AMF sets *)
(* are searched to their ends, and PUTs end with the status and the entry  *)
(* that their requests ask for.                                            *)
(***************************************************************************)
THEOREM FrontKeepsServices ==
  Http1ServiceSpec => [](/\ TypeOK /\ ScanIsExhaustive
                         /\ PutTypeOK /\ PutStatusExplained /\ OneEntryPerAmf)
  BY FrontRunsServices, ServiceRunsSelection, TypeCorrect, ScanExhaustive,
     PutTypeCorrect, PutStatusHasCause, PutLeavesOneEntry, PTL

(***************************************************************************)
(* With requests that overlap in threads, each step of a handler brings it *)
(* nearer to its reply.                                                    *)
(***************************************************************************)
THEOREM FrontLoopsEnd == Http1ServiceSpec => HandlersAdvance
  BY FrontRunsServices, LoopsEnd

(***************************************************************************)
(* The statuses that clients are sent are those of their own requests.     *)
(***************************************************************************)
THEOREM ClientsAreSentDecisions == Http1ServiceSpec => []SentIsDecided
<1>1. HInv /\ StatusDecided => SentIsDecided
  <2> SUFFICES ASSUME HInv, StatusDecided, NEW w \in Worker, place[w] = "returned"
               PROVE  /\ pc[w] = "done" =>
                           /\ sent[w] = <<Abstract!Status(nssf_cfg, query[w])>>
                           /\ Parses(request[w], query[w])
                      /\ put_pc[w] = "done" =>
                           /\ sent[w] = <<PutStatus(put[w])>>
                           /\ put[w].nfId = request[w].nfId
    BY DEF SentIsDecided
  <2>1. StatusesOf(w) /\ RequestOf(w)
    BY DEF HInv, FrontInv, FrontInvOf
  <2>2. ASSUME pc[w] = "done"
        PROVE  sent[w] = <<Abstract!Status(nssf_cfg, query[w])>>
    BY <2>1, <2>2 DEF StatusesOf, StatusDecided, DecidedStatus
  <2>3. ASSUME put_pc[w] = "done"
        PROVE  sent[w] = <<PutStatus(put[w])>>
    <3>1. put_code[w] = PutStatus(put[w])
      BY <2>3, PutStatusWhenDone DEF HInv
    <3> QED
      BY <2>1, <2>3, <3>1 DEF StatusesOf
  <2> QED
    BY <2>1, <2>2, <2>3 DEF RequestOf
<1>2. ServiceSpec => []StatusDecided
  BY ServiceRunsSelection, RepliesHaveDecidedStatus, PTL
<1> QED
  BY <1>1, <1>2, FrontRunsServices, HInvIsInvariant, PTL

(***************************************************************************)
(* What a client of the whole server sees are runs of the front end whose  *)
(* application just comes back with some status (the safety part of        *)
(* ImplementsHttp1).                                                       *)
(***************************************************************************)
THEOREM FrontBehavesAsServer == Http1ServiceSpec => Http1!Spec
<1>1. Http1ServiceInit => Http1!Init
  BY DEF Http1ServiceInit
<1>2. [Http1ServiceNext]_http1_service_vars => [Http1!Next]_(Http1!http1_vars)
  <2> SUFFICES ASSUME [Http1ServiceNext]_http1_service_vars
               PROVE  [Http1!Next]_(Http1!http1_vars)
    OBVIOUS
  <2>1. ASSUME NEW w \in Worker, ReceiveRequest(w) PROVE Http1!Next
    BY <2>1 DEF ReceiveRequest, Http1!Next
  <2>2. ASSUME NEW w \in Worker,
               ParseRequest(w) \/ CallSelection(w) \/ CallPut(w) \/ EndRequest(w)
        PROVE  Http1!Next
    BY <2>2 DEF ParseRequest, CallSelection, CallPut, EndRequest, Http1!Next,
                Http1!Handle
  <2>3. ASSUME NEW w \in Worker, LeaveApplication(w) PROVE Http1!Next
    <3>1. PICK code : Http1!Application(w, code)
      BY <2>3 DEF LeaveApplication
    <3>2. code \in Http1!SelectionCode \cup Http1!PutCode
      BY <3>1 DEF Http1!Application
    <3> QED
      BY <3>1, <3>2 DEF Http1!Next, Http1!Handle
  <2>4. ASSUME NEW w \in Worker, RunApplication(w)
        PROVE  UNCHANGED Http1!http1_vars
    BY <2>4 DEF RunApplication, front_vars, Http1!http1_vars
  <2>5. CASE UNCHANGED http1_service_vars
    BY <2>5 DEF http1_service_vars, front_vars, Http1!http1_vars
  <2> QED
    BY <2>1, <2>2, <2>3, <2>4, <2>5 DEF Http1ServiceNext, HandleRequest
<1> QED
  BY <1>1, <1>2, PTL DEF Http1ServiceSpec, Http1!Spec

-----------------------------------------------------------------------------
(* What the front end promises, kept with the application behind it *)

LEMMA ServerAssumptions ==
  /\ Requests \subseteq Server!Request /\ EmptyNfId \notin NfId
  /\ NoRequest \notin Server!Request /\ NoStatus \notin Nat
  BY FrontAssumption, NoSetContainsEverything
  DEF NoStatus, Server!Request, Server!Resource, Server!Parameter, Server!Body,
      Http1!Request, Http1!Resource, Http1!Parameter, Http1!Body

\* The two instances define the same handlers.
LEMMA SameReceive ==
  ASSUME NEW w \in Worker, NEW r \in Requests
  PROVE  Http1!Receive(w, r) <=> Server!Receive(w, r)
<1>1. Http1!Routes = Server!Routes
  BY DEF Http1!Routes, Server!Routes, Http1!SelectionRoutes,
         Server!SelectionRoutes, Http1!NfInstanceRoutes,
         Server!NfInstanceRoutes, Http1!StoreRoutes, Server!StoreRoutes,
         Http1!CollectionRoutes, Server!CollectionRoutes,
         Http1!SubscriptionRoutes, Server!SubscriptionRoutes,
         Http1!SliceConfigRoutes, Server!SliceConfigRoutes
<1>2. ASSUME NEW start PROVE Http1!Routed(r, start) <=> Server!Routed(r, start)
  BY <1>1 DEF Http1!Routed, Server!Routed, Http1!Path, Server!Path
<1> QED
  BY <1>1, <1>2 DEF Http1!Receive, Server!Receive

LEMMA SameHandle ==
  ASSUME NEW w \in Worker
  PROVE  Http1!Handle(w) <=> Server!Handle(w)
<1>1. ASSUME NEW code
      PROVE  /\ Http1!Send(w, code) <=> Server!Send(w, code)
             /\ Http1!GoTo(w, code) <=> Server!GoTo(w, code)
  BY DEF Http1!Send, Server!Send, Http1!GoTo, Server!GoTo
<1>2. /\ Http1!OK = Server!OK /\ Http1!BAD_REQUEST = Server!BAD_REQUEST
      /\ Http1!NOT_FOUND = Server!NOT_FOUND
      /\ Http1!INTERNAL_SERVER_ERROR = Server!INTERNAL_SERVER_ERROR
      /\ Http1!SERVICE_UNAVAILABLE = Server!SERVICE_UNAVAILABLE
      /\ Http1!SelectionCode = Server!SelectionCode
      /\ Http1!PutCode = Server!PutCode
      /\ Http1!Last(computed[w]) = Server!Last(computed[w])
  BY DEF Http1!OK, Server!OK, Http1!BAD_REQUEST, Server!BAD_REQUEST,
         Http1!NOT_FOUND, Server!NOT_FOUND, Http1!INTERNAL_SERVER_ERROR,
         Server!INTERNAL_SERVER_ERROR, Http1!SERVICE_UNAVAILABLE,
         Server!SERVICE_UNAVAILABLE, Http1!SelectionCode,
         Server!SelectionCode, Http1!PutCode, Server!PutCode,
         Http1!NO_CONTENT, Server!NO_CONTENT, Http1!FORBIDDEN,
         Server!FORBIDDEN, Http1!Last, Server!Last
<1>3. /\ Http1!NotFound(w) <=> Server!NotFound(w)
      /\ Http1!AnswerComputed(w) <=> Server!AnswerComputed(w)
      /\ Http1!Return(w) <=> Server!Return(w)
  BY <1>1, <1>2 DEF Http1!NotFound, Server!NotFound, Http1!AnswerComputed,
                        Server!AnswerComputed, Http1!Return, Server!Return
<1>4. /\ Http1!ParseNfType(w) <=> Server!ParseNfType(w)
      /\ Http1!ParseRegistration(w) <=> Server!ParseRegistration(w)
      /\ Http1!ParsePduSession(w) <=> Server!ParsePduSession(w)
      /\ Http1!ParseHomePlmn(w) <=> Server!ParseHomePlmn(w)
      /\ Http1!ParseTai(w) <=> Server!ParseTai(w)
  BY <1>1, <1>2
  DEF Http1!ParseNfType, Server!ParseNfType, Http1!ParseRegistration,
      Server!ParseRegistration, Http1!ParsePduSession, Server!ParsePduSession, Http1!ParseHomePlmn,
      Server!ParseHomePlmn, Http1!ParseTai, Server!ParseTai,
      Http1!ParsePart, Server!ParsePart, Http1!ParseIdentity,
      Server!ParseIdentity
<1>5. Http1!ParseUeCu(w) <=> Server!ParseUeCu(w)
  BY DEF Http1!ParseUeCu, Server!ParseUeCu, Http1!Send, Server!Send,
         Http1!GoTo, Server!GoTo, Http1!NOT_FOUND, Server!NOT_FOUND,
         Http1!INTERNAL_SERVER_ERROR, Server!INTERNAL_SERVER_ERROR
<1>6. Http1!Selection(w) <=> Server!Selection(w)
  BY DEF Http1!Selection, Server!Selection, Http1!Send, Server!Send,
         Http1!GoTo, Server!GoTo, Http1!BAD_REQUEST, Server!BAD_REQUEST,
         Http1!TypeGiven, Server!TypeGiven
<1>7. ASSUME NEW name, NEW validated, NEW next
      PROVE  Http1!ParseBody(w, name, validated, next)
               <=> Server!ParseBody(w, name, validated, next)
  BY DEF Http1!ParseBody, Server!ParseBody, Http1!Send, Server!Send,
         Http1!GoTo, Server!GoTo, Http1!BAD_REQUEST, Server!BAD_REQUEST,
         Http1!INTERNAL_SERVER_ERROR, Server!INTERNAL_SERVER_ERROR
<1>8. ASSUME NEW name, NEW code
      PROVE  Http1!Operation(w, name, code) <=> Server!Operation(w, name, code)
  BY <1>1 DEF Http1!Operation, Server!Operation
<1>9. ASSUME NEW code
      PROVE  Http1!Application(w, code) <=> Server!Application(w, code)
  BY <1>2 DEF Http1!Application, Server!Application
<1> QED
  BY <1>2, <1>3, <1>4, <1>5, <1>6, <1>7, <1>8, <1>9
  DEF Http1!Handle, Server!Handle, Http1!ParsePut, Server!ParsePut,
      Http1!ParsePatch, Server!ParsePatch, Http1!ParseModify,
      Server!ParseModify, Http1!ParsePost, Server!ParsePost,
      Http1!n_ssai_availability_patch, Server!n_ssai_availability_patch,
      Http1!n_ssai_availability_delete,
      Server!n_ssai_availability_delete,
      Http1!n_ssai_availability_options,
      Server!n_ssai_availability_options, Http1!n_ssai_availability_post,
      Server!n_ssai_availability_post,
      Http1!n_ssai_availability_sub_modify_patch,
      Server!n_ssai_availability_sub_modify_patch,
      Http1!n_ssai_availability_unsubscribe,
      Server!n_ssai_availability_unsubscribe,
      Http1!nssf_slice_config_get, Server!nssf_slice_config_get,
      Http1!nssf_slice_config_get_apis,
      Server!nssf_slice_config_get_apis

LEMMA FrontRunsServer == Http1ServiceSpec => Server!Spec
<1>1. Http1!Init => Server!Init
  BY DEF Http1!Init, Server!Init
<1>2. [Http1!Next]_(Http1!http1_vars) => [Server!Next]_(Server!http1_vars)
  <2>1. Http1!Next => Server!Next
    BY SameReceive, SameHandle DEF Http1!Next, Server!Next
  <2> QED
    BY <2>1 DEF Http1!http1_vars, Server!http1_vars
<1> QED
  BY <1>1, <1>2, FrontBehavesAsServer, PTL DEF Http1!Spec, Server!Spec

(***************************************************************************)
(* The invariants of the front end hold of the whole server: a request has *)
(* one response, and the application sees only what was parsed and         *)
(* validated.                                                              *)
(***************************************************************************)
THEOREM FrontKeepsPromises ==
  Http1ServiceSpec => [](Http1!OneResponse /\ Http1!HandledIsParsed)
<1>1. Server!Spec => []Server!OneResponse
  BY Server!OneResponseSent, ServerAssumptions
<1>2. Server!Spec => []Server!HandledIsParsed
  BY Server!OnlyParsedIsHandled, ServerAssumptions
<1>3. /\ Server!OneResponse => Http1!OneResponse
      /\ Server!HandledIsParsed => Http1!HandledIsParsed
  BY DEF Server!OneResponse, Http1!OneResponse, Server!HandledIsParsed,
         Http1!HandledIsParsed, Http1!TypeGiven, Server!TypeGiven
<1> QED
  BY <1>1, <1>2, <1>3, FrontRunsServer, PTL
=============================================================================

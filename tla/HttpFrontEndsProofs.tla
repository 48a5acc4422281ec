------------------------ MODULE HttpFrontEndsProofs ------------------------
(***************************************************************************)
(* Proofs about Http1Server and about the two front ends side by side:     *)
(* where a thread is in its handler, and a stream in its frames, tells     *)
(* what has been parsed, computed and sent, for any number of them.        *)
(***************************************************************************)
EXTENDS HttpFrontEnds, SequenceTheorems, TLAPS

\* The handlers that have nothing more to parse.
Operations == {"patch", "modify", "post", "delete", "options", "unsubscribe",
               "slice-config", "apis"}

IsSelection(r) == r.resource = "network-slice-information"
IsPut(r) == /\ r.resource = "nssai-availability/:nfId"
            /\ r.nfId # EmptyNfId

\* The parts of a selection that have been parsed at a place.
ParsedAt(place, r) ==
  /\ place \in {"reg", "pdu", "ue-cu", "home", "tai", "selection"} => IsSelection(r)
  /\ place \in {"pdu", "ue-cu", "home", "tai", "selection"} => r.reg # "bad"
  /\ place \in {"ue-cu", "home", "tai", "selection"} => r.pdu # "bad"
  /\ place \in {"home", "tai", "selection"} => r.ue_cu = "none"
  /\ place = "put-body" => IsPut(r)

\* What the application is given.
Handled(r) ==
  \/ IsPut(r) /\ r.body = "good"
  \/ /\ IsSelection(r)
     /\ TypeGiven(r) /\ r.ue_cu = "none"
     /\ "bad" \notin {r.reg, r.pdu} /\ "good" \in {r.reg, r.pdu}

\* What is known of a thread that is at a place in its handler.
PlaceOf(t) ==
  /\ at[t] = "idle" => sent[t] = <<>> /\ computed[t] = <<>>
  /\ at[t] # "idle" => request[t] \in Requests
  /\ at[t] \notin {"idle", "returned"} => sent[t] = <<>>
  /\ at[t] \notin {"computed", "returned"} => computed[t] = <<>>
  /\ ParsedAt(at[t], request[t])
  /\ at[t] \in {"application", "computed"} => Handled(request[t])
  /\ at[t] = "computed" => Len(computed[t]) = 1
  /\ at[t] = "returned" =>
       /\ Len(sent[t]) = 1
       /\ computed[t] # <<>> => sent[t] = computed[t] /\ Handled(request[t])

IInv == TypeOK /\ \A t \in Thread : PlaceOf(t)

-----------------------------------------------------------------------------
(* Routing *)

Starts == {"reg", "put-body", "patch-body", "modify-body", "post-body",
           "delete", "options", "unsubscribe", "slice-config", "apis"}

LEMMA RouteStarts == \A route \in Routes : route[3] \in Starts
<1> SUFFICES ASSUME NEW route \in Routes PROVE route[3] \in Starts
  OBVIOUS
<1>1. CASE route \in SelectionRoutes
  BY <1>1 DEF SelectionRoutes, Starts
<1>2. CASE route \in NfInstanceRoutes
  BY <1>2 DEF NfInstanceRoutes, Starts
<1>3. CASE route \in StoreRoutes \/ route \in CollectionRoutes
  BY <1>3 DEF StoreRoutes, CollectionRoutes, Starts
<1>4. CASE route \in SubscriptionRoutes
  BY <1>4 DEF SubscriptionRoutes, Starts
<1>5. CASE route \in SliceConfigRoutes
  BY <1>5 DEF SliceConfigRoutes, Starts
<1> QED
  BY <1>1, <1>2, <1>3, <1>4, <1>5 DEF Routes

\* A handler is started only by the requests that it is for.
LEMMA RoutedRight ==
  ASSUME NEW r \in Request
  PROVE  /\ Routed(r, "reg") => IsSelection(r)
         /\ Routed(r, "put-body") => IsPut(r)
<1>1. ASSUME Routed(r, "reg") PROVE Path(r) = "network-slice-information"
  BY <1>1
  DEF Routed, Routes, SelectionRoutes, NfInstanceRoutes, StoreRoutes,
      CollectionRoutes, SubscriptionRoutes, SliceConfigRoutes
<1>2. ASSUME Routed(r, "put-body") PROVE Path(r) = "nssai-availability/:nfId"
  BY <1>2
  DEF Routed, Routes, SelectionRoutes, NfInstanceRoutes, StoreRoutes,
      CollectionRoutes, SubscriptionRoutes, SliceConfigRoutes
<1> QED
  BY <1>1, <1>2 DEF Path, IsSelection, IsPut

\* Where a request that is received starts.
LEMMA ReceiveStarts ==
  ASSUME TypeOK, NEW t \in Thread, NEW r \in Requests, Receive(t, r)
  PROVE  \E start \in Starts \cup {"no-route"} :
           /\ at' = [at EXCEPT ![t] = start]
           /\ start \in {"reg", "put-body"} => Routed(r, start)
<1>1. PICK start \in {route[3] : route \in Routes} \cup {"no-route"} :
        /\ IF start = "no-route" THEN ~\E route \in Routes : Routed(r, route[3])
                                 ELSE Routed(r, start)
        /\ at' = [at EXCEPT ![t] = start]
  BY DEF Receive
<1>2. start \in Starts \cup {"no-route"}
  BY RouteStarts
<1> QED
  BY <1>1, <1>2

-----------------------------------------------------------------------------
(* Steps *)

LEMMA StatusTypes ==
  /\ {OK, BAD_REQUEST, NOT_FOUND, INTERNAL_SERVER_ERROR, SERVICE_UNAVAILABLE,
      0} \subseteq Nat
  /\ SelectionCode \cup PutCode \subseteq Nat
  BY DEF OK, NO_CONTENT, BAD_REQUEST, FORBIDDEN, NOT_FOUND,
         INTERNAL_SERVER_ERROR, SERVICE_UNAVAILABLE, SelectionCode, PutCode

\* A handler that sends and returns, with what it is known to be.
LEMMA SendStep ==
  ASSUME IInv, NEW t \in Thread, NEW c \in Nat, Send(t, c),
         at[t] \notin {"idle", "returned"},
         computed[t] # <<>> => at[t] = "computed" /\ c = Last(computed[t]),
         UNCHANGED <<request, computed>>
  PROVE  TypeOK' /\ PlaceOf(t)'
<1>1. TypeOK /\ PlaceOf(t)
  BY DEF IInv
<1>2. /\ at' = [at EXCEPT ![t] = "returned"] /\ at'[t] = "returned"
      /\ sent' = [sent EXCEPT ![t] = Append(@, c)]
      /\ sent'[t] = <<c>>
      /\ request' = request /\ computed' = computed
  BY <1>1 DEF Send, TypeOK, PlaceOf
<1>3. TypeOK'
  BY <1>1, <1>2 DEF TypeOK
<1>4. computed[t] # <<>> => computed[t] = <<c>>
  <2>1. computed[t] \in Seq(SelectionCode \cup PutCode)
    BY <1>1 DEF TypeOK
  <2>2. SUFFICES ASSUME computed[t] # <<>> PROVE computed[t] = <<c>>
    OBVIOUS
  <2>3. Len(computed[t]) = 1 /\ c = computed[t][1]
    BY <1>1, <2>1, <2>2 DEF PlaceOf, Last
  <2> QED
    BY <2>1, <2>3
<1>5. PlaceOf(t)'
  BY <1>1, <1>2, <1>4 DEF PlaceOf, ParsedAt
<1> QED
  BY <1>3, <1>5

\* A handler that goes on to a place, with what it knows there.
LEMMA GoToStep ==
  ASSUME IInv, NEW t \in Thread, NEW place \in Places, GoTo(t, place),
         at[t] \notin {"idle", "returned", "computed"}, place # "computed",
         ParsedAt(place, request[t]),
         place = "application" => Handled(request[t]),
         UNCHANGED <<request, computed>>
  PROVE  TypeOK' /\ PlaceOf(t)'
<1>1. TypeOK /\ PlaceOf(t)
  BY DEF IInv
<1>2. /\ at' = [at EXCEPT ![t] = place] /\ at'[t] = place
      /\ sent' = sent /\ request' = request /\ computed' = computed
  BY <1>1 DEF GoTo, TypeOK
<1>3. TypeOK'
  BY <1>1, <1>2 DEF TypeOK
<1>4. place \notin {"idle", "returned"}
  BY DEF Places
<1>5. PlaceOf(t)'
  BY <1>1, <1>2, <1>4 DEF PlaceOf
<1> QED
  BY <1>3, <1>5

LEMMA ReceiveStep ==
  ASSUME IInv, NEW t \in Thread, NEW r \in Requests, Receive(t, r)
  PROVE  TypeOK' /\ PlaceOf(t)'
<1>1. TypeOK /\ PlaceOf(t) /\ r \in Request
  BY RequestsAssumption DEF IInv
<1>2. PICK start \in Starts \cup {"no-route"} :
        /\ at' = [at EXCEPT ![t] = start]
        /\ start \in {"reg", "put-body"} => Routed(r, start)
  BY <1>1, ReceiveStarts
<1>3. /\ at[t] = "idle" /\ at'[t] = start
      /\ request' = [request EXCEPT ![t] = r] /\ request'[t] = r
      /\ UNCHANGED <<sent, computed>>
  BY <1>1, <1>2 DEF Receive, TypeOK
<1>4. start \in Places
  BY <1>2 DEF Starts, Places
<1>5. TypeOK'
  BY <1>1, <1>2, <1>3, <1>4 DEF TypeOK
<1>6. ParsedAt(start, r)
  BY <1>1, <1>2, RoutedRight DEF Starts, ParsedAt
<1>7. PlaceOf(t)'
  BY <1>1, <1>2, <1>3, <1>6 DEF PlaceOf, Starts
<1> QED
  BY <1>5, <1>7

\* The parameters and the body of a request that a thread handles.
LEMMA RequestType ==
  ASSUME IInv, NEW t \in Thread, at[t] # "idle"
  PROVE  /\ {request[t].reg, request[t].pdu, request[t].ue_cu} \subseteq Parameter
         /\ request[t].body \in Body
<1>1. request[t] \in Request
  BY RequestsAssumption DEF IInv, PlaceOf
<1> QED
  BY <1>1 DEF Request

LEMMA ParameterStep ==
  ASSUME IInv, NEW t \in Thread,
         \/ ParseNfType(t) \/ ParseRegistration(t) \/ ParsePduSession(t)
         \/ ParseUeCu(t) \/ ParseHomePlmn(t) \/ ParseTai(t)
  PROVE  TypeOK' /\ PlaceOf(t)'
<1>1. PlaceOf(t)
  BY DEF IInv
<1>2. at[t] \in {"reg", "pdu", "ue-cu", "home", "tai"} /\ UNCHANGED <<request, computed>>
  BY DEF ParseNfType, ParseRegistration, ParsePduSession, ParsePart, ParseUeCu,
         ParseHomePlmn, ParseTai, ParseIdentity
<1>3. request[t].ue_cu \in {"none", "good", "bad"}
  BY <1>2, RequestType DEF Parameter
<1>4. CASE \E c \in {INTERNAL_SERVER_ERROR, NOT_FOUND} : Send(t, c)
  <2>1. computed[t] = <<>>
    BY <1>1, <1>2 DEF PlaceOf
  <2> QED
    BY <1>2, <1>4, <2>1, SendStep, StatusTypes
<1>5. CASE \E place \in {"pdu", "ue-cu", "home", "tai", "selection"} :
             GoTo(t, place) /\ ParsedAt(place, request[t])
  BY <1>2, <1>5, GoToStep DEF Places
<1>6. ASSUME ParseNfType(t) \/ ParseRegistration(t) \/ ParsePduSession(t)
      PROVE  \/ Send(t, INTERNAL_SERVER_ERROR)
             \/ \E place \in {"pdu", "ue-cu"} :
                  GoTo(t, place) /\ ParsedAt(place, request[t])
  BY <1>1, <1>6 DEF ParseNfType, ParseRegistration, ParsePduSession, ParsePart,
                    PlaceOf, ParsedAt
<1>7. ASSUME ParseUeCu(t)
      PROVE  \/ \E c \in {INTERNAL_SERVER_ERROR, NOT_FOUND} : Send(t, c)
             \/ GoTo(t, "home") /\ ParsedAt("home", request[t])
  BY <1>1, <1>3, <1>7 DEF ParseUeCu, PlaceOf, ParsedAt
<1>8. ASSUME ParseHomePlmn(t) \/ ParseTai(t)
      PROVE  \/ Send(t, INTERNAL_SERVER_ERROR)
             \/ \E place \in {"tai", "selection"} :
                  GoTo(t, place) /\ ParsedAt(place, request[t])
  BY <1>1, <1>8 DEF ParseHomePlmn, ParseTai, ParseIdentity, PlaceOf, ParsedAt
<1> QED
  BY <1>4, <1>5, <1>6, <1>7, <1>8

LEMMA BodyStep ==
  ASSUME IInv, NEW t \in Thread,
         ParsePut(t) \/ ParsePatch(t) \/ ParseModify(t) \/ ParsePost(t)
  PROVE  TypeOK' /\ PlaceOf(t)'
<1>1. PlaceOf(t)
  BY DEF IInv
<1>2. PICK name \in {"put-body", "patch-body", "modify-body", "post-body"},
           validated \in BOOLEAN, next \in {"application", "patch", "modify", "post"} :
        /\ ParseBody(t, name, validated, next)
        /\ next = "application" => name = "put-body" /\ validated
  BY DEF ParsePut, ParsePatch, ParseModify, ParsePost
<1>3. at[t] = name /\ UNCHANGED <<request, computed>>
  BY <1>2 DEF ParseBody
<1>4. computed[t] = <<>>
  BY <1>1, <1>2, <1>3 DEF PlaceOf
<1>5. CASE \E c \in {BAD_REQUEST, INTERNAL_SERVER_ERROR} : Send(t, c)
  BY <1>2, <1>3, <1>4, <1>5, SendStep, StatusTypes
<1>6. CASE GoTo(t, next) /\ request[t].body \notin {"none", "bad"}
             /\ ~(request[t].body = "invalid" /\ validated)
  <2>1. ParsedAt(next, request[t]) /\ next \in Places
    BY <1>2 DEF ParsedAt, Places
  <2>2. request[t].body \in {"none", "good", "invalid", "bad"}
    BY <1>2, <1>3, RequestType DEF Body
  <2>3. next = "application" => Handled(request[t])
    BY <1>1, <1>2, <1>3, <1>6, <2>2 DEF PlaceOf, ParsedAt, Handled
  <2> QED
    BY <1>2, <1>3, <1>6, <2>1, <2>3, GoToStep
<1> QED
  BY <1>2, <1>5, <1>6 DEF ParseBody

LEMMA SelectionStep ==
  ASSUME IInv, NEW t \in Thread, Selection(t)
  PROVE  TypeOK' /\ PlaceOf(t)'
<1>1. PlaceOf(t) /\ at[t] = "selection" /\ UNCHANGED <<request, computed>>
  BY DEF IInv, Selection
<1>2. computed[t] = <<>>
  BY <1>1 DEF PlaceOf
<1>3. CASE \E c \in {BAD_REQUEST, 0} : Send(t, c)
  BY <1>1, <1>2, <1>3, SendStep, StatusTypes
<1>4. CASE GoTo(t, "application") /\ TypeGiven(request[t])
             /\ "good" \in {request[t].reg, request[t].pdu}
  <2>1. ParsedAt("application", request[t]) /\ Handled(request[t])
    BY <1>1, <1>4 DEF PlaceOf, ParsedAt, Handled
  <2> QED
    BY <1>1, <1>4, <2>1, GoToStep DEF Places
<1> QED
  BY <1>3, <1>4 DEF Selection

LEMMA ApplicationStep ==
  ASSUME IInv, NEW t \in Thread, NEW c, Application(t, c)
  PROVE  TypeOK' /\ PlaceOf(t)'
<1>1. TypeOK /\ PlaceOf(t) /\ at[t] = "application"
  BY DEF IInv, Application
<1>2. c \in SelectionCode \cup PutCode
  BY DEF Application
<1>3. /\ at' = [at EXCEPT ![t] = "computed"] /\ at'[t] = "computed"
      /\ computed' = [computed EXCEPT ![t] = Append(@, c)]
      /\ computed'[t] = <<c>>
      /\ UNCHANGED <<request, sent>>
  BY <1>1 DEF Application, TypeOK, PlaceOf
<1>4. TypeOK'
  <2> DEFINE Codes == SelectionCode \cup PutCode
  <2>2. computed' \in [Thread -> Seq(Codes)]
    <3>1. computed \in [Thread -> Seq(Codes)] /\ c \in Codes
      BY <1>1, <1>2 DEF TypeOK
    <3> HIDE DEF Codes
    <3>2. Append(computed[t], c) \in Seq(Codes)
      BY <3>1
    <3> QED
      BY <1>3, <3>1, <3>2
  <2>3. \A u \in Thread : Len(computed'[u]) <= 1
    <3>1. Len(<<c>>) <= 1
      OBVIOUS
    <3>2. \A u \in Thread \ {t} : computed'[u] = computed[u]
      BY <1>1, <1>3 DEF TypeOK
    <3> QED
      BY <1>1, <1>3, <3>1, <3>2 DEF TypeOK
  <2>4. at' \in [Thread -> {"idle", "returned"} \cup Places]
    BY <1>1, <1>3 DEF TypeOK, Places
  <2> QED
    BY <1>1, <1>3, <2>2, <2>3, <2>4 DEF TypeOK
<1>5. PlaceOf(t)'
  BY <1>1, <1>3 DEF PlaceOf, ParsedAt
<1> QED
  BY <1>4, <1>5

LEMMA AnswerStep ==
  ASSUME IInv, NEW t \in Thread, NotFound(t) \/ AnswerComputed(t)
  PROVE  TypeOK' /\ PlaceOf(t)'
<1>1. TypeOK /\ PlaceOf(t)
  BY DEF IInv
<1>2. CASE NotFound(t)
  <2>1. computed[t] = <<>>
    BY <1>1, <1>2 DEF PlaceOf, NotFound
  <2> QED
    BY <1>2, <2>1, SendStep, StatusTypes DEF NotFound
<1>3. CASE AnswerComputed(t)
  <2>1. computed[t] \in Seq(SelectionCode \cup PutCode) /\ Len(computed[t]) = 1
    BY <1>1, <1>3 DEF TypeOK, PlaceOf, AnswerComputed
  <2>2. Last(computed[t]) \in Nat
    BY <2>1, StatusTypes DEF Last
  <2> QED
    BY <1>3, <2>2, SendStep DEF AnswerComputed
<1> QED
  BY <1>2, <1>3

LEMMA OperationStep ==
  ASSUME IInv, NEW t \in Thread, NEW name \in Operations,
         NEW c \in {OK, SERVICE_UNAVAILABLE}, Operation(t, name, c)
  PROVE  TypeOK' /\ PlaceOf(t)'
<1>1. PlaceOf(t) /\ at[t] = name /\ Send(t, c) /\ UNCHANGED <<request, computed>>
  BY DEF IInv, Operation
<1>2. name \notin {"idle", "returned", "computed"}
  BY DEF Operations
<1>3. computed[t] = <<>>
  BY <1>1, <1>2 DEF PlaceOf
<1> QED
  BY <1>1, <1>2, <1>3, SendStep, StatusTypes

LEMMA ReturnStep ==
  ASSUME IInv, NEW t \in Thread, Return(t)
  PROVE  TypeOK' /\ PlaceOf(t)'
<1>1. TypeOK
  BY DEF IInv
<1>2. TypeOK'
  BY <1>1 DEF TypeOK, Return
<1>3. /\ at'[t] = "idle" /\ sent'[t] = <<>> /\ computed'[t] = <<>>
  BY <1>1 DEF TypeOK, Return
<1>4. PlaceOf(t)'
  BY <1>3 DEF PlaceOf, ParsedAt
<1> QED
  BY <1>2, <1>4

LEMMA HandleStep ==
  ASSUME IInv, NEW t \in Thread, Handle(t)
  PROVE  TypeOK' /\ PlaceOf(t)'
<1>1. CASE \E name \in Operations : \E c \in {OK, SERVICE_UNAVAILABLE} :
             Operation(t, name, c)
  BY <1>1, OperationStep
<1>2. ASSUME \/ n_ssai_availability_patch(t) \/ n_ssai_availability_delete(t)
             \/ n_ssai_availability_options(t) \/ n_ssai_availability_post(t)
             \/ n_ssai_availability_sub_modify_patch(t)
             \/ n_ssai_availability_unsubscribe(t)
             \/ nssf_slice_config_get(t) \/ nssf_slice_config_get_apis(t)
      PROVE  \E name \in Operations : \E c \in {OK, SERVICE_UNAVAILABLE} :
               Operation(t, name, c)
  BY <1>2
  DEF n_ssai_availability_patch, n_ssai_availability_delete,
      n_ssai_availability_options, n_ssai_availability_post,
      n_ssai_availability_sub_modify_patch, n_ssai_availability_unsubscribe,
      nssf_slice_config_get, nssf_slice_config_get_apis, Operations
<1> QED
  BY <1>1, <1>2, ParameterStep, BodyStep, SelectionStep, ApplicationStep,
     AnswerStep, ReturnStep
  DEF Handle

-----------------------------------------------------------------------------
(* Threads *)

Untouched(u) ==
  /\ at'[u] = at[u] /\ request'[u] = request[u]
  /\ sent'[u] = sent[u] /\ computed'[u] = computed[u]

\* A thread has its own request: no other one reaches it.
LEMMA OthersUntouched ==
  ASSUME IInv, NEW t \in Thread, NEW u \in Thread, u # t,
         Handle(t) \/ \E r \in Requests : Receive(t, r)
  PROVE  Untouched(u)
<1>0. TypeOK
  BY DEF IInv
<1> USE <1>0 DEF TypeOK, Untouched
<1>1. CASE \E r \in Requests : Receive(t, r)
  BY <1>1 DEF Receive
<1>2. CASE \/ ParseNfType(t) \/ ParseRegistration(t) \/ ParsePduSession(t)
           \/ ParseHomePlmn(t) \/ ParseTai(t)
  BY <1>2 DEF ParseNfType, ParseRegistration, ParsePduSession, ParsePart,
              ParseHomePlmn, ParseTai, ParseIdentity, GoTo, Send
<1>6. CASE ParseUeCu(t) \/ Selection(t)
  <2>1. UNCHANGED <<request, computed>>
    BY <1>6 DEF ParseUeCu, Selection
  <2>2. ASSUME NEW place, GoTo(t, place) PROVE Untouched(u)
    BY <2>1, <2>2 DEF GoTo
  <2>3. ASSUME NEW c, Send(t, c) PROVE Untouched(u)
    BY <2>1, <2>3 DEF Send
  <2>4. ASSUME Selection(t) PROVE Untouched(u)
    BY <2>2, <2>3, <2>4 DEF Selection
  <2>5. ASSUME ParseUeCu(t) PROVE Untouched(u)
    <3>1. at[t] # "idle"
      BY <2>5 DEF ParseUeCu
    <3>2. request[t].ue_cu \in {"none", "good", "bad"}
      BY <3>1, RequestType DEF Parameter
    <3> QED
      BY <2>2, <2>3, <2>5, <3>2 DEF ParseUeCu
  <2> QED
    BY <1>6, <2>4, <2>5
<1>3. CASE ParsePut(t) \/ ParsePatch(t) \/ ParseModify(t) \/ ParsePost(t)
  BY <1>3 DEF ParsePut, ParsePatch, ParseModify, ParsePost, ParseBody, GoTo, Send
<1>4. CASE \/ \E c \in SelectionCode \cup PutCode : Application(t, c)
           \/ AnswerComputed(t) \/ NotFound(t) \/ Return(t)
  BY <1>4 DEF Application, AnswerComputed, NotFound, Return, Send
<1>5. CASE \/ n_ssai_availability_patch(t) \/ n_ssai_availability_delete(t)
           \/ n_ssai_availability_options(t) \/ n_ssai_availability_post(t)
           \/ n_ssai_availability_sub_modify_patch(t)
           \/ n_ssai_availability_unsubscribe(t)
           \/ nssf_slice_config_get(t) \/ nssf_slice_config_get_apis(t)
  BY <1>5
  DEF n_ssai_availability_patch, n_ssai_availability_delete,
      n_ssai_availability_options, n_ssai_availability_post,
      n_ssai_availability_sub_modify_patch, n_ssai_availability_unsubscribe,
      nssf_slice_config_get, nssf_slice_config_get_apis, Operation, Send
<1> QED
  BY <1>1, <1>2, <1>3, <1>4, <1>5, <1>6 DEF Handle

LEMMA InitIInv == Init => IInv
  BY DEF Init, IInv, TypeOK, PlaceOf, ParsedAt

LEMMA Step == IInv /\ [Next]_http1_vars => IInv'
<1> SUFFICES ASSUME IInv, [Next]_http1_vars PROVE IInv'
  OBVIOUS
<1>1. CASE UNCHANGED http1_vars
  BY <1>1 DEF http1_vars, IInv, TypeOK, PlaceOf, ParsedAt
<1>2. ASSUME NEW t \in Thread, Handle(t) \/ \E r \in Requests : Receive(t, r)
      PROVE  IInv'
  <2>1. TypeOK' /\ PlaceOf(t)'
    BY <1>2, HandleStep, ReceiveStep
  <2>2. ASSUME NEW u \in Thread, u # t PROVE PlaceOf(u)'
    <3>1. Untouched(u) /\ PlaceOf(u)
      BY <1>2, <2>2, OthersUntouched DEF IInv
    <3> QED
      BY <3>1 DEF Untouched, PlaceOf, ParsedAt
  <2> QED
    BY <2>1, <2>2 DEF IInv
<1> QED
  BY <1>1, <1>2 DEF Next

THEOREM IInvIsInvariant == Spec => []IInv
  BY InitIInv, Step, PTL DEF Spec

-----------------------------------------------------------------------------
(* What the invariant is for *)

\* The variables of the server keep their types, and one call per request.
THEOREM TypeCorrect == Spec => []TypeOK
<1>1. IInv => TypeOK
  BY DEF IInv
<1> QED
  BY <1>1, IInvIsInvariant, PTL

(***************************************************************************)
(* A handler sends exactly one response, on each of its paths, for every   *)
(* request and any number of threads.                                      *)
(***************************************************************************)
THEOREM OneResponseSent == Spec => []OneResponse
<1>1. IInv => OneResponse
  <2> SUFFICES ASSUME IInv, NEW t \in Thread
               PROVE  /\ Len(sent[t]) <= 1
                      /\ at[t] = "returned" => Len(sent[t]) = 1
    BY DEF OneResponse
  <2>1. PlaceOf(t)
    BY DEF IInv
  <2>2. CASE at[t] = "returned"
    <3>1. Len(sent[t]) = 1
      BY <2>1, <2>2 DEF PlaceOf
    <3> QED
      BY <3>1
  <2>3. CASE at[t] # "returned"
    <3>1. sent[t] = <<>>
      BY <2>1, <2>3 DEF PlaceOf
    <3> QED
      BY <2>3, <3>1
  <2> QED
    BY <2>2, <2>3
<1> QED
  BY <1>1, IInvIsInvariant, PTL

(***************************************************************************)
(* The application sees only what was parsed and validated, and what it    *)
(* computes is what is sent.                                               *)
(***************************************************************************)
THEOREM OnlyParsedIsHandled == Spec => []HandledIsParsed
<1>1. IInv => HandledIsParsed
  <2> SUFFICES ASSUME IInv, NEW t \in Thread, computed[t] # <<>>
               PROVE  /\ sent[t] # <<>> => sent[t] = computed[t]
                      /\ Handled(request[t])
    BY DEF HandledIsParsed, Handled, IsPut, IsSelection
  <2>1. PlaceOf(t)
    BY DEF IInv
  <2>2. at[t] \in {"computed", "returned"}
    BY <2>1 DEF PlaceOf
  <2> QED
    BY <2>1, <2>2 DEF PlaceOf
<1> QED
  BY <1>1, IInvIsInvariant, PTL

-----------------------------------------------------------------------------
(* The two front ends side by side *)

\* What both servers are to answer.
Expected(t) == IF IsPut(request[t]) /\ request[t].body = "bad"
               THEN BAD_REQUEST ELSE code[t]

\* What is known of a stream, whatever its request is.
StreamOf(t) ==
  /\ code[t] \in Nat
  /\ stream_computed[t] \in Seq(Nat)
  /\ stream[t] \in {"idle", "open", "ended"}
  /\ at[t] = "idle" => stream[t] = "idle"
  /\ stream[t] = "idle" => head[t] = NoHead /\ arrived[t] = 0
  /\ stream[t] # "idle" => frames[t] \in Two!Framings(request[t].body)

\* Where the thread of a request that both versions support may be.
OneOf(t) ==
  /\ at[t] \in {"reg", "pdu", "ue-cu", "home", "tai", "selection", "put-body",
                "application", "computed", "returned"}
  /\ at[t] = "computed" => computed[t] = <<code[t]>>
  /\ at[t] = "returned" => sent[t] = <<Expected(t)>>

\* What its stream has been answered.
TwoOf(t) ==
  /\ head[t] \in {NoHead, Expected(t)}
  /\ stream[t] = "ended" => head[t] = Expected(t)
  /\ IsPut(request[t]) =>
       /\ frames[t] = <<request[t].body>> /\ arrived[t] \in {0, 1}
       /\ arrived[t] = 1 => head[t] = Expected(t)

BothOf(t) == stream[t] # "idle" /\ Supported(request[t], frames[t]) =>
               OneOf(t) /\ TwoOf(t)

FrontTypes ==
  /\ code = [t \in Thread |-> code[t]]
  /\ stream = [t \in Thread |-> stream[t]]
  /\ frames = [t \in Thread |-> frames[t]]
  /\ arrived = [t \in Thread |-> arrived[t]]
  /\ head = [t \in Thread |-> head[t]]
  /\ stream_computed = [t \in Thread |-> stream_computed[t]]

FrontInv ==
  /\ IInv /\ FrontTypes
  /\ \A t \in Thread : StreamOf(t) /\ BothOf(t)

\* The HTTP/1 server of the two is the one that Http1Server describes.
LEMMA FrontTakesSteps ==
  [FrontNext]_<<http1_vars, vars2, code>> => [Next]_http1_vars
<1>1. ASSUME NEW t \in Thread, Ask(t) \/ HandleOne(t) \/ Done(t)
      PROVE  Handle(t) \/ \E r \in Requests : Receive(t, r)
  BY <1>1 DEF Ask, HandleOne, Done, Handle
<1>2. ASSUME NEW t \in Thread, HandleTwo(t) PROVE UNCHANGED http1_vars
  BY <1>2 DEF HandleTwo
<1> QED
  BY <1>1, <1>2 DEF FrontNext, Next

THEOREM FrontRunsHttp1 == FrontSpec => Spec
<1>1. FrontInit => Init
  BY DEF FrontInit
<1> QED
  BY <1>1, FrontTakesSteps, PTL DEF FrontSpec, Spec

\* Requests that both versions support, by what is asked.
LEMMA SupportedRight ==
  ASSUME NEW r, NEW f, Supported(r, f)
  PROVE  /\ \/ /\ IsSelection(r) /\ r.method = "GET" /\ ~IsPut(r)
               /\ r.nf_type \in {"AMF", "NSSF"} /\ r.ue_cu = "none"
               /\ {r.reg, r.pdu} = {"good", "none"}
               /\ r.home # "bad" /\ r.tai # "bad"
            \/ /\ IsPut(r) /\ r.method = "PUT" /\ ~IsSelection(r)
               /\ r.body \in {"good", "bad"} /\ Len(f) = 1
         /\ HasPattern(r)
  BY DEF Supported, PutsAvailability, IsSelection, IsPut, HasPattern

\* A stream of another client is not touched.
FrontUntouched(u) ==
  /\ Untouched(u) /\ code'[u] = code[u]
  /\ stream'[u] = stream[u] /\ frames'[u] = frames[u]
  /\ arrived'[u] = arrived[u] /\ head'[u] = head[u]
  /\ stream_computed'[u] = stream_computed[u]

LEMMA UntouchedStays ==
  ASSUME NEW u \in Thread, StreamOf(u), BothOf(u), FrontUntouched(u)
  PROVE  StreamOf(u)' /\ BothOf(u)'
  BY DEF FrontUntouched, Untouched, StreamOf, BothOf, OneOf, TwoOf, Expected

\* What any callback does to the stream it is called for.
CallbackOf(t) ==
  \E d \in Body :
    /\ Two!Arrives(t, d)
    /\ \/ UNCHANGED head
       \/ \E c \in Nat : Two!Answer(t, c)
    /\ stream_computed' = stream_computed
         \/ \E c \in SelectionCode \cup PutCode :
              stream_computed' = [stream_computed EXCEPT ![t] = Append(@, c)]

\* The data that the instance of the HTTP/2 server has for its own.
LEMMA SameData ==
  /\ Two!SelectionCode = SelectionCode /\ Two!PutCode = PutCode
  /\ Two!BAD_REQUEST = BAD_REQUEST /\ Two!OK = OK /\ Two!Data = Body
  BY DEF Two!SelectionCode, Two!PutCode, Two!BAD_REQUEST, Two!OK, Two!Data,
         Two!Body, Two!NO_CONTENT, Two!FORBIDDEN, Two!SERVICE_UNAVAILABLE,
         SelectionCode, PutCode, BAD_REQUEST, OK, Body, NO_CONTENT, FORBIDDEN,
         SERVICE_UNAVAILABLE

LEMMA CallbackDoes ==
  ASSUME NEW t \in Thread, Two!Callback(t) PROVE CallbackOf(t)
<1> USE SameData
<1>1. /\ OK \in Nat /\ BAD_REQUEST \in Nat
      /\ {"good", "invalid", "bad"} \subseteq Body
      /\ SelectionCode \cup PutCode \subseteq Nat
  BY StatusTypes DEF Body
<1>2. ASSUME NEW c \in SelectionCode \cup PutCode,
             Two!SelectionHandled(t, c) \/ Two!PutHandled(t, c)
      PROVE  CallbackOf(t)
  BY <1>1, <1>2 DEF Two!SelectionHandled, Two!PutHandled, Two!AnswerComputed,
                    CallbackOf
<1>3. CASE Two!SelectionRefused(t) \/ Two!SelectionUnparsable(t)
  BY <1>1, <1>3 DEF Two!SelectionRefused, Two!SelectionUnparsable, CallbackOf
<1>4. CASE Two!BodyUnparsable(t) \/ Two!get_api_list(t)
  BY <1>1, <1>4 DEF Two!BodyUnparsable, Two!get_api_list, CallbackOf
<1>5. CASE Two!get_slice_info_default_handler(t)
           \/ Two!SelectionMethodIgnored(t)
  BY <1>5 DEF Two!get_slice_info_default_handler, Two!SelectionMethodIgnored,
              CallbackOf
<1>6. CASE Two!AvailabilityIgnored(t) \/ Two!SubscriptionsIgnored(t)
  BY <1>6 DEF Two!AvailabilityIgnored, Two!SubscriptionsIgnored, CallbackOf
<1>7. CASE Two!get_slice_config(t) \/ Two!CustomMethodIgnored(t)
  BY <1>7 DEF Two!get_slice_config, Two!CustomMethodIgnored, CallbackOf
<1> QED
  BY <1>2, <1>3, <1>4, <1>5, <1>6, <1>7 DEF Two!Callback

-----------------------------------------------------------------------------
(* A client asks, and is done *)

\* A request that both versions support comes to its handler.
LEMMA SupportedStarts ==
  ASSUME TypeOK, NEW t \in Thread, NEW r \in Requests, NEW f,
         Supported(r, f), Receive(t, r)
  PROVE  at'[t] \in {"reg", "put-body"}
<1>1. PICK start \in {route[3] : route \in Routes} \cup {"no-route"} :
        /\ IF start = "no-route" THEN ~\E route \in Routes : Routed(r, route[3])
                                 ELSE Routed(r, start)
        /\ at' = [at EXCEPT ![t] = start]
  BY DEF Receive
<1>2. CASE IsSelection(r) /\ r.method = "GET"
  <2>1. Path(r) = "network-slice-information"
    BY <1>2 DEF Path, IsSelection
  <2>2. <<"network-slice-information", "GET", "reg">> \in Routes
    BY DEF Routes, SelectionRoutes
  <2>3. start # "no-route"
    BY <1>1, <1>2, <2>1, <2>2 DEF Routed
  <2>4. start = "reg"
    BY <1>1, <1>2, <2>1, <2>3
    DEF Routed, Routes, SelectionRoutes, NfInstanceRoutes, StoreRoutes,
        CollectionRoutes, SubscriptionRoutes, SliceConfigRoutes
  <2> QED
    BY <1>1, <2>4 DEF TypeOK
<1>3. CASE IsPut(r) /\ r.method = "PUT"
  <2>1. Path(r) = "nssai-availability/:nfId"
    BY <1>3 DEF Path, IsPut
  <2>2. <<"nssai-availability/:nfId", "PUT", "put-body">> \in Routes
    BY DEF Routes, NfInstanceRoutes
  <2>3. start # "no-route"
    BY <1>1, <1>3, <2>1, <2>2 DEF Routed
  <2>4. start = "put-body"
    BY <1>1, <1>3, <2>1, <2>3
    DEF Routed, Routes, SelectionRoutes, NfInstanceRoutes, StoreRoutes,
        CollectionRoutes, SubscriptionRoutes, SliceConfigRoutes
  <2> QED
    BY <1>1, <2>4 DEF TypeOK
<1> QED
  BY <1>2, <1>3, SupportedRight

LEMMA AskStep ==
  ASSUME FrontInv, NEW t \in Thread, Ask(t)
  PROVE  FrontTypes' /\ StreamOf(t)' /\ BothOf(t)'
<1>1. PICK r \in Requests :
        /\ Receive(t, r)
        /\ IF HasPattern(r)
             THEN \E f \in Two!Framings(r.body) : Two!Headers(t, r, f)
             ELSE UNCHANGED vars2
        /\ \E c \in IF r.resource = "network-slice-information"
                    THEN SelectionCode ELSE PutCode :
             code' = [code EXCEPT ![t] = c]
  BY DEF Ask
<1>2. /\ TypeOK /\ FrontTypes /\ StreamOf(t) /\ at[t] = "idle"
      /\ request' = [request EXCEPT ![t] = r] /\ request'[t] = r
  BY <1>1 DEF FrontInv, IInv, Receive, TypeOK
<1>3. code'[t] \in Nat /\ code' = [u \in Thread |-> code'[u]]
  BY <1>1, <1>2, StatusTypes DEF FrontTypes
<1>4. stream[t] = "idle" /\ head[t] = NoHead /\ arrived[t] = 0
  BY <1>2 DEF StreamOf
<1>5. at'[t] # "idle"
  <2>1. PICK start \in Starts \cup {"no-route"} : at' = [at EXCEPT ![t] = start]
    BY <1>1, <1>2, ReceiveStarts
  <2> QED
    BY <1>2, <2>1 DEF TypeOK, Starts
<1>6. CASE ~HasPattern(r)
  BY <1>1, <1>2, <1>3, <1>4, <1>5, <1>6 DEF vars2, FrontTypes, StreamOf, BothOf
<1>7. CASE HasPattern(r)
  <2>1. PICK f \in Two!Framings(r.body) : Two!Headers(t, r, f)
    BY <1>1, <1>7
  <2>2. /\ stream' = [stream EXCEPT ![t] = "open"] /\ stream'[t] = "open"
        /\ frames' = [frames EXCEPT ![t] = f] /\ frames'[t] = f
        /\ UNCHANGED <<arrived, head, stream_computed>>
    BY <1>2, <2>1 DEF Two!Headers, FrontTypes
  <2>3. FrontTypes' /\ StreamOf(t)'
    BY <1>2, <1>3, <1>4, <1>5, <2>1, <2>2 DEF FrontTypes, StreamOf
  <2>4. ASSUME Supported(r, f) PROVE (OneOf(t) /\ TwoOf(t))'
    <3>1. at'[t] \in {"reg", "put-body"}
      BY <1>1, <1>2, <2>4, SupportedStarts
    <3>2. IsPut(r) => f = <<r.body>>
      <4>1. IsPut(r) => r.body \in {"good", "bad"} /\ Len(f) = 1
        BY <2>4, SupportedRight DEF IsPut, IsSelection
      <4>2. ASSUME IsPut(r) PROVE f = <<r.body>>
        <5> DEFINE Given == {"good", "bad", r.body}
        <5>1. r.body # "none" /\ Len(f) = 1
          BY <4>1, <4>2
        <5>2. PICK n \in 1 .. MaxFrames : f \in [1 .. n -> Given]
          BY <2>1, <5>1 DEF Two!Framings
        <5>3. f[1] = r.body
          BY <2>1, <5>1 DEF Two!Framings, Two!IsCut
        <5> HIDE DEF Given
        <5>4. n = 1
          BY <5>1, <5>2, FrontFramesAssumption
        <5> QED
          BY <5>2, <5>3, <5>4
      <4> QED
        BY <4>2
    <3> QED
      BY <1>2, <1>4, <2>2, <3>1, <3>2 DEF OneOf, TwoOf
  <2> QED
    BY <1>2, <2>2, <2>3, <2>4 DEF BothOf
<1> QED
  BY <1>6, <1>7

LEMMA DoneStep ==
  ASSUME FrontInv, NEW t \in Thread, Done(t)
  PROVE  FrontTypes' /\ StreamOf(t)' /\ BothOf(t)'
<1>1. /\ FrontTypes /\ StreamOf(t) /\ TypeOK
      /\ at' = [at EXCEPT ![t] = "idle"] /\ code' = [code EXCEPT ![t] = 0]
  BY DEF FrontInv, IInv, Done, Return
<1>2. CASE Two!Close(t)
  <2>1. /\ stream' = [stream EXCEPT ![t] = "idle"]
        /\ head' = [head EXCEPT ![t] = NoHead]
        /\ frames' = [frames EXCEPT ![t] = <<>>]
        /\ arrived' = [arrived EXCEPT ![t] = 0]
        /\ stream_computed' = [stream_computed EXCEPT ![t] = <<>>]
    BY <1>2 DEF Two!Close
  <2>2. /\ stream'[t] = "idle" /\ stream_computed'[t] = <<>>
        /\ head'[t] = NoHead /\ arrived'[t] = 0 /\ code'[t] = 0
    BY <1>1, <2>1 DEF FrontTypes
  <2>3. FrontTypes'
    BY <1>1, <2>1 DEF FrontTypes
  <2> QED
    BY <2>2, <2>3 DEF StreamOf, BothOf
<1>3. CASE stream[t] = "idle" /\ UNCHANGED vars2
  BY <1>1, <1>3 DEF vars2, FrontTypes, StreamOf, BothOf, TypeOK
<1> QED
  BY <1>2, <1>3 DEF Done

-----------------------------------------------------------------------------
(* The thread of the HTTP/1 server *)

\* A step of a thread of the HTTP/1 server, for a request of both.
LEMMA OneStep ==
  ASSUME FrontInv, NEW t \in Thread, HandleOne(t), OneOf(t),
         Supported(request[t], frames[t])
  PROVE  OneOf(t)'
<1>1. /\ TypeOK /\ PlaceOf(t) /\ FrontTypes /\ code' = code /\ frames' = frames
      /\ at[t] # "returned" /\ Handle(t)
      /\ computed'[t] \in {computed[t], Append(computed[t], code[t])}
  BY DEF FrontInv, IInv, HandleOne, vars2
<1>2. /\ at[t] \in {"reg", "pdu", "ue-cu", "home", "tai", "selection",
                    "put-body", "application", "computed"}
      /\ sent[t] = <<>>
  BY <1>1 DEF OneOf, PlaceOf
<1>3. ASSUME NEW place \in {"pdu", "ue-cu", "home", "tai", "selection",
                            "application"}, GoTo(t, place)
      PROVE  OneOf(t)'
  <2>1. at'[t] = place
    BY <1>1, <1>3 DEF GoTo, TypeOK
  <2> QED
    BY <2>1 DEF OneOf
<1>4. ASSUME NEW c, Send(t, c), c = Expected(t), request' = request
      PROVE  OneOf(t)'
  <2>1. at'[t] = "returned" /\ sent'[t] = <<c>>
    BY <1>1, <1>2, <1>4 DEF Send, TypeOK
  <2>2. Expected(t)' = Expected(t)
    BY <1>1, <1>4 DEF Expected
  <2> QED
    BY <1>4, <2>1, <2>2 DEF OneOf
<1>5. CASE ParseNfType(t) \/ ParseRegistration(t) \/ ParsePduSession(t)
  <2>1. IsSelection(request[t])
    BY <1>1, <1>5 DEF ParseNfType, ParseRegistration, ParsePduSession, ParsePart,
                      PlaceOf, ParsedAt
  <2>2. request[t].nf_type # "bad" /\ request[t].reg # "bad" /\ request[t].pdu # "bad"
    BY <2>1, SupportedRight
  <2> QED
    BY <1>3, <1>5, <2>2 DEF ParseNfType, ParseRegistration, ParsePduSession, ParsePart
<1>6. CASE ParseUeCu(t)
  <2>1. IsSelection(request[t])
    BY <1>1, <1>6 DEF ParseUeCu, PlaceOf, ParsedAt
  <2>2. request[t].ue_cu = "none"
    BY <2>1, SupportedRight
  <2> QED
    BY <1>3, <1>6, <2>2 DEF ParseUeCu
<1>7. CASE ParseHomePlmn(t) \/ ParseTai(t)
  <2>1. IsSelection(request[t])
    BY <1>1, <1>7 DEF ParseHomePlmn, ParseTai, ParseIdentity, PlaceOf, ParsedAt
  <2>2. request[t].home # "bad" /\ request[t].tai # "bad"
    BY <2>1, SupportedRight
  <2> QED
    BY <1>3, <1>7, <2>2 DEF ParseHomePlmn, ParseTai, ParseIdentity
<1>8. CASE Selection(t)
  <2>1. IsSelection(request[t])
    BY <1>1, <1>8 DEF Selection, PlaceOf, ParsedAt
  <2>2. /\ TypeGiven(request[t])
        /\ "good" \in {request[t].reg, request[t].pdu}
    BY <2>1, SupportedRight DEF TypeGiven
  <2> QED
    BY <1>3, <1>8, <2>2 DEF Selection
<1>9. CASE \E c \in SelectionCode \cup PutCode : Application(t, c)
  <2>1. PICK c \in SelectionCode \cup PutCode : Application(t, c)
    BY <1>9
  <2>2. computed[t] = <<>>
    BY <1>1, <2>1 DEF Application, PlaceOf
  <2>3. at'[t] = "computed" /\ computed'[t] = Append(computed[t], c)
    BY <1>1, <2>1 DEF Application, TypeOK
  <2>4. computed'[t] = <<c>>
    BY <2>2, <2>3
  <2>5. computed'[t] = <<code[t]>>
    <3>1. computed'[t] \in {<<>>, Append(<<>>, code[t])}
      BY <1>1, <2>2
    <3>2. Append(<<>>, code[t]) = <<code[t]>> /\ <<c>> # <<>>
      OBVIOUS
    <3> QED
      BY <2>4, <3>1, <3>2
  <2> QED
    BY <1>1, <2>3, <2>5 DEF OneOf
<1>10. CASE AnswerComputed(t)
  <2>1. at[t] = "computed" /\ Send(t, Last(computed[t])) /\ request' = request
    BY <1>10 DEF AnswerComputed
  <2>2. Last(computed[t]) = code[t]
    <3>1. computed[t] = <<code[t]>>
      BY <2>1 DEF OneOf
    <3>2. Len(computed[t]) = 1 /\ computed[t][1] = code[t]
      BY <3>1
    <3> QED
      BY <3>2 DEF Last
  <2>3. Handled(request[t])
    BY <1>1, <2>1 DEF PlaceOf
  <2>4. code[t] = Expected(t)
    BY <2>3 DEF Handled, Expected, IsPut, IsSelection
  <2> QED
    BY <1>4, <2>1, <2>2, <2>4
<1>11. CASE ParsePut(t)
  <2>1. at[t] = "put-body" /\ IsPut(request[t])
    BY <1>1, <1>11 DEF ParsePut, ParseBody, PlaceOf, ParsedAt
  <2>2. request[t].body \in {"good", "bad"}
    BY <2>1, SupportedRight
  <2>3. CASE request[t].body = "good"
    BY <1>3, <1>11, <2>3 DEF ParsePut, ParseBody
  <2>4. CASE request[t].body = "bad"
    <3>1. Send(t, BAD_REQUEST) /\ request' = request
      BY <1>11, <2>4 DEF ParsePut, ParseBody
    <3> QED
      BY <1>4, <2>1, <2>4, <3>1 DEF Expected
  <2> QED
    BY <2>2, <2>3, <2>4
<1>12. ~(ParsePatch(t) \/ ParseModify(t) \/ ParsePost(t) \/ NotFound(t)
         \/ Return(t))
  BY <1>2 DEF ParsePatch, ParseModify, ParsePost, ParseBody, NotFound, Return
<1>13. ~(\/ n_ssai_availability_patch(t) \/ n_ssai_availability_delete(t)
         \/ n_ssai_availability_options(t) \/ n_ssai_availability_post(t)
         \/ n_ssai_availability_sub_modify_patch(t)
         \/ n_ssai_availability_unsubscribe(t)
         \/ nssf_slice_config_get(t) \/ nssf_slice_config_get_apis(t))
  BY <1>2
  DEF n_ssai_availability_patch, n_ssai_availability_delete,
      n_ssai_availability_options, n_ssai_availability_post,
      n_ssai_availability_sub_modify_patch, n_ssai_availability_unsubscribe,
      nssf_slice_config_get, nssf_slice_config_get_apis, Operation
<1> QED
  BY <1>1, <1>5, <1>6, <1>7, <1>8, <1>9, <1>10, <1>11, <1>12, <1>13 DEF Handle

\* A handler that has not returned keeps its request.
LEMMA HandlerStays ==
  ASSUME TypeOK, NEW t \in Thread, Handle(t), at[t] # "returned",
         at[t] # "idle" => request[t] \in Requests
  PROVE  request' = request /\ at[t] # "idle" /\ at'[t] # "idle"
<1>1. ASSUME NEW place, place # "idle", GoTo(t, place) PROVE at'[t] # "idle"
  BY <1>1 DEF GoTo, TypeOK
<1>2. ASSUME NEW c, Send(t, c) PROVE at'[t] # "idle"
  BY <1>2 DEF Send, TypeOK
<1>3. CASE \/ ParseNfType(t) \/ ParseRegistration(t) \/ ParsePduSession(t)
           \/ ParseHomePlmn(t) \/ ParseTai(t)
  BY <1>1, <1>2, <1>3 DEF ParseNfType, ParseRegistration, ParsePduSession,
                          ParsePart, ParseHomePlmn, ParseTai, ParseIdentity
<1>4. CASE ParseUeCu(t)
  <2>1. at[t] # "idle"
    BY <1>4 DEF ParseUeCu
  <2>2. request[t].ue_cu \in {"none", "good", "bad"}
    BY <2>1, RequestsAssumption DEF Request, Parameter
  <2> QED
    BY <1>1, <1>2, <1>4, <2>2 DEF ParseUeCu
<1>5. CASE Selection(t) \/ AnswerComputed(t) \/ NotFound(t)
  BY <1>1, <1>2, <1>5 DEF Selection, AnswerComputed, NotFound
<1>6. CASE \E c \in SelectionCode \cup PutCode : Application(t, c)
  BY <1>6 DEF Application, TypeOK
<1>7. CASE ParsePut(t) \/ ParsePatch(t) \/ ParseModify(t) \/ ParsePost(t)
  BY <1>1, <1>2, <1>7 DEF ParsePut, ParsePatch, ParseModify, ParsePost, ParseBody
<1>8. CASE \/ n_ssai_availability_patch(t) \/ n_ssai_availability_delete(t)
           \/ n_ssai_availability_options(t) \/ n_ssai_availability_post(t)
           \/ n_ssai_availability_sub_modify_patch(t)
           \/ n_ssai_availability_unsubscribe(t)
           \/ nssf_slice_config_get(t) \/ nssf_slice_config_get_apis(t)
  BY <1>2, <1>8
  DEF n_ssai_availability_patch, n_ssai_availability_delete,
      n_ssai_availability_options, n_ssai_availability_post,
      n_ssai_availability_sub_modify_patch, n_ssai_availability_unsubscribe,
      nssf_slice_config_get, nssf_slice_config_get_apis, Operation
<1>9. ~Return(t)
  BY DEF Return
<1> QED
  BY <1>3, <1>4, <1>5, <1>6, <1>7, <1>8, <1>9 DEF Handle

LEMMA HandleOneStep ==
  ASSUME FrontInv, NEW t \in Thread, HandleOne(t)
  PROVE  FrontTypes' /\ StreamOf(t)' /\ BothOf(t)'
<1>1. FrontTypes /\ StreamOf(t) /\ BothOf(t) /\ UNCHANGED <<vars2, code>>
  BY DEF FrontInv, HandleOne
<1>2. request' = request /\ at[t] # "idle" /\ at'[t] # "idle"
  <2>1. /\ TypeOK /\ at[t] # "returned" /\ Handle(t)
        /\ at[t] # "idle" => request[t] \in Requests
    BY DEF FrontInv, IInv, PlaceOf, HandleOne
  <2> QED
    BY <2>1, HandlerStays
<1>3. FrontTypes' /\ StreamOf(t)'
  BY <1>1, <1>2 DEF FrontTypes, StreamOf, vars2
<1>4. TwoOf(t) => TwoOf(t)'
  BY <1>1, <1>2 DEF TwoOf, Expected, vars2
<1>5. BothOf(t)'
  BY <1>1, <1>2, <1>4, OneStep DEF BothOf, vars2
<1> QED
  BY <1>3, <1>5

-----------------------------------------------------------------------------
(* The callbacks of the stream of the HTTP/2 server *)

\* What a callback keeps, for any request.
LEMMA CallbackTypes ==
  ASSUME FrontInv, NEW t \in Thread, HandleTwo(t)
  PROVE  FrontTypes' /\ StreamOf(t)'
<1>1. /\ FrontTypes /\ StreamOf(t) /\ CallbackOf(t)
      /\ UNCHANGED <<http1_vars, code>>
  BY CallbackDoes DEF FrontInv, HandleTwo
<1>2. PICK d \in Body :
        /\ Two!Arrives(t, d)
        /\ UNCHANGED head \/ \E c \in Nat : Two!Answer(t, c)
        /\ stream_computed' = stream_computed
             \/ \E c \in SelectionCode \cup PutCode :
                  stream_computed' = [stream_computed EXCEPT ![t] = Append(@, c)]
  BY <1>1 DEF CallbackOf
<1>3. /\ stream[t] = "open" /\ stream'[t] \in {"open", "ended"}
      /\ stream' = [u \in Thread |-> stream'[u]]
      /\ arrived' = [u \in Thread |-> arrived'[u]]
      /\ frames' = frames /\ request' = request
  BY <1>1, <1>2 DEF Two!Arrives, FrontTypes
<1>4. head' = [u \in Thread |-> head'[u]]
  BY <1>1, <1>2 DEF Two!Answer, FrontTypes
<1>5. /\ stream_computed' = [u \in Thread |-> stream_computed'[u]]
      /\ stream_computed'[t] \in Seq(Nat)
  <2>1. stream_computed[t] \in Seq(Nat)
        /\ stream_computed = [u \in Thread |-> stream_computed[u]]
    BY <1>1 DEF FrontTypes, StreamOf
  <2>2. ASSUME NEW c \in SelectionCode \cup PutCode,
               stream_computed' = [stream_computed EXCEPT ![t] = Append(@, c)]
        PROVE  /\ stream_computed' = [u \in Thread |-> stream_computed'[u]]
               /\ stream_computed'[t] \in Seq(Nat)
    <3>1. c \in Nat
      BY StatusTypes
    <3>2. Append(stream_computed[t], c) \in Seq(Nat)
      BY <2>1, <3>1
    <3>3. stream_computed' = [u \in Thread |-> stream_computed'[u]]
      BY <2>1, <2>2
    <3>4. stream_computed'[t] = Append(stream_computed[t], c)
      BY <2>1, <2>2
    <3> QED
      BY <3>2, <3>3, <3>4
  <2> QED
    BY <1>2, <2>1, <2>2
<1> QED
  BY <1>1, <1>3, <1>4, <1>5 DEF FrontTypes, StreamOf, http1_vars

\* What the application computes for a stream is what the client's code says.
LEMMA SameCode ==
  ASSUME FrontInv, NEW t \in Thread, HandleTwo(t), NEW c,
         Two!AnswerComputed(t, c)
  PROVE  c = code[t]
<1>1. /\ stream_computed[t] \in Seq(Nat)
      /\ stream_computed'[t] \in {stream_computed[t],
                                  Append(stream_computed[t], code[t])}
      /\ stream_computed'[t] = Append(stream_computed[t], c)
  BY DEF FrontInv, StreamOf, FrontTypes, HandleTwo, Two!AnswerComputed
<1>2. /\ Len(Append(stream_computed[t], c)) = Len(stream_computed[t]) + 1
      /\ Append(stream_computed[t], c)[Len(stream_computed[t]) + 1] = c
      /\ Append(stream_computed[t], code[t])[Len(stream_computed[t]) + 1] = code[t]
      /\ Len(stream_computed[t]) \in Nat
  BY <1>1
<1> QED
  BY <1>1, <1>2

\* An answer that is the expected one.
LEMMA AnswersExpected ==
  ASSUME FrontInv, NEW t \in Thread, TwoOf(t), Two!Answer(t, Expected(t))
  PROVE  head'[t] = Expected(t)
<1>1. Expected(t) \in Nat
  BY StatusTypes DEF FrontInv, StreamOf, Expected
<1>2. head'[t] = IF head[t] = NoHead THEN Expected(t) ELSE head[t]
  BY DEF FrontInv, FrontTypes, Two!Answer
<1> QED
  BY <1>1, <1>2, FrontNoHeadAssumption DEF TwoOf

LEMMA SelectionCallback ==
  ASSUME FrontInv, NEW t \in Thread, HandleTwo(t), TwoOf(t),
         IsSelection(request[t]), Supported(request[t], frames[t])
  PROVE  head'[t] = Expected(t)
<1>1. /\ request[t].method = "GET" /\ ~IsPut(request[t])
      /\ request[t].nf_type \in {"AMF", "NSSF"}
      /\ {request[t].reg, request[t].pdu} = {"good", "none"}
      /\ request[t].home # "bad" /\ request[t].tai # "bad"
      /\ request[t].resource = "network-slice-information"
  BY SupportedRight DEF IsSelection
<1>2. /\ Two!HandlesSelection(request[t]) /\ Two!Accepts(request[t])
      /\ ~Two!Unparsable(request[t])
  BY <1>1 DEF Two!HandlesSelection, Two!Unparsable, Two!Accepts
<1>3. \E c : Two!SelectionHandled(t, c)
  <2>1. Two!Callback(t)
    BY DEF HandleTwo
  <2>2. ~(\/ Two!SelectionRefused(t) \/ Two!SelectionUnparsable(t)
          \/ Two!get_slice_info_default_handler(t)
          \/ Two!SelectionMethodIgnored(t))
    BY <1>1, <1>2 DEF Two!SelectionRefused, Two!SelectionUnparsable,
       Two!get_slice_info_default_handler, Two!SelectionMethodIgnored
  <2>3. ~(\/ \E c \in Two!PutCode : Two!PutHandled(t, c)
          \/ Two!BodyUnparsable(t) \/ Two!AvailabilityIgnored(t))
    BY <1>1 DEF Two!PutHandled, Two!BodyUnparsable, Two!AvailabilityIgnored,
                Two!AtAvailability
  <2>4. ~(\/ Two!SubscriptionsIgnored(t) \/ Two!get_slice_config(t)
          \/ Two!get_api_list(t) \/ Two!CustomMethodIgnored(t))
    BY <1>1 DEF Two!SubscriptionsIgnored, Two!get_slice_config,
                Two!get_api_list, Two!CustomMethodIgnored
  <2> QED
    BY <2>1, <2>2, <2>3, <2>4 DEF Two!Callback
<1>4. PICK c : Two!AnswerComputed(t, c)
  BY <1>3 DEF Two!SelectionHandled
<1>5. c = code[t] /\ Expected(t) = code[t]
  BY <1>1, <1>4, SameCode DEF Expected
<1> QED
  BY <1>4, <1>5, AnswersExpected DEF Two!AnswerComputed

LEMMA PutCallback ==
  ASSUME FrontInv, NEW t \in Thread, HandleTwo(t), TwoOf(t),
         IsPut(request[t]), Supported(request[t], frames[t])
  PROVE  head'[t] = Expected(t) /\ arrived'[t] \in {0, 1}
<1>1. /\ request[t].method = "PUT" /\ request[t].nfId # EmptyNfId
      /\ request[t].resource = "nssai-availability/:nfId"
      /\ request[t].body \in {"good", "bad"} /\ frames[t] = <<request[t].body>>
      /\ arrived[t] \in {0, 1}
  BY SupportedRight DEF IsPut, TwoOf
<1>2. ASSUME NEW d, Two!Arrives(t, d)
      PROVE  /\ arrived'[t] \in {0, 1}
             /\ \/ arrived[t] = 0 /\ d = request[t].body
                \/ arrived[t] = 1 /\ d = "none"
  <2>1. /\ Len(frames[t]) = 1 /\ frames[t][1] = request[t].body
        /\ arrived = [u \in Thread |-> arrived[u]]
    BY <1>1 DEF FrontInv, FrontTypes
  <2> QED
    BY <1>1, <1>2, <2>1 DEF Two!Arrives
<1>3. CASE \E c \in Two!PutCode : Two!PutHandled(t, c)
  <2>1. PICK c \in Two!PutCode, d \in {"good", "invalid"} :
          Two!Arrives(t, d) /\ Two!AnswerComputed(t, c)
    BY <1>3 DEF Two!PutHandled
  <2>2. request[t].body = "good" /\ arrived'[t] \in {0, 1}
    BY <1>1, <1>2, <2>1
  <2>3. c = code[t] /\ Expected(t) = code[t]
    BY <2>1, <2>2, SameCode DEF Expected
  <2> QED
    BY <2>1, <2>2, <2>3, AnswersExpected DEF Two!AnswerComputed
<1>4. CASE Two!BodyUnparsable(t)
  <2>1. Two!Arrives(t, "bad") /\ Two!Answer(t, BAD_REQUEST)
    BY <1>4, SameData DEF Two!BodyUnparsable
  <2>2. request[t].body = "bad" /\ arrived'[t] \in {0, 1}
    BY <1>1, <1>2, <2>1
  <2>3. Expected(t) = BAD_REQUEST
    BY <2>2 DEF Expected
  <2> QED
    BY <2>1, <2>2, <2>3, AnswersExpected
<1>5. CASE Two!AvailabilityIgnored(t)
  <2>1. PICK d : /\ Two!Arrives(t, d) /\ head' = head
                 /\ d = "none" \/ request[t].nfId = EmptyNfId
                    \/ request[t].method # "PUT"
    BY <1>5 DEF Two!AvailabilityIgnored
  <2>2. arrived[t] = 1 /\ arrived'[t] \in {0, 1}
    BY <1>1, <1>2, <2>1
  <2> QED
    BY <2>1, <2>2 DEF TwoOf
<1>6. ~(\/ \E c \in Two!SelectionCode : Two!SelectionHandled(t, c)
        \/ Two!SelectionRefused(t) \/ Two!SelectionUnparsable(t)
        \/ Two!get_slice_info_default_handler(t)
        \/ Two!SelectionMethodIgnored(t))
  BY <1>1 DEF Two!SelectionHandled, Two!SelectionRefused,
     Two!SelectionUnparsable, Two!get_slice_info_default_handler,
     Two!SelectionMethodIgnored, Two!AtSelection
<1>7. ~(\/ Two!SubscriptionsIgnored(t) \/ Two!get_slice_config(t)
        \/ Two!get_api_list(t) \/ Two!CustomMethodIgnored(t))
  BY <1>1 DEF Two!SubscriptionsIgnored, Two!get_slice_config,
              Two!get_api_list, Two!CustomMethodIgnored
<1>8. Two!Callback(t)
  BY DEF HandleTwo
<1> QED
  BY <1>3, <1>4, <1>5, <1>6, <1>7, <1>8 DEF Two!Callback

LEMMA HandleTwoStep ==
  ASSUME FrontInv, NEW t \in Thread, HandleTwo(t)
  PROVE  FrontTypes' /\ StreamOf(t)' /\ BothOf(t)'
<1>1. /\ FrontTypes' /\ StreamOf(t)' /\ BothOf(t)
      /\ UNCHANGED <<http1_vars, code>>
  BY CallbackTypes DEF FrontInv, HandleTwo
<1>2. stream[t] = "open" /\ frames' = frames
  <2>1. PICK d \in Body : Two!Arrives(t, d)
    BY CallbackDoes DEF HandleTwo, CallbackOf
  <2> QED
    BY <2>1 DEF Two!Arrives
<1>3. ASSUME Supported(request[t], frames[t]) PROVE (OneOf(t) /\ TwoOf(t))'
  <2>1. OneOf(t) /\ TwoOf(t)
    BY <1>1, <1>2, <1>3 DEF BothOf
  <2>2. OneOf(t)' /\ Expected(t)' = Expected(t)
    BY <1>1, <2>1 DEF OneOf, Expected, http1_vars
  <2>3. IsSelection(request[t]) \/ IsPut(request[t])
    BY <1>3, SupportedRight
  <2>4. /\ head'[t] = Expected(t)
        /\ IsPut(request[t]) => arrived'[t] \in {0, 1}
    BY <1>3, <2>1, <2>3, SelectionCallback, PutCallback DEF IsPut, IsSelection
  <2> QED
    BY <1>1, <1>2, <2>1, <2>2, <2>4 DEF TwoOf, http1_vars
<1> QED
  BY <1>1, <1>2, <1>3 DEF BothOf, http1_vars

-----------------------------------------------------------------------------
(* Clients *)

\* A client has a thread and a stream of its own.
LEMMA OtherClients ==
  ASSUME FrontInv, NEW t \in Thread, NEW u \in Thread, u # t,
         Ask(t) \/ HandleOne(t) \/ HandleTwo(t) \/ Done(t)
  PROVE  FrontUntouched(u)
<1>1. FrontTypes /\ IInv
  BY DEF FrontInv
<1>2. CASE Ask(t)
  <2>1. Untouched(u) /\ code'[u] = code[u]
    BY <1>1, <1>2, OthersUntouched DEF Ask, FrontTypes
  <2> QED
    BY <1>1, <1>2, <2>1
    DEF Ask, Two!Headers, vars2, FrontUntouched, FrontTypes
<1>3. CASE HandleOne(t)
  <2>1. Untouched(u)
    BY <1>1, <1>3, OthersUntouched DEF HandleOne
  <2> QED
    BY <1>3, <2>1 DEF HandleOne, vars2, FrontUntouched
<1>4. CASE HandleTwo(t)
  <2>1. PICK d \in Body :
          /\ Two!Arrives(t, d)
          /\ UNCHANGED head \/ \E c \in Nat : Two!Answer(t, c)
          /\ stream_computed' = stream_computed
               \/ \E c \in SelectionCode \cup PutCode :
                    stream_computed' = [stream_computed EXCEPT ![t] = Append(@, c)]
    BY <1>4, CallbackDoes DEF HandleTwo, CallbackOf
  <2>2. stream'[u] = stream[u] /\ frames' = frames /\ arrived'[u] = arrived[u]
    BY <1>1, <2>1 DEF Two!Arrives, FrontTypes
  <2>3. head'[u] = head[u]
    BY <1>1, <2>1 DEF Two!Answer, FrontTypes
  <2>4. stream_computed'[u] = stream_computed[u]
    BY <1>1, <2>1 DEF FrontTypes
  <2> QED
    BY <1>4, <2>2, <2>3, <2>4
    DEF HandleTwo, http1_vars, FrontUntouched, Untouched
<1>5. CASE Done(t)
  <2>1. Untouched(u) /\ code'[u] = code[u]
    BY <1>1, <1>5, OthersUntouched DEF Done, FrontTypes, Handle
  <2>2. CASE Two!Close(t)
    BY <1>1, <2>1, <2>2 DEF Two!Close, FrontUntouched, FrontTypes
  <2>3. CASE UNCHANGED vars2
    BY <2>1, <2>3 DEF vars2, FrontUntouched
  <2> QED
    BY <1>5, <2>2, <2>3 DEF Done
<1> QED
  BY <1>2, <1>3, <1>4, <1>5

LEMMA FrontStep ==
  FrontInv /\ [FrontNext]_<<http1_vars, vars2, code>> => FrontInv'
<1> SUFFICES ASSUME FrontInv, [FrontNext]_<<http1_vars, vars2, code>>
             PROVE  FrontInv'
  OBVIOUS
<1>1. IInv'
  BY Step, FrontTakesSteps DEF FrontInv
<1>2. CASE UNCHANGED <<http1_vars, vars2, code>>
  <2>1. FrontTypes'
    BY <1>2 DEF vars2, FrontInv, FrontTypes
  <2>2. \A t \in Thread : FrontUntouched(t)
    BY <1>2 DEF http1_vars, vars2, FrontUntouched, Untouched
  <2> QED
    BY <1>1, <2>1, <2>2, UntouchedStays DEF FrontInv
<1>3. ASSUME NEW t \in Thread,
             Ask(t) \/ HandleOne(t) \/ HandleTwo(t) \/ Done(t)
      PROVE  FrontInv'
  <2>1. FrontTypes' /\ StreamOf(t)' /\ BothOf(t)'
    BY <1>3, AskStep, HandleOneStep, HandleTwoStep, DoneStep
  <2>2. ASSUME NEW u \in Thread, u # t PROVE StreamOf(u)' /\ BothOf(u)'
    BY <1>3, <2>2, OtherClients, UntouchedStays DEF FrontInv
  <2> QED
    BY <1>1, <2>1, <2>2 DEF FrontInv
<1> QED
  BY <1>2, <1>3 DEF FrontNext

\* The inductive invariant of the two servers side by side.
THEOREM FrontInvIsInvariant == FrontSpec => []FrontInv
<1>1. FrontInit => FrontInv
  <2>1. FrontInit => IInv /\ FrontTypes
    BY InitIInv DEF FrontInit, Two!Init, FrontTypes
  <2> QED
    BY <2>1 DEF FrontInit, Init, Two!Init, FrontInv, StreamOf, BothOf
<1> QED
  BY <1>1, FrontStep, PTL DEF FrontSpec

(***************************************************************************)
(* What both servers support has the same status on HTTP/1 and on HTTP/2,  *)
(* for any number of clients whose requests are handled at the same time.  *)
(***************************************************************************)
THEOREM ServersAgree == FrontSpec => []AgreeWhereSupported
<1>1. FrontInv => AgreeWhereSupported
  <2> SUFFICES ASSUME FrontInv, NEW t \in Thread, Answered(t),
                      Supported(request[t], frames[t])
               PROVE  sent[t] = <<head[t]>>
    BY DEF AgreeWhereSupported
  <2>1. BothOf(t) /\ at[t] = "returned" /\ stream[t] = "ended"
    BY DEF FrontInv, Answered
  <2> QED
    BY <2>1 DEF BothOf, OneOf, TwoOf
<1> QED
  BY <1>1, FrontInvIsInvariant, PTL
=============================================================================

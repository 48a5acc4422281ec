---------------------------- MODULE Http1Server ----------------------------
(***************************************************************************)
(* NSSFApiServer: the worker threads of a Pistache endpoint route each     *)
(* request to a handler, which parses it, calls the operation behind it    *)
(* and answers.  A thread handles one request at a time.                   *)
(***************************************************************************)
EXTENDS HttpData, SequencesExt

CONSTANTS
  Thread,    \* the threads of the endpoint
  NoRequest  \* the request of an idle thread

ASSUME IdleAssumption == NoRequest \notin Request

VARIABLES
  at,       \* where a thread is in its handler
  request,  \* the request it handles
  sent,     \* the statuses it has sent for it
  computed  \* the statuses that the application has computed for it

http1_vars == <<at, request, sent, computed>>

Init ==
  /\ at       = [t \in Thread |-> "idle"]
  /\ request  = [t \in Thread |-> NoRequest]
  /\ sent     = [t \in Thread |-> <<>>]
  /\ computed = [t \in Thread |-> <<>>]

-----------------------------------------------------------------------------
(* Routes: the resource, the method, and where the handler starts *)

SelectionRoutes == {<<"network-slice-information", "GET", "reg">>}

NfInstanceRoutes ==
  {<<"nssai-availability/:nfId", "PUT", "put-body">>,
   <<"nssai-availability/:nfId", "PATCH", "patch-body">>,
   <<"nssai-availability/:nfId", "DELETE", "delete">>}

StoreRoutes == {<<"nssai-availability", "OPTIONS", "options">>}

CollectionRoutes == {<<"subscriptions", "POST", "post-body">>}

\* The route of DELETE leaves the API version out of the path.
SubscriptionRoutes ==
  {<<"subscriptions/:subscriptionId", "PATCH", "modify-body">>,
   <<"unversioned", "DELETE", "unsubscribe">>}

SliceConfigRoutes == {<<"nnssf-slice-config", "GET", "slice-config">>,
                      <<"/", "GET", "apis">>}

Routes == SelectionRoutes \cup NfInstanceRoutes \cup StoreRoutes
          \cup CollectionRoutes \cup SubscriptionRoutes \cup SliceConfigRoutes

\* Pistache drops the last "/" of a path: an empty nfId is no nfId.
Path(r) ==
  IF r.resource = "nssai-availability/:nfId" /\ r.nfId = EmptyNfId
  THEN "nssai-availability" ELSE r.resource

Routed(r, start) == <<Path(r), r.method, start>> \in Routes

\* What is not routed goes to the default handler that was added first.
Receive(t, r) ==
  /\ at[t] = "idle"
  /\ \E start \in {route[3] : route \in Routes} \cup {"no-route"} :
       /\ IF start = "no-route" THEN ~\E route \in Routes : Routed(r, route[3])
                                ELSE Routed(r, start)
       /\ at' = [at EXCEPT ![t] = start]
  /\ request' = [request EXCEPT ![t] = r]
  /\ UNCHANGED <<sent, computed>>

\* response.send(code), after which the handler returns.
Send(t, code) ==
  /\ sent' = [sent EXCEPT ![t] = Append(@, code)]
  /\ at'   = [at EXCEPT ![t] = "returned"]

GoTo(t, place) == at' = [at EXCEPT ![t] = place] /\ UNCHANGED sent

NotFound(t) ==
  /\ at[t] = "no-route"
  /\ Send(t, NOT_FOUND)
  /\ UNCHANGED <<request, computed>>

-----------------------------------------------------------------------------
(* n_s_selection_get_handler, one parameter after the other *)

(***************************************************************************)
(* nf-type is parsed first, by fromStringValue of the common submodule,    *)
(* which may throw for a type that is none of NFType, or leave it out.     *)
(***************************************************************************)
ParseNfType(t) ==
  /\ at[t] = "reg"
  /\ request[t].nf_type = "bad"
  /\ Send(t, INTERNAL_SERVER_ERROR)
  /\ UNCHANGED <<request, computed>>

\* The exception of a part is caught around the whole handler.
ParsePart(t, name, part, next) ==
  /\ at[t] = name
  /\ IF part = "bad" THEN Send(t, INTERNAL_SERVER_ERROR) ELSE GoTo(t, next)
  /\ UNCHANGED <<request, computed>>

ParseRegistration(t) == ParsePart(t, "reg", request[t].reg, "pdu")
ParsePduSession(t)   == ParsePart(t, "pdu", request[t].pdu, "ue-cu")

\* The answer to a UE configuration update is lost.
ue_cu_unanswered(t) ==
  /\ at[t] = "ue-cu"
  /\ IF request[t].ue_cu = "none" THEN GoTo(t, "home") ELSE GoTo(t, "returned")
  /\ UNCHANGED <<request, computed>>

\* A request with a UE configuration update is refused.
ParseUeCu(t) ==
  /\ at[t] = "ue-cu"
  /\ CASE request[t].ue_cu = "none" -> GoTo(t, "home")
       [] request[t].ue_cu = "good" -> Send(t, NOT_FOUND)
       [] request[t].ue_cu = "bad"  -> Send(t, INTERNAL_SERVER_ERROR)
  /\ UNCHANGED <<request, computed>>

(***************************************************************************)
(* home-plmn-id and tai are parsed by fromStringValue as well.             *)
(***************************************************************************)
ParseIdentity(t, name, value, next) ==
  /\ at[t] = name
  /\ \/ GoTo(t, next)
     \/ value = "bad" /\ Send(t, INTERNAL_SERVER_ERROR)
  /\ UNCHANGED <<request, computed>>

ParseHomePlmn(t) == ParseIdentity(t, "home", request[t].home, "tai")
ParseTai(t)      == ParseIdentity(t, "tai", request[t].tai, "selection")

TypeGiven(r) == r.nf_type \notin {"none", "bad"}

\* The request without nf-type is answered, and handled all the same.
selection_no_return(t) ==
  /\ at[t] = "selection"
  /\ IF ~TypeGiven(request[t])
       THEN sent' = [sent EXCEPT ![t] = Append(@, BAD_REQUEST)]
       ELSE UNCHANGED sent
  /\ at' = [at EXCEPT ![t] = "application"]
  /\ UNCHANGED <<request, computed>>

(***************************************************************************)
(* n_s_selection_get: any NF type but none will do.  A request with        *)
(* neither part is answered with the status 0 that http_code starts with.  *)
(***************************************************************************)
Selection(t) ==
  LET asked == "good" \in {request[t].reg, request[t].pdu} IN
  /\ at[t] = "selection"
  /\ CASE ~TypeGiven(request[t])           -> Send(t, BAD_REQUEST)
       [] TypeGiven(request[t]) /\ ~asked -> Send(t, 0)
       [] TypeGiven(request[t]) /\ asked  -> GoTo(t, "application")
  /\ UNCHANGED <<request, computed>>

\* The thread is in nssf_app, and comes back with an http_code.
Application(t, code) ==
  /\ at[t] = "application"
  /\ code \in IF request[t].resource = "network-slice-information"
              THEN SelectionCode ELSE PutCode
  /\ computed' = [computed EXCEPT ![t] = Append(@, code)]
  /\ at' = [at EXCEPT ![t] = "computed"]
  /\ UNCHANGED <<request, sent>>

\* Each part is handled for itself, as on HTTP/2 (a plausible slip).
answer_per_part(t) ==
  /\ at[t] = "computed"
  /\ IF Len(computed[t]) = 1 /\ {request[t].reg, request[t].pdu} = {"good"}
       THEN GoTo(t, "application")
       ELSE Send(t, Last(computed[t]))
  /\ UNCHANGED <<request, computed>>

\* What nssf_app has computed is sent, a status that is not set too.
AnswerComputed(t) ==
  /\ at[t] = "computed"
  /\ Send(t, Last(computed[t]))
  /\ UNCHANGED <<request, computed>>

-----------------------------------------------------------------------------
(* The handlers of the requests with a body *)

\* validate() comes after the operation.
parse_without_validate(t, name, validated, next) ==
  /\ at[t] = name
  /\ IF request[t].body \in {"none", "bad"} THEN Send(t, BAD_REQUEST)
                                           ELSE GoTo(t, next)
  /\ UNCHANGED <<request, computed>>

(***************************************************************************)
(* handleParsingException: 400 for what is no JSON document, an empty body *)
(* among it, and 500 for what validate() throws.                           *)
(***************************************************************************)
ParseBody(t, name, validated, next) ==
  /\ at[t] = name
  /\ CASE request[t].body \in {"none", "bad"} -> Send(t, BAD_REQUEST)
       [] request[t].body = "invalid" /\ validated ->
            Send(t, INTERNAL_SERVER_ERROR)
       [] OTHER -> GoTo(t, next)
  /\ UNCHANGED <<request, computed>>

ParsePut(t) == ParseBody(t, "put-body", TRUE, "application")

\* The items of a JSON Patch are not validated.
ParsePatch(t)  == ParseBody(t, "patch-body", FALSE, "patch")
ParseModify(t) == ParseBody(t, "modify-body", FALSE, "modify")

ParsePost(t) == ParseBody(t, "post-body", TRUE, "post")

-----------------------------------------------------------------------------
(* The operations behind the handlers that only answer *)

Operation(t, name, code) ==
  /\ at[t] = name
  /\ Send(t, code)
  /\ UNCHANGED <<request, computed>>

n_ssai_availability_patch(t)   == Operation(t, "patch", SERVICE_UNAVAILABLE)
n_ssai_availability_delete(t)  == Operation(t, "delete", SERVICE_UNAVAILABLE)
n_ssai_availability_options(t) == Operation(t, "options", SERVICE_UNAVAILABLE)
n_ssai_availability_post(t)    == Operation(t, "post", SERVICE_UNAVAILABLE)

n_ssai_availability_sub_modify_patch(t) ==
  Operation(t, "modify", SERVICE_UNAVAILABLE)

n_ssai_availability_unsubscribe(t) ==
  Operation(t, "unsubscribe", SERVICE_UNAVAILABLE)

nssf_slice_config_get(t) == Operation(t, "slice-config", SERVICE_UNAVAILABLE)

nssf_slice_config_get_apis(t) == Operation(t, "apis", OK)

\* The thread waits for its next request.
Return(t) ==
  /\ at[t] = "returned"
  /\ at'       = [at EXCEPT ![t] = "idle"]
  /\ request'  = [request EXCEPT ![t] = NoRequest]
  /\ sent'     = [sent EXCEPT ![t] = <<>>]
  /\ computed' = [computed EXCEPT ![t] = <<>>]

Handle(t) ==
  \/ NotFound(t) \/ ParseNfType(t) \/ ParseRegistration(t)
  \/ ParsePduSession(t) \/ ParseUeCu(t)
  \/ ParseHomePlmn(t) \/ ParseTai(t) \/ Selection(t)
  \/ \E code \in SelectionCode \cup PutCode : Application(t, code)
  \/ AnswerComputed(t)
  \/ ParsePut(t) \/ ParsePatch(t) \/ ParseModify(t) \/ ParsePost(t)
  \/ n_ssai_availability_patch(t) \/ n_ssai_availability_delete(t)
  \/ n_ssai_availability_options(t) \/ n_ssai_availability_post(t)
  \/ n_ssai_availability_sub_modify_patch(t)
  \/ n_ssai_availability_unsubscribe(t)
  \/ nssf_slice_config_get(t) \/ nssf_slice_config_get_apis(t)
  \/ Return(t)

Next == \E t \in Thread : (\E r \in Requests : Receive(t, r)) \/ Handle(t)

Spec == Init /\ [][Next]_http1_vars

\* A thread runs its handler to the end: no handler waits for anything.
FairSpec == Spec /\ \A t \in Thread : WF_http1_vars(Handle(t))

-----------------------------------------------------------------------------
(* Properties *)

Places == {"no-route", "reg", "pdu", "ue-cu", "home", "tai", "selection",
           "application", "computed", "put-body", "patch-body", "modify-body",
           "post-body", "patch", "modify", "post", "delete", "options",
           "unsubscribe", "slice-config", "apis"}

\* The types of the variables, and that the application is called once.
TypeOK ==
  /\ at \in [Thread -> {"idle", "returned"} \cup Places]
  /\ request \in [Thread -> Requests \cup {NoRequest}]
  /\ sent \in [Thread -> Seq(Nat)]
  /\ computed \in [Thread -> Seq(SelectionCode \cup PutCode)]
  /\ \A t \in Thread : Len(computed[t]) <= 1

(***************************************************************************)
(* A handler sends exactly one response: the paths through the nested try  *)
(* blocks that send one all return, and all others send one at the end.    *)
(***************************************************************************)
OneResponse ==
  \A t \in Thread :
    /\ Len(sent[t]) <= 1
    /\ at[t] = "returned" => Len(sent[t]) = 1

(***************************************************************************)
(* The application is given only what could be parsed and validated, and   *)
(* what it computes is what the client is told.                            *)
(***************************************************************************)
HandledIsParsed ==
  \A t \in Thread : computed[t] # <<>> =>
    /\ sent[t] # <<>> => sent[t] = computed[t]
    /\ \/ /\ request[t].resource = "nssai-availability/:nfId"
          /\ request[t].nfId # EmptyNfId /\ request[t].body = "good"
       \/ /\ request[t].resource = "network-slice-information"
          /\ TypeGiven(request[t]) /\ request[t].ue_cu = "none"
          /\ "bad" \notin {request[t].reg, request[t].pdu}
          /\ "good" \in {request[t].reg, request[t].pdu}

\* Every request is answered.
RequestsAnswered ==
  \A t \in Thread : (at[t] \notin {"idle", "returned"}) ~> (sent[t] # <<>>)
=============================================================================

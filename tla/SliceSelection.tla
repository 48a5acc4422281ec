-------------------------- MODULE SliceSelection --------------------------
(***************************************************************************)
(* Nnssf_NSSelection_Get as the code computes it: the two handlers of      *)
(* nssf_slice_select under their nssf_app wrappers, called one after the   *)
(* other on the result variables of one request, and the scan of the AMF   *)
(* sets one AMF at a time.  Every thread serves requests of its own; all   *)
(* of them read the one configuration nssf_cfg.                            *)
(***************************************************************************)
EXTENDS NssfData, FiniteSets

CONSTANTS
  Queries,       \* the queries its clients send
  http_version,  \* the front end that calls the handlers, 1 or 2
  NoAmfSet,      \* a target AMF set that is not set
  NoQuery,       \* the query of a thread that serves nobody
  Pending        \* a decision that is not taken yet

ASSUME QueriesAssumption == Queries \subseteq Query
ASSUME NoQueryAssumption == NoQuery \notin Query
ASSUME VersionAssumption == http_version \in {1, 2}

\* The decisions a reply can carry.
Replies == [granted : BOOLEAN, allowed : SUBSET Snssai,
            amf_set : AmfSetId \cup {NoAmfSet}, amfs : SUBSET NfId,
            nsi : NsiInfo \cup {NoNsi}]

ASSUME PendingAssumption == Pending \notin Replies

VARIABLES
  pc,               \* where a thread is in the handling of its request
  query,            \* the request's parameters
  http_code,        \* the result variables of the request:
  auth_slice_info,  \*   status, authorized information,
  problem_details,  \*   whether problem details are filled in,
  scan              \* the loops of get_valid_amfset

vars == <<nssf_cfg, pc, query, http_code, auth_slice_info, problem_details,
          scan>>

\* A status; 0 is what http_code is initialised with.
HttpCode == {0, OK, BAD_REQUEST, FORBIDDEN, SERVICE_UNAVAILABLE}

results == <<http_code, problem_details>>

AuthorizedNetworkSliceInfo ==
  [allowed : SUBSET Snssai, rejected : SUBSET Snssai,
   amf_set : AmfSetId \cup {NoAmfSet}, amfs : SUBSET NfId,
   nsi : NsiInfo \cup {NoNsi}]

EmptyInfo == [allowed |-> {}, rejected |-> {}, amf_set |-> NoAmfSet,
              amfs |-> {}, nsi |-> NoNsi]

Scan == [amfSet : Nat \ {0}, amfList : Nat \ {0}, candidates : SUBSET NfId]

\* The cursors start before the lists (an off-by-one).
scan_start_zero == [amfSet |-> 0, amfList |-> 0, candidates |-> {}]

\* amfSet and amfList count from 1; candidates is candidate_amf_list.
ScanStart == [amfSet |-> 1, amfList |-> 1, candidates |-> {}]

Init ==
  /\ nssf_cfg \in Configs
  /\ pc              = [w \in Worker |-> "idle"]
  /\ query           = [w \in Worker |-> NoQuery]
  /\ http_code       = [w \in Worker |-> 0]
  /\ auth_slice_info = [w \in Worker |-> EmptyInfo]
  /\ problem_details = [w \in Worker |-> FALSE]
  /\ scan            = [w \in Worker |-> ScanStart]

\* Both parts are handled on HTTP/2 too (a plausible slip).
asked_both(q) == q

(***************************************************************************)
(* The HTTP/2 lambda looks at the PDU session part only when there is no   *)
(* registration part, and calls no handler when there is neither; the      *)
(* HTTP/1 handler tries both.                                              *)
(***************************************************************************)
Asked(q) == IF http_version = 2 /\ q.reg # Absent
            THEN [q EXCEPT !.pdu = Absent] ELSE q

HasHandler(q) == http_version = 1 \/ q.reg # Absent \/ q.pdu # Absent

\* http_code lives on from the request before (a plausible slip).
receive_no_reset(w, q) ==
  /\ pc[w] = "idle"
  /\ HasHandler(q)
  /\ pc'              = [pc EXCEPT ![w] = "pdu"]
  /\ query'           = [query EXCEPT ![w] = Asked(q)]
  /\ auth_slice_info' = [auth_slice_info EXCEPT ![w] = EmptyInfo]
  /\ problem_details' = [problem_details EXCEPT ![w] = FALSE]
  /\ UNCHANGED <<nssf_cfg, http_code, scan>>

\* The result variables are declared where the request's handling begins.
Receive(w, q) ==
  /\ pc[w] = "idle"
  /\ HasHandler(q)
  /\ pc'              = [pc EXCEPT ![w] = "pdu"]
  /\ query'           = [query EXCEPT ![w] = Asked(q)]
  /\ http_code'       = [http_code EXCEPT ![w] = 0]
  /\ auth_slice_info' = [auth_slice_info EXCEPT ![w] = EmptyInfo]
  /\ problem_details' = [problem_details EXCEPT ![w] = FALSE]
  /\ UNCHANGED <<nssf_cfg, scan>>

AfterPart(w) == IF pc[w] = "pdu" THEN "registration" ELSE "done"

\* A 400 or a 503 fills the problem details in too (a plausible slip).
return_problem_always(w, code, success) ==
  /\ http_code'       = [http_code EXCEPT ![w] = code]
  /\ problem_details' = [problem_details EXCEPT ![w] = @ \/ ~success]
  /\ pc'              = [pc EXCEPT ![w] = AfterPart(w)]
  /\ UNCHANGED <<nssf_cfg, query>>

(***************************************************************************)
(* A handler returns success with http_code = code, and its wrapper        *)
(* (nssf_app) fills the problem details in if it is a failure with a 403.  *)
(***************************************************************************)
Return(w, code, success) ==
  /\ http_code'       = [http_code EXCEPT ![w] = code]
  /\ problem_details' =
       [problem_details EXCEPT ![w] = @ \/ (~success /\ code = FORBIDDEN)]
  /\ pc'              = [pc EXCEPT ![w] = AfterPart(w)]
  /\ UNCHANGED <<nssf_cfg, query>>

\* n_s_selection_get: a part that is not given is not handled.
SkipPart(w) ==
  /\ \/ pc[w] = "pdu" /\ query[w].pdu = Absent
     \/ pc[w] = "registration" /\ query[w].reg = Absent
  /\ pc' = [pc EXCEPT ![w] = AfterPart(w)]
  /\ UNCHANGED <<nssf_cfg, query, results, auth_slice_info, scan>>

TaiRefused(w) == query[w].tai # NoTai /\ ~validate_ta(nssf_cfg, query[w].tai)

-----------------------------------------------------------------------------
(* handle_slice_info_for_pdu_session *)

AtPdu(w) == pc[w] = "pdu" /\ query[w].pdu # Absent

PduRoaming(w) == ~query[w].pdu.non_roaming \/ query[w].home_plmnid

PduRefuseRoaming(w) ==
  /\ AtPdu(w)
  /\ PduRoaming(w)
  /\ Return(w, SERVICE_UNAVAILABLE, FALSE)
  /\ UNCHANGED <<auth_slice_info, scan>>

PduRefuseTai(w) ==
  /\ AtPdu(w)
  /\ ~PduRoaming(w)
  /\ TaiRefused(w)
  /\ Return(w, BAD_REQUEST, FALSE)
  /\ UNCHANGED <<auth_slice_info, scan>>

PduSelectNsi(w) ==
  /\ AtPdu(w)
  /\ ~PduRoaming(w)
  /\ ~TaiRefused(w)
  /\ LET nsi == validate_nsi(nssf_cfg, query[w].pdu.sNssai)
     IN  /\ auth_slice_info' = [auth_slice_info EXCEPT ![w] = [@ EXCEPT !.nsi = nsi]]
         /\ IF nsi # NoNsi THEN Return(w, OK, TRUE)
                           ELSE Return(w, BAD_REQUEST, FALSE)
  /\ UNCHANGED scan

-----------------------------------------------------------------------------
(* handle_slice_info_for_registration *)

AtRegistration(w) == pc[w] = "registration" /\ query[w].reg # Absent

RegUnsupported(w) == \/ query[w].reg.requestMapping
                     \/ query[w].reg.mappingOfNssai
                     \/ query[w].home_plmnid

RegRefuseUnsupported(w) ==
  /\ AtRegistration(w)
  /\ RegUnsupported(w)
  /\ Return(w, SERVICE_UNAVAILABLE, FALSE)
  /\ UNCHANGED <<auth_slice_info, scan>>

\* http_code is left as it is: 0, or what the PDU session part made of it.
RegRefuseTai(w) ==
  /\ AtRegistration(w)
  /\ ~RegUnsupported(w)
  /\ TaiRefused(w)
  /\ Return(w, http_code[w], FALSE)
  /\ UNCHANGED <<auth_slice_info, scan>>

NssaiGiven(w) == /\ query[w].reg.requestedNssai # NotSet
                 /\ query[w].reg.subscribedNssai # NotSet

\* http_code = 403 one statement too early (a plausible slip).
reg_undecided_forbidden(w) ==
  /\ AtRegistration(w)
  /\ ~RegUnsupported(w)
  /\ ~TaiRefused(w)
  /\ ~NssaiGiven(w)
  /\ Return(w, FORBIDDEN, TRUE)
  /\ UNCHANGED <<auth_slice_info, scan>>

\* Without requested and subscribed slices the handler succeeds untouched.
RegUndecided(w) ==
  /\ AtRegistration(w)
  /\ ~RegUnsupported(w)
  /\ ~TaiRefused(w)
  /\ ~NssaiGiven(w)
  /\ Return(w, http_code[w], TRUE)
  /\ UNCHANGED <<auth_slice_info, scan>>

Requested(w) == query[w].reg.requestedNssai

\* Steps 4.1 and 4.2: validate_rnssai_in_plmn; validate_rnssai_in_ta is TRUE.
RegValidateInPlmn(w) ==
  /\ AtRegistration(w)
  /\ ~RegUnsupported(w)
  /\ ~TaiRefused(w)
  /\ NssaiGiven(w)
  /\ LET matched == MatchedSnssai(Requested(w), query[w].reg.subscribedNssai)
     IN  IF matched = {}
         THEN /\ auth_slice_info' =
                   [auth_slice_info EXCEPT
                      ![w] = [@ EXCEPT !.rejected = Requested(w)]]
              /\ Return(w, FORBIDDEN, FALSE)
              /\ UNCHANGED scan
         ELSE /\ auth_slice_info' =
                   [auth_slice_info EXCEPT ![w] = [@ EXCEPT !.allowed = matched]]
              /\ http_code' = [http_code EXCEPT ![w] = FORBIDDEN]
              /\ scan' = [scan EXCEPT ![w] = ScanStart]
              /\ pc' = [pc EXCEPT ![w] = "scan"]
              /\ UNCHANGED <<nssf_cfg, query, problem_details>>

-----------------------------------------------------------------------------
(* Step 4.3: get_valid_amfset *)

AmfSets == nssf_cfg.amf_info_list

AtAmfSet(w) == pc[w] = "scan" /\ scan[w].amfSet <= Len(AmfSets)

AmfList(w) == AmfSets[scan[w].amfSet].amf_List

\* The search stops at the first AMF that serves (a plausible slip).
add_candidate_one(w) ==
  LET amf == AmfList(w)[scan[w].amfList]
  IN  IF scan[w].candidates = {} /\ Serves(amf, Requested(w))
      THEN {amf.nfId} ELSE scan[w].candidates

\* candidate_amf_list after the AMF at the cursor has been looked at.
AddCandidate(w) ==
  LET amf == AmfList(w)[scan[w].amfList]
  IN  IF Serves(amf, Requested(w))
      THEN scan[w].candidates \cup {amf.nfId} ELSE scan[w].candidates

ExamineAmf(w) ==
  /\ AtAmfSet(w)
  /\ scan[w].amfList <= Len(AmfList(w))
  /\ scan' = [scan EXCEPT
                ![w] = [@ EXCEPT !.candidates = AddCandidate(w),
                                 !.amfList = scan[w].amfList + 1]]
  /\ UNCHANGED <<nssf_cfg, pc, query, results, auth_slice_info>>

\* The cursor over the AMFs is not reset (a plausible slip).
next_amf_set_no_reset(w) ==
  /\ AtAmfSet(w)
  /\ scan[w].amfList > Len(AmfList(w))
  /\ scan[w].candidates = {}
  /\ scan' = [scan EXCEPT ![w].amfSet = @ + 1]
  /\ UNCHANGED <<nssf_cfg, pc, query, results, auth_slice_info>>

\* The search starts over in the same set (a plausible slip).
next_amf_set_stuck(w) ==
  /\ AtAmfSet(w)
  /\ scan[w].amfList > Len(AmfList(w))
  /\ scan[w].candidates = {}
  /\ scan' = [scan EXCEPT ![w].amfList = 1]
  /\ UNCHANGED <<nssf_cfg, pc, query, results, auth_slice_info>>

\* Nobody in this set serves the request: the next one is tried.
NextAmfSet(w) ==
  /\ AtAmfSet(w)
  /\ scan[w].amfList > Len(AmfList(w))
  /\ scan[w].candidates = {}
  /\ scan' = [scan EXCEPT
                ![w] = [@ EXCEPT !.amfSet = scan[w].amfSet + 1, !.amfList = 1]]
  /\ UNCHANGED <<nssf_cfg, pc, query, results, auth_slice_info>>

SelectAmfSet(w) ==
  /\ AtAmfSet(w)
  /\ scan[w].amfList > Len(AmfList(w))
  /\ scan[w].candidates # {}
  /\ auth_slice_info' =
       [auth_slice_info EXCEPT
          ![w] = [@ EXCEPT !.amfs = scan[w].candidates,
                           !.amf_set = AmfSets[scan[w].amfSet].target_amf_set]]
  /\ Return(w, OK, TRUE)
  /\ UNCHANGED scan

NoValidAmfSet(w) ==
  /\ pc[w] = "scan"
  /\ scan[w].amfSet > Len(AmfSets)
  /\ Return(w, FORBIDDEN, FALSE)
  /\ UNCHANGED <<auth_slice_info, scan>>

\* The front end sends the reply and drops the request's variables.
Reply(w) ==
  /\ pc[w] = "done"
  /\ pc'    = [pc EXCEPT ![w] = "idle"]
  /\ query' = [query EXCEPT ![w] = NoQuery]
  /\ UNCHANGED <<nssf_cfg, results, auth_slice_info, scan>>

Serve(w) ==
  \/ SkipPart(w)
  \/ PduRefuseRoaming(w) \/ PduRefuseTai(w) \/ PduSelectNsi(w)
  \/ RegRefuseUnsupported(w) \/ RegRefuseTai(w) \/ RegUndecided(w)
  \/ RegValidateInPlmn(w)
  \/ ExamineAmf(w) \/ NextAmfSet(w) \/ SelectAmfSet(w) \/ NoValidAmfSet(w)
  \/ Reply(w)

Next == \E w \in Worker : \/ \E q \in Queries : Receive(w, q)
                          \/ Serve(w)

Spec == Init /\ [][Next]_vars

-----------------------------------------------------------------------------
(* Properties *)

\* The types of the variables.
TypeOK ==
  /\ nssf_cfg \in SliceCfg
  /\ pc \in [Worker -> {"idle", "pdu", "registration", "scan", "done"}]
  /\ query \in [Worker -> {NoQuery} \cup Query]
  /\ http_code \in [Worker -> HttpCode]
  /\ auth_slice_info \in [Worker -> AuthorizedNetworkSliceInfo]
  /\ problem_details \in [Worker -> BOOLEAN]
  /\ scan \in [Worker -> Scan]

(***************************************************************************)
(* The decision a reply carries: the authorized information if the status  *)
(* is 200, and nothing otherwise.                                          *)
(***************************************************************************)
Replied(w) ==
  LET info == IF http_code[w] = OK THEN auth_slice_info[w] ELSE EmptyInfo
  IN  [granted |-> http_code[w] = OK, allowed |-> info.allowed,
       amf_set |-> info.amf_set, amfs |-> info.amfs, nsi |-> info.nsi]

AskedQueries == {Asked(q) : q \in Queries}

\* A request is decided once its handlers have returned.
decision == [w \in Worker |-> IF pc[w] = "done" THEN Replied(w) ELSE Pending]

Abstract == INSTANCE SliceAuthorization WITH Queries <- AskedQueries

\* The AMFs before position n of the current set that serve the request.
ServingBefore(w, n) ==
  {AmfList(w)[i].nfId :
     i \in {j \in 1..(n - 1) : Serves(AmfList(w)[j], Requested(w))}}

ScanOf(w) ==
  pc[w] = "scan" =>
    /\ scan[w].amfSet \in 1..(Len(AmfSets) + 1)
    /\ \A k \in 1..(scan[w].amfSet - 1) :
         Abstract!ServingAmfs(AmfSets[k], Requested(w)) = {}
    /\ IF scan[w].amfSet <= Len(AmfSets)
         THEN /\ scan[w].amfList \in 1..(Len(AmfList(w)) + 1)
              /\ scan[w].candidates = ServingBefore(w, scan[w].amfList)
         ELSE scan[w].candidates = {}

(***************************************************************************)
(* The loop invariant of get_valid_amfset: no AMF of an earlier set serves *)
(* the request, and the candidates are the AMFs of the current set that    *)
(* have been looked at and serve it.                                       *)
(***************************************************************************)
ScanIsExhaustive == \A w \in Worker : ScanOf(w)

\* Examined, and found without a subscribed slice or without an AMF.
RegistrationFails(w) ==
  /\ Abstract!RegistrationDecides(query[w])
  /\ ~RegUnsupported(w)
  /\ ~TaiRefused(w)
  /\ \/ Abstract!Matched(query[w]) = {}
     \/ Abstract!ServingSets(nssf_cfg, Requested(w)) = {}

StatusOf(w) ==
  pc[w] = "done" =>
    /\ http_code[w] = FORBIDDEN <=> RegistrationFails(w)
    /\ http_code[w] = BAD_REQUEST =>
         query[w].pdu # Absent /\ Abstract!NsiGranted(nssf_cfg, query[w]) = NoNsi
    /\ http_code[w] = SERVICE_UNAVAILABLE =>
         \/ Abstract!Unsupported(query[w])
         \/ query[w].pdu # Absent /\ ~query[w].pdu.non_roaming
    /\ http_code[w] = 0 =>
         /\ query[w].pdu = Absent
         /\ query[w].reg # Absent => ~RegUnsupported(w)

(***************************************************************************)
(* Why a reply has its status, whichever of the two parts of the query set *)
(* http_code last: 403 is the answer to a registration that was examined   *)
(* and failed, and to nothing else; 400 and 503 have their causes; and 0   *)
(* is left when the area is refused or the slices are not given.           *)
(***************************************************************************)
StatusExplained == \A w \in Worker : StatusOf(w)

DecidedStatus(w) ==
  pc[w] = "done" => http_code[w] = Abstract!Status(nssf_cfg, query[w])

(***************************************************************************)
(* The status of a reply is a function of the configuration and the query, *)
(* although http_code goes through both handlers, is set by some of their  *)
(* paths and left alone by others, and is set before it is decided.        *)
(***************************************************************************)
StatusDecided == \A w \in Worker : DecidedStatus(w)

ProblemOf(w) ==
  pc[w] = "done" => (problem_details[w] <=> http_code[w] = FORBIDDEN)

(***************************************************************************)
(* Problem details, which both parts of a query may fill in and which the  *)
(* next part does not clear, go with a 403 and with nothing else.          *)
(***************************************************************************)
ProblemDetailsMean403 == \A w \in Worker : ProblemOf(w)

NsiOf(w) == Abstract!NsiGranted(nssf_cfg, query[w])

\* http_code when the PDU session part is done.
PduStatus(w) ==
  CASE query[w].pdu = Absent -> 0
    [] query[w].pdu # Absent /\ PduRoaming(w) -> SERVICE_UNAVAILABLE
    [] OTHER -> IF NsiOf(w) = NoNsi THEN BAD_REQUEST ELSE OK

PhaseOf(w) ==
  /\ pc[w] = "idle" <=> query[w] = NoQuery
  /\ pc[w] \in {"pdu", "registration", "scan"} => ~problem_details[w]
  /\ pc[w] = "pdu" => http_code[w] = 0 /\ auth_slice_info[w] = EmptyInfo
  /\ pc[w] = "registration" =>
       /\ http_code[w] = PduStatus(w)
       /\ auth_slice_info[w] = [EmptyInfo EXCEPT !.nsi = NsiOf(w)]
  /\ pc[w] = "scan" =>
       /\ query[w].reg # Absent /\ NssaiGiven(w)
       /\ ~RegUnsupported(w) /\ ~TaiRefused(w)
       /\ Abstract!Matched(query[w]) # {}
       /\ http_code[w] = FORBIDDEN
       /\ auth_slice_info[w] =
            [EmptyInfo EXCEPT !.nsi = NsiOf(w),
                              !.allowed = Abstract!Matched(query[w])]
  /\ pc[w] = "done" => Replied(w) = Abstract!Decision(nssf_cfg, query[w])

(***************************************************************************)
(* What each phase of a request leaves in the shared result variables: the *)
(* PDU session part its status and its NSI, the registration part the      *)
(* slices allowed before the scan, and the whole of it the decision.  This *)
(* is the strengthening with which the invariants above are inductive.     *)
(***************************************************************************)
PhaseInvariant == \A w \in Worker : PhaseOf(w)

\* The inductive invariant: all of the above.
IInv == /\ TypeOK
        /\ PhaseInvariant
        /\ ScanIsExhaustive
        /\ StatusExplained
        /\ ProblemDetailsMean403

(***************************************************************************)
(* "http_code: HTTP code used to return to the consumer"                   *)
(* (nssf_slice_selection.hpp, of handle_slice_info_for_registration): the  *)
(* reply to a registration has a status.                                   *)
(***************************************************************************)
StatusIsSet ==
  \A w \in Worker : pc[w] = "done" /\ query[w].reg # Absent =>
    http_code[w] # 0

(***************************************************************************)
(* The handlers, on shared result variables, answer every query with the   *)
(* decision that the configuration and the query determine.                *)
(***************************************************************************)
ImplementsAuthorization == Abstract!Spec
=====

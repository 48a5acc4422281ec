------------------------ MODULE SliceAuthorization ------------------------
(***************************************************************************)
(* What the NSSF promises of Nnssf_NSSelection_Get, without its loops and  *)
(* its shared result variables: a client asks, and is given the decision   *)
(* that the configuration and the query alone determine, in one step.      *)
(***************************************************************************)
EXTENDS NssfData

CONSTANTS
  Queries,    \* the queries its clients send
  NoAmfSet,   \* a target AMF set that is not set
  NoQuery,    \* the query of a thread that serves nobody
  Pending     \* a decision that is not taken yet

VARIABLES query, decision

(***************************************************************************)
(* The AMFs of a set that serve the requested slices, and the positions of *)
(* the sets that have one.                                                 *)
(***************************************************************************)
ServingAmfs(amf_set, r_nssai) ==
  {amf_set.amf_List[i].nfId :
     i \in {j \in DOMAIN amf_set.amf_List :
              Serves(amf_set.amf_List[j], r_nssai)}}

ServingSets(cfg, r_nssai) ==
  {k \in DOMAIN cfg.amf_info_list :
     ServingAmfs(cfg.amf_info_list[k], r_nssai) # {}}

(***************************************************************************)
(* A registration decides when it names the slices requested and those     *)
(* subscribed to; otherwise the PDU session part decides, if there is one. *)
(***************************************************************************)
RegistrationDecides(q) ==
  /\ q.reg # Absent
  /\ q.reg.requestedNssai # NotSet
  /\ q.reg.subscribedNssai # NotSet

Matched(q) == MatchedSnssai(q.reg.requestedNssai, q.reg.subscribedNssai)

\* The features no handler supports: mappings and roaming subscribers.
Unsupported(q) ==
  \/ q.home_plmnid
  \/ q.reg # Absent /\ (q.reg.requestMapping \/ q.reg.mappingOfNssai)

TaiRefused(cfg, q) == q.tai # NoTai /\ ~validate_ta(cfg, q.tai)

\* What the PDU session part alone is granted: an NSI, or nothing.
NsiGranted(cfg, q) ==
  IF q.pdu # Absent /\ q.pdu.non_roaming /\ ~q.home_plmnid
     /\ ~TaiRefused(cfg, q)
  THEN validate_nsi(cfg, q.pdu.sNssai)
  ELSE NoNsi

Refused == [granted |-> FALSE, allowed |-> {}, amf_set |-> NoAmfSet,
            amfs |-> {}, nsi |-> NoNsi]

RegistrationGrant(cfg, q) ==
  LET first   == FirstOf(ServingSets(cfg, q.reg.requestedNssai))
      amf_set == cfg.amf_info_list[first]
  IN  [granted |-> TRUE,
       allowed |-> Matched(q),
       amf_set |-> amf_set.target_amf_set,
       amfs    |-> ServingAmfs(amf_set, q.reg.requestedNssai),
       nsi     |-> NsiGranted(cfg, q)]

Granted(cfg, q) ==
  /\ ~Unsupported(q)
  /\ ~TaiRefused(cfg, q)
  /\ IF RegistrationDecides(q)
       THEN /\ Matched(q) # {}
            /\ ServingSets(cfg, q.reg.requestedNssai) # {}
       ELSE NsiGranted(cfg, q) # NoNsi

Decision(cfg, q) ==
  IF ~Granted(cfg, q) THEN Refused
  ELSE IF RegistrationDecides(q) THEN RegistrationGrant(cfg, q)
  ELSE [Refused EXCEPT !.granted = TRUE, !.nsi = NsiGranted(cfg, q)]

(***************************************************************************)
(* The status of the reply: the registration has the last word, unless it  *)
(* decides nothing, and then what the PDU session part made of it stays, 0 *)
(* when there is none.                                                     *)
(***************************************************************************)
PduStatus(cfg, q) ==
  CASE q.pdu = Absent -> 0
    [] q.pdu # Absent /\ (~q.pdu.non_roaming \/ q.home_plmnid) ->
         SERVICE_UNAVAILABLE
    [] OTHER -> IF NsiGranted(cfg, q) = NoNsi THEN BAD_REQUEST ELSE OK

Status(cfg, q) ==
  IF q.reg # Absent /\ Unsupported(q) THEN SERVICE_UNAVAILABLE
  ELSE IF TaiRefused(cfg, q) \/ ~RegistrationDecides(q) THEN PduStatus(cfg, q)
  ELSE IF Granted(cfg, q) THEN OK ELSE FORBIDDEN

-----------------------------------------------------------------------------
Init ==
  /\ nssf_cfg \in Configs
  /\ query    = [w \in Worker |-> NoQuery]
  /\ decision = [w \in Worker |-> Pending]

Ask(w) ==
  /\ query[w] = NoQuery
  /\ query'[w] \in Queries
  /\ query' = [query EXCEPT ![w] = query'[w]]
  /\ UNCHANGED <<nssf_cfg, decision>>

Decide(w) ==
  /\ query[w] # NoQuery
  /\ decision[w] = Pending
  /\ decision' = [decision EXCEPT ![w] = Decision(nssf_cfg, query[w])]
  /\ UNCHANGED <<nssf_cfg, query>>

Answer(w) ==
  /\ decision[w] # Pending
  /\ query'    = [query EXCEPT ![w] = NoQuery]
  /\ decision' = [decision EXCEPT ![w] = Pending]
  /\ UNCHANGED nssf_cfg

Next == \E w \in Worker : Ask(w) \/ Decide(w) \/ Answer(w)

Spec == Init /\ [][Next]_<<nssf_cfg, query, decision>>
=============================================================================

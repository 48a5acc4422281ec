----------------------------- MODULE NssfData -----------------------------
(***************************************************************************)
(* The data the components of the NSSF exchange: the slice configuration   *)
(* (nssf_config.hpp) and the parameters of a Network Slice Information     *)
(* query.  Lists whose order decides an answer (NSIs, AMF sets, the AMFs   *)
(* of a set) are sequences, the others are sets.                           *)
(***************************************************************************)
EXTENDS SnssaiMatching, StatusCodes, Sequences

CONSTANTS
  Tai,        \* tracking areas: a PLMN and a TAC
  NoTai,      \* no tai parameter, or one with an empty TAC
  NfId,       \* AMF instance identifiers
  AmfSetId,   \* AMF set identifiers
  NsiInfo,    \* what is answered for an NSI: nrfId, nsiId, nrfNfMgtUri
  NoNsi,      \* an nsiInformation that is not set
  Absent,     \* a query parameter that is not given
  NotSet,     \* an optional member of a parameter that is not given
  Worker,     \* the threads that serve requests
  Configs     \* the configurations the NSSF may have been started with

\* The global configuration, which all threads use without a lock.
VARIABLE nssf_cfg

ASSUME NoNsiAssumption == NoNsi \notin NsiInfo
ASSUME NotSetAssumption == NotSet \notin AmfSetId

(***************************************************************************)
(* The configuration.  data holds the S-NSSAI lists of an AMF, one for     *)
(* each of its SupportedNssaiAvailabilityData.                             *)
(***************************************************************************)
nsi_info_t == [snssai : Snssai, nsi_info : NsiInfo]
Amf        == [nfId : NfId, data : SUBSET SUBSET Snssai]
amf_info_t == [target_amf_set : AmfSetId, amf_List : Seq(Amf)]

SliceCfg == [nsi_info_list : Seq(nsi_info_t),
             ta_info_list  : SUBSET Tai,
             amf_info_list : Seq(amf_info_t)]

ASSUME ConfigsAssumption == Configs \subseteq SliceCfg

(***************************************************************************)
(* A query.  home_plmnid tells whether one is given; non_roaming whether   *)
(* the roaming indication is NON_ROAMING.                                  *)
(***************************************************************************)
SliceInfoForRegistration ==
  [requestMapping : BOOLEAN, mappingOfNssai : BOOLEAN,
   requestedNssai  : {NotSet} \cup SUBSET Snssai,
   subscribedNssai : {NotSet} \cup SUBSET Snssai]

SliceInfoForPDUSession == [sNssai : Snssai, non_roaming : BOOLEAN]

Query == [reg : SliceInfoForRegistration \cup {Absent},
          pdu : SliceInfoForPDUSession \cup {Absent},
          tai : Tai \cup {NoTai},
          home_plmnid : BOOLEAN]

(***************************************************************************)
(* The inner loop of get_valid_amfset: some availability data of the AMF   *)
(* supports all of the requested S-NSSAIs.                                 *)
(***************************************************************************)
Serves(amf, r_nssai) == \E d \in amf.data : get_valid_amf(d, r_nssai)

\* validate_ta: the PLMN and the TAC of some configured tracking area match.
validate_ta(cfg, tai) == tai \in cfg.ta_info_list

(***************************************************************************)
(* validate_nsi: the information of the first configured S-NSSAI that      *)
(* matches, NoNsi when the loop finds none.                                *)
(***************************************************************************)
FirstOf(positions) ==
  CHOOSE k \in positions : \A l \in positions : k <= l

NsiMatches(cfg, s) ==
  {k \in DOMAIN cfg.nsi_info_list :
     compare_snssai(s, cfg.nsi_info_list[k].snssai)}

validate_nsi(cfg, s) ==
  IF NsiMatches(cfg, s) = {} THEN NoNsi
  ELSE cfg.nsi_info_list[FirstOf(NsiMatches(cfg, s))].nsi_info
=============================================================================

---------------------------- MODULE MCNssfHttp2 ----------------------------
(***************************************************************************)
(* Two streams on the I/O thread: selections whose registration decides,   *)
(* decides nothing, or is not given, and PUTs in one or two DATA frames of *)
(* which none, one or both are documents, for a configured AMF and for     *)
(* one that is not.                                                        *)
(***************************************************************************)
EXTENDS NssfHttp2

CONSTANTS a, amf1, amf2, set1, set2, nsi1, tai1, io1

MCSst == {127}

own_a == [sst |-> 127, sd |-> a]
own   == [sst |-> 127, sd |-> NoSd]

MCConfigs ==
  {[nsi_info_list |-> <<[snssai |-> own_a, nsi_info |-> nsi1]>>,
    ta_info_list  |-> {tai1},
    amf_info_list |->
      <<[target_amf_set |-> set1,
         amf_List |-> <<[nfId |-> amf1, data |-> {{own_a}}]>>]>>]}

Registration(req) ==
  [requestMapping |-> FALSE, mappingOfNssai |-> FALSE,
   requestedNssai |-> req, subscribedNssai |-> req]

MCQueries ==
  [reg : {Registration({own_a}), Registration(NotSet), Absent},
   pdu : {[sNssai |-> own_a, non_roaming |-> TRUE], Absent},
   tai : {tai1}, home_plmnid : {FALSE}]

MCPuts ==
  {[nfId |-> amf, amfSetId |-> set, data |-> {{own}}] :
     <<amf, set>> \in {<<amf1, set1>>, <<amf2, set1>>, <<amf2, set2>>}}

To(resource, method, id, body) ==
  [resource |-> resource, method |-> method,
   nf_type |-> "none", reg |-> "none", pdu |-> "none", ue_cu |-> "none",
   home |-> "none", tai |-> "none", nfId |-> id, body |-> body]

Selection(reg, pdu) ==
  [To("network-slice-information", "GET", EmptyNfId, "none")
     EXCEPT !.nf_type = "AMF", !.reg = reg, !.pdu = pdu, !.tai = "good"]

MCRequests ==
  {Selection("good", "none"), Selection("none", "good"), Selection("good", "good"),
   To("nssai-availability/:nfId", "PUT", amf1, "good"),
   To("nssai-availability/:nfId", "PUT", amf2, "bad")}
=============================================================================

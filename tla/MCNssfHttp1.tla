---------------------------- MODULE MCNssfHttp1 ----------------------------
(***************************************************************************)
(* Two threads.  In the first configuration two sets have one name and an  *)
(* AMF belongs to two sets; in the second an AMF is listed twice in a set, *)
(* and a set is empty.  Requests ask for selections with one part or both, *)
(* put availability, or are refused by the front end.                      *)
(***************************************************************************)
EXTENDS NssfHttp1

CONSTANTS a, amf1, amf2, amf3, set1, set2, set3, nsi1, tai1

MCSst == {127}

own_a == [sst |-> 127, sd |-> a]
own   == [sst |-> 127, sd |-> NoSd]

TheAmf(id, data) == [nfId |-> id, data |-> data]
TheSet(id, amfs) == [target_amf_set |-> id, amf_List |-> amfs]

MCConfigs ==
  {[nsi_info_list |-> <<[snssai |-> own_a, nsi_info |-> nsi1]>>,
    ta_info_list  |-> {tai1},
    amf_info_list |-> sets] :
     sets \in
       {<<TheSet(set1, <<TheAmf(amf1, {{own}}), TheAmf(amf2, {{own_a}})>>),
         TheSet(set1, <<TheAmf(amf1, {{own, own_a}})>>)>>,
        <<TheSet(set2, <<TheAmf(amf2, {{own}}), TheAmf(amf2, {{own_a}})>>),
         TheSet(set1, <<>>)>>}}

Registration(req, sub) ==
  [requestMapping |-> FALSE, mappingOfNssai |-> FALSE,
   requestedNssai |-> req, subscribedNssai |-> sub]

MCQueries ==
  {[reg |-> r, pdu |-> [sNssai |-> own_a, non_roaming |-> TRUE], tai |-> tai1,
    home_plmnid |-> FALSE] :
     r \in {Registration({own_a}, {own_a}), Registration({own, own_a}, {own}),
            Absent}}

MCPuts ==
  [nfId : {amf2}, amfSetId : {set1, set2, set3, NotSet, EmptyId},
   data : {{{own, own_a}}}]
  \cup [nfId : {amf3}, amfSetId : {set1}, data : {{{own, own_a}}}]

MCRequests ==
  [resource : {"network-slice-information"}, method : {"GET"},
   nf_type : {"AMF"}, reg : {"good", "none"}, pdu : {"good"}, ue_cu : {"none"},
   home : {"none"}, tai : {"good"}, nfId : {EmptyNfId}, body : {"none"}]
  \cup
  [resource : {"nssai-availability/:nfId"}, method : {"PUT"},
   nf_type : {"none"}, reg : {"none"}, pdu : {"none"}, ue_cu : {"none"},
   home : {"none"}, tai : {"none"}, nfId : {amf2, amf3}, body : {"good"}]
  \cup
  [resource : {"nssai-availability/:nfId"}, method : {"PUT"},
   nf_type : {"none"}, reg : {"none"}, pdu : {"none"}, ue_cu : {"none"},
   home : {"none"}, tai : {"none"}, nfId : {amf2}, body : {"bad"}]
=============================================================================

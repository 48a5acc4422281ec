------------------------- MODULE MCSliceSelection -------------------------
(***************************************************************************)
(* Small instances of SliceSelection: five slices around the last          *)
(* standardized SST, configurations of up to three AMF sets and two NSIs,  *)
(* and every query over them.                                              *)
(***************************************************************************)
EXTENDS SliceSelection

CONSTANTS a, b,             \* SDs
          amf1, amf2, amf3, \* AMF instances
          set1, set2, set3, \* AMF sets
          nsi1, nsi2,       \* NSIs
          tai1, tai2        \* tracking areas

MCSst == {126, 127}

\* Standardized slices whose SDs differ, and the slices of SST 127.
std_a == [sst |-> 126, sd |-> a]
std_b == [sst |-> 126, sd |-> b]
own_a == [sst |-> 127, sd |-> a]
own_b == [sst |-> 127, sd |-> b]
own   == [sst |-> 127, sd |-> NoSd]

TheAmf(id, data) == [nfId |-> id, data |-> data]
TheSet(id, amfs) == [target_amf_set |-> id, amf_List |-> amfs]
TheNsi(s, i)     == [snssai |-> s, nsi_info |-> i]

\* Nobody serves anything; the second of two sets does; sets that overlap.
MCConfigs ==
  {[nsi_info_list |-> <<>>, ta_info_list |-> {tai1}, amf_info_list |-> <<>>],
   [nsi_info_list |-> <<TheNsi(own_a, nsi1), TheNsi(own_a, nsi2)>>,
    ta_info_list  |-> {tai1},
    amf_info_list |-> <<TheSet(set1, <<>>),
                        TheSet(set2, <<TheAmf(amf1, {{own}, {own_a, std_b}}),
                                       TheAmf(amf2, {{std_a}}),
                                       TheAmf(amf3, {{own_a, own, std_a}})>>)>>],
   [nsi_info_list |-> <<TheNsi(std_b, nsi1), TheNsi(own, nsi2)>>,
    ta_info_list  |-> {tai1, tai2},
    amf_info_list |-> <<TheSet(set1, <<TheAmf(amf1, {{own_b}})>>),
                        TheSet(set2, <<TheAmf(amf2, {{own_b}, {own}}),
                                       TheAmf(amf3, {{std_b, own_a}})>>),
                        TheSet(set3, <<TheAmf(amf2, {{own_a, own, std_b}}),
                                       TheAmf(amf1, {{own_a, own, std_b}})>>)>>]}

Registrations ==
  [requestMapping : BOOLEAN, mappingOfNssai : {FALSE},
   requestedNssai : {NotSet} \cup SUBSET {std_a, own_a, own},
   subscribedNssai : {NotSet, {}, {std_b}, {own_a, own_b}, {std_b, own}}]

Sessions == [sNssai : {std_a, own_a, own}, non_roaming : BOOLEAN]

\* Every query over these values.
MCQueries ==
  [reg : Registrations \cup {Absent}, pdu : Sessions \cup {Absent},
   tai : {tai1, tai2, NoTai}, home_plmnid : {FALSE}]
  \cup
  [reg : {[requestMapping |-> FALSE, mappingOfNssai |-> m,
           requestedNssai |-> {own_a}, subscribedNssai |-> {own_a}] :
            m \in BOOLEAN} \cup {Absent},
   pdu : Sessions \cup {Absent}, tai : {tai1}, home_plmnid : BOOLEAN]
=============================================================================

--------------------------- MODULE MCHttpFrontEnds ---------------------------
(***************************************************************************)
(* Requests to the two servers: every selection and every request with a   *)
(* body over small sets.                                                   *)
(***************************************************************************)
EXTENDS HttpFrontEnds

CONSTANT amf1  \* an AMF instance

Selections ==
  [resource : {"network-slice-information"}, method : {"GET"},
   nf_type : {"none", "AMF", "SMF", "bad"},
   reg : Parameter, pdu : Parameter, ue_cu : Parameter,
   home : {"none", "bad"}, tai : {"good", "bad"},
   nfId : {EmptyNfId}, body : {"none"}]

Others ==
  [resource : Resource,
   method : {"GET", "PUT", "PATCH", "DELETE", "POST", "OPTIONS"},
   nf_type : {"none"}, reg : {"none"}, pdu : {"none"}, ue_cu : {"none"},
   home : {"none"}, tai : {"none"}, nfId : {amf1, EmptyNfId}, body : Body]

MCRequests == Selections \cup Others
=============================================================================

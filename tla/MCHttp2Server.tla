--------------------------- MODULE MCHttp2Server ---------------------------
(***************************************************************************)
(* Requests to the HTTP/2 server that take different paths through it, for *)
(* two streams whose callbacks interleave.                                 *)
(***************************************************************************)
EXTENDS Http2Server

CONSTANTS amf1, amf2  \* AMF instances

Selection(type, reg, pdu, ue_cu, home) ==
  [resource |-> "network-slice-information", method |-> "GET",
   nf_type |-> type, reg |-> reg, pdu |-> pdu, ue_cu |-> ue_cu,
   home |-> home, tai |-> "none", nfId |-> EmptyNfId, body |-> "none"]

To(resource, method, id, body) ==
  [resource |-> resource, method |-> method,
   nf_type |-> "none", reg |-> "none", pdu |-> "none", ue_cu |-> "none",
   home |-> "none", tai |-> "none", nfId |-> id, body |-> body]

Availability(method, id, body) ==
  To("nssai-availability/:nfId", method, id, body)

\* PUTs that differ in all that matters, and requests that take other paths.
MCRequests ==
  {Availability("PUT", amf1, "good"),
   Availability("PUT", amf2, "invalid"),
   Availability("PUT", amf2, "bad"),
   Availability("PUT", EmptyNfId, "good"),
   Availability("PATCH", amf1, "good"),
   Availability("DELETE", amf1, "none"),
   Selection("AMF", "good", "none", "none", "none"),
   Selection("SMF", "none", "good", "none", "none"),
   Selection("NSSF", "none", "good", "good", "none"),
   Selection("AMF", "good", "bad", "none", "none"),
   Selection("AMF", "bad", "good", "none", "none"),
   Selection("AMF", "good", "none", "none", "bad"),
   Selection("AMF", "none", "none", "good", "none"),
   To("network-slice-information", "POST", EmptyNfId, "none"),
   To("/", "GET", EmptyNfId, "none"),
   To("/", "POST", EmptyNfId, "none"),
   To("nnssf-slice-config", "GET", EmptyNfId, "none"),
   To("subscriptions", "POST", EmptyNfId, "none")}
=============================================================================

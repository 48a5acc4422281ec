----------------------------- MODULE HttpData -----------------------------
(***************************************************************************)
(* Requests as the two HTTP front ends of the NSSF see them, and the       *)
(* statuses that the application may compute for them: which one it is, is *)
(* the subject of SliceSelection and NssaiAvailability.                    *)
(***************************************************************************)
EXTENDS Naturals, Sequences, StatusCodes

CONSTANTS
  NfInstance,   \* NF instances named in a path
  EmptyNfId,    \* an empty last segment of the path
  Requests      \* the requests that clients send

\* A query parameter is not given, can be parsed, or throws when it is parsed.
Parameter == {"none", "good", "bad"}

\* A body that is "invalid" is JSON, but validate() throws.
Body == {"none", "good", "invalid", "bad"}

\* "unversioned": the path of a subscription without the API version;
\* "/": also any path that no other resource has.
Resource == {"network-slice-information", "nssai-availability/:nfId",
             "nssai-availability", "subscriptions",
             "subscriptions/:subscriptionId", "unversioned",
             "nnssf-slice-config", "/"}

Request ==
  [resource : Resource,
   method   : {"GET", "PUT", "PATCH", "DELETE", "POST", "OPTIONS"},
   nf_type  : {"none", "AMF", "NSSF", "SMF", "NWDAF", "bad"},
   reg : Parameter, pdu : Parameter, ue_cu : Parameter,
   home : Parameter, tai : Parameter,
   nfId : NfInstance \cup {EmptyNfId},
   body : Body]

ASSUME RequestsAssumption == Requests \subseteq Request
ASSUME EmptyNfIdAssumption == EmptyNfId \notin NfInstance

\* The http_code of a selection and of a PUT; 0 is a status that is not set.
SelectionCode == {0, OK, BAD_REQUEST, FORBIDDEN, SERVICE_UNAVAILABLE}
PutCode       == {0, NO_CONTENT, SERVICE_UNAVAILABLE}

\* The requests that ask for a selection with one of the two parts.
AsksSelection(r) ==
  /\ r.resource = "network-slice-information"
  /\ r.method = "GET"
  /\ r.reg # "none" \/ r.pdu # "none"

PutsAvailability(r) ==
  /\ r.resource = "nssai-availability/:nfId"
  /\ r.method = "PUT"
  /\ r.nfId # EmptyNfId
  /\ r.body # "none"
=============================================================================

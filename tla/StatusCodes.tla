---------------------------- MODULE StatusCodes ----------------------------
(***************************************************************************)
(* The HTTP status codes the NSSF answers with                             *)
(* (oai::common::sbi::http_status_code of the common submodule, and        *)
(* Pistache::Http::Code), which agree on their values.                     *)
(***************************************************************************)
OK                    == 200
NO_CONTENT            == 204
BAD_REQUEST           == 400
FORBIDDEN             == 403
NOT_FOUND             == 404
INTERNAL_SERVER_ERROR == 500
SERVICE_UNAVAILABLE   == 503
=============================================================================

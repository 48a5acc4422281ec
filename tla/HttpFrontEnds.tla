--------------------------- MODULE HttpFrontEnds ---------------------------
(***************************************************************************)
(* The two front ends side by side: nssf starts one of them, for the HTTP  *)
(* version that is configured, and the same request, sent to each, is to   *)
(* have the same answer when the application computes the same for it.     *)
(* What the HTTP/2 server has no pattern for is sent to HTTP/1 only.       *)
(***************************************************************************)
EXTENDS Http1Server

CONSTANTS NoHead, MaxFrames  \* as in Http2Server

ASSUME FrontNoHeadAssumption == NoHead \notin Nat
ASSUME FrontFramesAssumption == MaxFrames \in Nat

VARIABLES
  code,  \* what the application computes for the request of a client
  stream, frames, arrived, head, stream_computed, handled, nfId

vars2 == <<stream, frames, arrived, head, stream_computed, handled, nfId>>

HasPattern(r) ==
  r.resource \in {"network-slice-information", "nssai-availability/:nfId",
                  "subscriptions", "nnssf-slice-config", "/"}

Two == INSTANCE Http2Server WITH
  Stream <- Thread, Requests <- {r \in Requests : HasPattern(r)},
  computed <- stream_computed

FrontInit == Init /\ Two!Init /\ code = [t \in Thread |-> 0]

\* A client, which has a thread of the one server and a stream of the other.
Ask(t) ==
  \E r \in Requests : 
    /\ Receive(t, r)
    /\ IF HasPattern(r) THEN \E f \in Two!Framings(r.body) : Two!Headers(t, r, f)
                        ELSE UNCHANGED vars2
    /\ \E c \in IF r.resource = "network-slice-information" THEN SelectionCode
                                                            ELSE PutCode :
         code' = [code EXCEPT ![t] = c]

HandleOne(t) ==
  /\ at[t] # "returned" /\ Handle(t)
  /\ computed'[t] \in {computed[t], Append(computed[t], code[t])}
  /\ UNCHANGED <<vars2, code>>

HandleTwo(t) ==
  /\ Two!Callback(t)
  /\ stream_computed'[t] \in {stream_computed[t],
                              Append(stream_computed[t], code[t])}
  /\ UNCHANGED <<http1_vars, code>>

Answered(t) == at[t] = "returned" /\ stream[t] = "ended"

Done(t) ==
  /\ Return(t)
  /\ \/ Answered(t) /\ Two!Close(t)
     \/ stream[t] = "idle" /\ UNCHANGED vars2
  /\ code' = [code EXCEPT ![t] = 0]

FrontNext == \E t \in Thread : Ask(t) \/ HandleOne(t) \/ HandleTwo(t) \/ Done(t)

FrontSpec == FrontInit /\ [][FrontNext]_<<http1_vars, vars2, code>>

\* Both servers run.
FrontFairSpec ==
  FrontSpec /\ \A t \in Thread : WF_<<http1_vars, vars2, code>>(HandleOne(t))

-----------------------------------------------------------------------------
(* Properties *)

\* What both versions support: one part, from an AMF or an NSSF, parsable.
Supported(r, f) ==
  \/ /\ r.resource = "network-slice-information" /\ r.method = "GET"
     /\ r.nf_type \in {"AMF", "NSSF"} /\ r.ue_cu = "none"
     /\ {r.reg, r.pdu} = {"good", "none"} /\ "bad" \notin {r.home, r.tai}
  \/ PutsAvailability(r) /\ r.body \in {"good", "bad"} /\ Len(f) = 1

(***************************************************************************)
(* A selection that both versions support, and a PUT that comes in one     *)
(* DATA frame and has no invalid value, have the same status on HTTP/1 and *)
(* on HTTP/2, although the two front ends look up and parse parameters in  *)
(* different orders.                                                       *)
(***************************************************************************)
AgreeWhereSupported ==
  \A t \in Thread :
    Answered(t) /\ Supported(request[t], frames[t]) => sent[t] = <<head[t]>>
=============================================================================

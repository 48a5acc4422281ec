---------------------------- MODULE NssfService ----------------------------
(***************************************************************************)
(* The two services on one configuration: the threads of the HTTP server   *)
(* handle selections and PUTs in any order, all of them on the one global  *)
(* nssf_cfg, which no lock protects.                                       *)
(***************************************************************************)
EXTENDS SliceSelection, NssaiAvailability

put_only == <<put_pc, put, put_code, put_returned, amf_info, at>>

selection_only == <<pc, query, results, auth_slice_info, scan>>

service_vars == <<vars, put_only>>

ServiceInit == Init /\ PutInit

\* A thread handles one request at a time.
Free(w) == pc[w] = "idle" /\ put_pc[w] = "idle"

ServiceSelect(w) ==
  /\ \/ Free(w) /\ \E q \in Queries : Receive(w, q)
     \/ Serve(w)
  /\ UNCHANGED put_only

ServicePut(w) ==
  /\ \/ Free(w) /\ \E r \in Puts : ReceivePut(w, r)
     \/ HandlePut(w)
  /\ UNCHANGED selection_only

ServiceNext == \E w \in Worker : ServiceSelect(w) \/ ServicePut(w)

ServiceSpec == ServiceInit /\ [][ServiceNext]_service_vars

-----------------------------------------------------------------------------
(* Properties *)

(***************************************************************************)
(* Selections get the decision that the configuration the NSSF was started *)
(* with determines, although PUTs for the same AMF sets are handled in the *)
(* middle of their scans: no step of a PUT reaches what a selection reads. *)
(***************************************************************************)
ServiceImplementsAuthorization == Abstract!Spec

\* How many phases of its handlers a thread has before it.
SelectionLeft(w) ==
  CASE pc[w] = "pdu"  -> 4 [] pc[w] = "registration" -> 3
    [] pc[w] = "scan" -> 2 [] pc[w] = "done"         -> 1 [] pc[w] = "idle" -> 0

PutLeft(w) ==
  CASE put_pc[w] = "handler" -> 3 [] put_pc[w] = "amfs" -> 2
    [] put_pc[w] = "done"    -> 1 [] put_pc[w] = "idle" -> 0

\* How far the loops are from their ends: over the AMF sets, and over AMFs.
SetsLeft(w) == IF pc[w] = "scan" THEN Len(AmfSets) + 1 - scan[w].amfSet ELSE 0

ScannedLeft(w) ==
  IF AtAmfSet(w) THEN Len(AmfList(w)) + 1 - scan[w].amfList ELSE 0

CopiedLeft(w) == IF put_pc[w] = "amfs" THEN Len(AmfsAt(w)) + 1 - at[w] ELSE 0

StepsLeft(w) == <<SelectionLeft(w) + PutLeft(w), SetsLeft(w), ScannedLeft(w) + CopiedLeft(w)>>

\* The lexicographic order.
Less(m, n) == \E i \in 1..3 : m[i] < n[i] /\ \A j \in 1..(i - 1) : m[j] = n[j]

(***************************************************************************)
(* The nested loops of get_valid_amfset and the loop of a PUT come to      *)
(* their ends: each step of a thread in a handler takes the phases, the    *)
(* sets and the AMFs it has left down in the lexicographic order of        *)
(* natural numbers, and no step of another thread takes them up.           *)
(***************************************************************************)
HandlersAdvance ==
  [][\A w \in Worker : ~Free(w) =>
       /\ StepsLeft(w) \in [1..3 -> Nat]
       /\ \/ UNCHANGED <<pc[w], put_pc[w], scan[w], at[w], StepsLeft(w)>>
          \/ Less(StepsLeft(w)', StepsLeft(w))
    ]_service_vars
=============================================================================

------------------------- MODULE NssaiAvailability -------------------------
(***************************************************************************)
(* The PUT of Nnssf_NSSAIAvailability (nssf_slice_avail::                  *)
(* handle_create_nssai_availability under its nssf_app wrapper): an AMF    *)
(* says which slices it supports in which areas.  The handler works on     *)
(* amf_info, a copy of the AMF set it finds, and its loop on copies of the *)
(* AMFs in it; the configuration itself is only read.                      *)
(***************************************************************************)
EXTENDS NssfData, FiniteSets

CONSTANTS
  Puts,       \* the requests its clients send
  EmptyId,    \* an amfSetId that is the empty string
  NoPut,      \* the request of a thread that serves nobody
  NoAmfInfo   \* an amf_info that is not filled in

Put == [nfId : NfId, amfSetId : AmfSetId \cup {NotSet, EmptyId},
        data : SUBSET SUBSET Snssai]

ASSUME PutsAssumption == Puts \subseteq Put
ASSUME EmptyIdAssumption == EmptyId \notin AmfSetId \cup {NotSet}

VARIABLES
  put_pc,        \* where a thread is in the handling of its PUT
  put,           \* the request
  put_code,      \* http_code
  put_returned,  \* whether the wrapper logged a success
  amf_info,      \* the handler's copy of the AMF set
  at             \* the position of the loop over the AMFs of amf_info

put_vars == <<nssf_cfg, put_pc, put, put_code, put_returned, amf_info, at>>

PutInit ==
  /\ nssf_cfg \in Configs
  /\ put_pc       = [w \in Worker |-> "idle"]
  /\ put          = [w \in Worker |-> NoPut]
  /\ put_code     = [w \in Worker |-> 0]
  /\ put_returned = [w \in Worker |-> FALSE]
  /\ amf_info     = [w \in Worker |-> NoAmfInfo]
  /\ at           = [w \in Worker |-> 1]

ReceivePut(w, r) ==
  /\ put_pc[w] = "idle"
  /\ put_pc' = [put_pc EXCEPT ![w] = "handler"]
  /\ put'    = [put EXCEPT ![w] = r]
  /\ UNCHANGED <<nssf_cfg, put_code, put_returned, amf_info, at>>

\* The handler returns, and the wrapper logs a success.
ReturnPut(w, code, success) ==
  /\ put_pc'       = [put_pc EXCEPT ![w] = "done"]
  /\ put_code'     = [put_code EXCEPT ![w] = code]
  /\ put_returned' = [put_returned EXCEPT ![w] = success]
  /\ UNCHANGED <<nssf_cfg, put>>

RefuseWithoutAmfSet(w) ==
  /\ put_pc[w] = "handler"
  /\ put[w].amfSetId = NotSet
  /\ ReturnPut(w, SERVICE_UNAVAILABLE, FALSE)
  /\ UNCHANGED <<amf_info, at>>

\* An empty amfSetId is taken for a success (a plausible slip).
ignore_empty_no_content(w) ==
  /\ put_pc[w] = "handler"
  /\ put[w].amfSetId = EmptyId
  /\ ReturnPut(w, NO_CONTENT, TRUE)
  /\ UNCHANGED <<amf_info, at>>

\* An empty amfSetId is neither looked up nor refused: http_code stays 0.
IgnoreEmptyAmfSet(w) ==
  /\ put_pc[w] = "handler"
  /\ put[w].amfSetId = EmptyId
  /\ ReturnPut(w, put_code[w], TRUE)
  /\ UNCHANGED <<amf_info, at>>

\* amf_set_present: the positions of the sets of that name, and the copy.
SetsNamed(id) ==
  {k \in DOMAIN nssf_cfg.amf_info_list :
     nssf_cfg.amf_info_list[k].target_amf_set = id}

CopyOfSet(w) == nssf_cfg.amf_info_list[FirstOf(SetsNamed(put[w].amfSetId))]

LooksUpSet(w) == /\ put_pc[w] = "handler"
                 /\ put[w].amfSetId \notin {NotSet, EmptyId}

RefuseUnknownAmfSet(w) ==
  /\ LooksUpSet(w)
  /\ SetsNamed(put[w].amfSetId) = {}
  /\ ReturnPut(w, SERVICE_UNAVAILABLE, FALSE)
  /\ UNCHANGED <<amf_info, at>>

FindAmfSet(w) ==
  /\ LooksUpSet(w)
  /\ SetsNamed(put[w].amfSetId) # {}
  /\ amf_info' = [amf_info EXCEPT ![w] = CopyOfSet(w)]
  /\ put_pc'   = [put_pc EXCEPT ![w] = "amfs"]
  /\ UNCHANGED <<nssf_cfg, put, put_code, put_returned, at>>

\* The loop over the AMFs of the copy.
AmfsAt(w) == amf_info[w].amf_List

AtAmf(w) == put_pc[w] = "amfs" /\ at[w] <= Len(AmfsAt(w))

\* The loop stays at the AMF (a plausible slip).
next_amf_stuck(w) ==
  /\ AtAmf(w)
  /\ AmfsAt(w)[at[w]].nfId # put[w].nfId
  /\ UNCHANGED put_vars

NextAmf(w) ==
  /\ AtAmf(w)
  /\ AmfsAt(w)[at[w]].nfId # put[w].nfId
  /\ at' = [at EXCEPT ![w] = @ + 1]
  /\ UNCHANGED <<nssf_cfg, put_pc, put, put_code, put_returned, amf_info>>

\* update_done is not set: the AMF is appended as well (a plausible slip).
replace_and_append(w) ==
  /\ AtAmf(w)
  /\ AmfsAt(w)[at[w]].nfId = put[w].nfId
  /\ at' = [at EXCEPT ![w] = Len(AmfsAt(w)) + 1]
  /\ UNCHANGED <<nssf_cfg, put_pc, put, put_code, put_returned, amf_info>>

\* The loop works on references into the configuration (a plausible slip).
replace_in_config(w) ==
  /\ AtAmf(w)
  /\ AmfsAt(w)[at[w]].nfId = put[w].nfId
  /\ LET k == FirstOf(SetsNamed(put[w].amfSetId))
     IN  nssf_cfg' = [nssf_cfg EXCEPT
                        !.amf_info_list[k].amf_List[at[w]].data = put[w].data]
  /\ put_pc'       = [put_pc EXCEPT ![w] = "done"]
  /\ put_code'     = [put_code EXCEPT ![w] = NO_CONTENT]
  /\ put_returned' = [put_returned EXCEPT ![w] = TRUE]
  /\ UNCHANGED <<put, amf_info, at>>

\* What is assigned is the loop's own copy of the AMF: amf_info keeps its AMF.
ReplaceAmf(w) ==
  /\ AtAmf(w)
  /\ AmfsAt(w)[at[w]].nfId = put[w].nfId
  /\ ReturnPut(w, NO_CONTENT, TRUE)
  /\ UNCHANGED <<amf_info, at>>

\* The loop ended without a match: the AMF is appended to the copy.
AppendAmf(w) ==
  /\ put_pc[w] = "amfs"
  /\ at[w] > Len(AmfsAt(w))
  /\ amf_info' = [amf_info EXCEPT
                    ![w].amf_List = Append(@, [nfId |-> put[w].nfId,
                                               data |-> put[w].data])]
  /\ ReturnPut(w, NO_CONTENT, TRUE)
  /\ UNCHANGED at

\* The loop of the next request starts before the list (an off-by-one).
reply_cursor_zero(w) ==
  /\ put_pc[w] = "done"
  /\ put_pc'       = [put_pc EXCEPT ![w] = "idle"]
  /\ put'          = [put EXCEPT ![w] = NoPut]
  /\ put_code'     = [put_code EXCEPT ![w] = 0]
  /\ put_returned' = [put_returned EXCEPT ![w] = FALSE]
  /\ amf_info'     = [amf_info EXCEPT ![w] = NoAmfInfo]
  /\ at'           = [at EXCEPT ![w] = 0]
  /\ UNCHANGED nssf_cfg

(***************************************************************************)
(* The front end sends the reply, and the request's variables are gone:    *)
(* those of the next request start from their initial values.              *)
(***************************************************************************)
ReplyPut(w) ==
  /\ put_pc[w] = "done"
  /\ put_pc'       = [put_pc EXCEPT ![w] = "idle"]
  /\ put'          = [put EXCEPT ![w] = NoPut]
  /\ put_code'     = [put_code EXCEPT ![w] = 0]
  /\ put_returned' = [put_returned EXCEPT ![w] = FALSE]
  /\ amf_info'     = [amf_info EXCEPT ![w] = NoAmfInfo]
  /\ at'           = [at EXCEPT ![w] = 1]
  /\ UNCHANGED nssf_cfg

HandlePut(w) ==
  \/ RefuseWithoutAmfSet(w) \/ IgnoreEmptyAmfSet(w) \/ RefuseUnknownAmfSet(w)
  \/ FindAmfSet(w) \/ NextAmf(w) \/ ReplaceAmf(w) \/ AppendAmf(w)
  \/ ReplyPut(w)

PutNext == \E w \in Worker : \/ \E r \in Puts : ReceivePut(w, r)
                             \/ HandlePut(w)

PutSpec == PutInit /\ [][PutNext]_put_vars

-----------------------------------------------------------------------------
(* Properties *)

\* The types of the variables.
PutTypeOK ==
  /\ nssf_cfg \in SliceCfg
  /\ put_pc \in [Worker -> {"idle", "handler", "amfs", "done"}]
  /\ put \in [Worker -> Put \cup {NoPut}]
  /\ put_code \in [Worker -> {0, NO_CONTENT, SERVICE_UNAVAILABLE}]
  /\ put_returned \in [Worker -> BOOLEAN]
  /\ amf_info \in [Worker -> amf_info_t \cup {NoAmfInfo}]
  /\ at \in [Worker -> Nat \ {0}]

\* The status of a PUT, which the request and the configuration determine.
PutStatus(r) ==
  IF r.amfSetId = EmptyId THEN 0
  ELSE IF SetsNamed(r.amfSetId) = {} THEN SERVICE_UNAVAILABLE ELSE NO_CONTENT

Configured(w) == SetsNamed(put[w].amfSetId) # {}

(***************************************************************************)
(* Why a PUT has its status: 204 if a configured AMF set has the name that *)
(* the request gives, 503 if it gives none or an unknown one, and no       *)
(* status at all (0) if the name is empty.                                 *)
(***************************************************************************)
PutStatusExplained ==
  \A w \in Worker : put_pc[w] = "done" =>
    /\ put_code[w] = NO_CONTENT <=> Configured(w)
    /\ put_code[w] = 0 <=> put[w].amfSetId = EmptyId
    /\ put_returned[w] <=> put_code[w] # SERVICE_UNAVAILABLE

Entries(list, id) == {i \in DOMAIN list : list[i].nfId = id}

(***************************************************************************)
(* A PUT adds an entry to the handler's copy of the set only for an AMF    *)
(* that has none there, with the slices that the PUT sends, so that it     *)
(* never gets a second one; the entries of the other AMFs keep their       *)
(* places and their slices.  Nothing is said of the slices in an entry     *)
(* that the AMF had: the code logs that it replaces them, and does not.    *)
(***************************************************************************)
OneEntryPerAmf ==
  \A w \in Worker : put_pc[w] = "done" /\ put_code[w] = NO_CONTENT =>
    LET before == CopyOfSet(w).amf_List
        after  == amf_info[w].amf_List
        own    == Entries(before, put[w].nfId)
    IN  /\ Cardinality(Entries(after, put[w].nfId)) =
             IF own = {} THEN 1 ELSE Cardinality(own)
        /\ Len(after) = Len(before) + IF own = {} THEN 1 ELSE 0
        /\ own = {} => after[Len(after)] = [nfId |-> put[w].nfId,
                                            data |-> put[w].data]
        /\ \A i \in DOMAIN before \ own : after[i] = before[i]

(***************************************************************************)
(* "NSSAI_AVAIL: NssaiAvailabilityInfo Successfully Created/Replaced !!!"  *)
(* (nssf_app.cpp): when this is logged, the AMF set named in the request   *)
(* has the AMF with the slices of the request.                             *)
(***************************************************************************)
PutTakesEffect ==
  \A w \in Worker : put_pc[w] = "done" /\ put_returned[w] =>
    \E k \in SetsNamed(put[w].amfSetId) :
      \E i \in DOMAIN nssf_cfg.amf_info_list[k].amf_List :
        nssf_cfg.amf_info_list[k].amf_List[i] =
          [nfId |-> put[w].nfId, data |-> put[w].data]
=============================================================================

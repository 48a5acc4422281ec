------------------------- MODULE NssfServiceProofs -------------------------
(***************************************************************************)
(* The PUT, and the composition of the two services: its steps are steps   *)
(* of one service or leave it alone, so that what is proved of a service   *)
(* by itself holds while requests for the other interleave with it.        *)
(***************************************************************************)
EXTENDS NssfService, SliceSelectionProofs

\* No step of a PUT writes the configuration.
LEMMA PutsOnlyRead ==
  ASSUME NEW w \in Worker,
         \/ HandlePut(w)
         \/ \E r \in Puts : ReceivePut(w, r)
  PROVE  nssf_cfg' = nssf_cfg
<1>1. CASE \E r \in Puts : ReceivePut(w, r)
  BY <1>1 DEF ReceivePut
<1>2. CASE \/ RefuseWithoutAmfSet(w)
           \/ IgnoreEmptyAmfSet(w)
           \/ RefuseUnknownAmfSet(w)
           \/ ReplaceAmf(w) \/ AppendAmf(w)
  BY <1>2 DEF RefuseWithoutAmfSet, IgnoreEmptyAmfSet,
              RefuseUnknownAmfSet, ReplaceAmf,
              AppendAmf, ReturnPut
<1>3. CASE \/ FindAmfSet(w) \/ NextAmf(w)
           \/ ReplyPut(w)
  BY <1>3 DEF FindAmfSet, NextAmf,
              ReplyPut
<1> QED
  BY <1>1, <1>2, <1>3 DEF HandlePut

LEMMA ServiceStep == [ServiceNext]_service_vars => [Next]_vars
<1> SUFFICES ASSUME [ServiceNext]_service_vars PROVE [Next]_vars
  OBVIOUS
<1>1. CASE UNCHANGED service_vars
  BY <1>1 DEF service_vars
<1>2. ASSUME NEW w \in Worker, ServiceSelect(w) PROVE Next
  BY <1>2 DEF ServiceSelect, Next
<1>3. ASSUME NEW w \in Worker, ServicePut(w) PROVE UNCHANGED vars
  <2>1. nssf_cfg' = nssf_cfg
    BY <1>3, PutsOnlyRead DEF ServicePut
  <2> QED
    BY <1>3, <2>1 DEF ServicePut, selection_only, vars, results
<1> QED
  BY <1>1, <1>2, <1>3 DEF ServiceNext

\* The selection, as part of the service, behaves as it does by itself.
THEOREM ServiceRunsSelection == ServiceSpec => Spec
<1>1. ServiceInit => Init
  BY DEF ServiceInit
<1> QED
  BY <1>1, ServiceStep, PTL DEF ServiceSpec, Spec

(***************************************************************************)
(* Whatever PUTs other threads handle meanwhile, selections are given the  *)
(* decision that the configuration determines.                             *)
(***************************************************************************)
THEOREM PutsDisturbNoSelection == ServiceSpec => ServiceImplementsAuthorization
  BY ServiceRunsSelection, HandlersImplementAuthorization
  DEF ServiceImplementsAuthorization, ImplementsAuthorization

-----------------------------------------------------------------------------
(* The PUT by itself *)

\* What a thread knows of its PUT in each phase, its loop among it.
PutPhaseOf(w) ==
  /\ put_pc[w] # "idle" => put[w] \in Put
  /\ put_pc[w] # "done" => put_code[w] = 0
  /\ put_pc[w] \in {"idle", "handler"} => at[w] = 1
  /\ put_pc[w] = "amfs" =>
       /\ put[w].amfSetId \notin {NotSet, EmptyId}
       /\ Configured(w)
       /\ amf_info[w] = CopyOfSet(w)
       /\ at[w] <= Len(AmfsAt(w)) + 1
       /\ \A i \in 1 .. at[w] - 1 : i \in DOMAIN AmfsAt(w) =>
            AmfsAt(w)[i].nfId # put[w].nfId

StatusOfPut(w) ==
  put_pc[w] = "done" =>
    /\ put_code[w] = NO_CONTENT <=> Configured(w)
    /\ put_code[w] = 0 <=> put[w].amfSetId = EmptyId
    /\ put_returned[w] <=> put_code[w] # SERVICE_UNAVAILABLE

EntryOfPut(w) ==
  put_pc[w] = "done" /\ put_code[w] = NO_CONTENT =>
    LET before == CopyOfSet(w).amf_List
        after  == amf_info[w].amf_List
        own    == Entries(before, put[w].nfId)
    IN  /\ Cardinality(Entries(after, put[w].nfId)) =
             IF own = {} THEN 1 ELSE Cardinality(own)
        /\ Len(after) = Len(before) + IF own = {} THEN 1 ELSE 0
        /\ own = {} => after[Len(after)] = [nfId |-> put[w].nfId,
                                            data |-> put[w].data]
        /\ \A i \in DOMAIN before \ own : after[i] = before[i]

PutInvOf(w) == PutPhaseOf(w) /\ StatusOfPut(w) /\ EntryOfPut(w)

PutIInv == PutTypeOK /\ \A w \in Worker : PutInvOf(w)

\* A set that is named is configured, and not named by what is no name.
LEMMA CopyType ==
  ASSUME PutTypeOK, NEW w \in Worker
  PROVE  /\ put[w].amfSetId \in {NotSet, EmptyId} => ~Configured(w)
         /\ Configured(w) => CopyOfSet(w) \in amf_info_t
<1> DEFINE named == SetsNamed(put[w].amfSetId)
<1>1. nssf_cfg.amf_info_list \in Seq(amf_info_t)
  BY DEF PutTypeOK, SliceCfg
<1>2. named \subseteq DOMAIN nssf_cfg.amf_info_list /\ named \in SUBSET Nat
  BY <1>1 DEF SetsNamed
<1>3. ASSUME NEW k \in DOMAIN nssf_cfg.amf_info_list
      PROVE  /\ nssf_cfg.amf_info_list[k] \in amf_info_t
             /\ nssf_cfg.amf_info_list[k].target_amf_set \in AmfSetId
  <2>1. nssf_cfg.amf_info_list[k] \in amf_info_t
    BY <1>1, <1>3, ElementOfSeq
  <2> QED
    BY <2>1 DEF amf_info_t
<1>4. ASSUME put[w].amfSetId \in {NotSet, EmptyId} PROVE named = {}
  BY <1>3, <1>4, NotSetAssumption, EmptyIdAssumption DEF SetsNamed
<1>5. ASSUME named # {} PROVE CopyOfSet(w) \in amf_info_t
  <2> HIDE DEF named
  <2>1. FirstOf(named) \in named
    BY <1>2, <1>5, FirstOfIsFirst
  <2>2. FirstOf(named) \in DOMAIN nssf_cfg.amf_info_list
    BY <1>2, <2>1
  <2> QED
    BY <1>3, <2>2 DEF CopyOfSet, named
<1> QED
  BY <1>4, <1>5 DEF Configured

LEMMA PutInitIInv == PutInit => PutIInv
  BY ConfigsAssumption
  DEF PutInit, PutIInv, PutTypeOK, PutInvOf, PutPhaseOf, StatusOfPut, EntryOfPut

LEMMA PutTypeStep == PutIInv /\ [PutNext]_put_vars => PutTypeOK'
<1> SUFFICES ASSUME PutIInv, [PutNext]_put_vars PROVE PutTypeOK'
  OBVIOUS
<1>0. PutTypeOK /\ \A w \in Worker : PutPhaseOf(w)
  BY DEF PutIInv, PutInvOf
<1>1. ASSUME NEW w \in Worker, NEW r \in Puts, ReceivePut(w, r)
      PROVE  PutTypeOK'
  BY <1>0, <1>1, PutsAssumption DEF ReceivePut, PutTypeOK
<1>2. ASSUME NEW w \in Worker,
             RefuseWithoutAmfSet(w) \/ IgnoreEmptyAmfSet(w)
               \/ RefuseUnknownAmfSet(w) \/ ReplaceAmf(w)
      PROVE  PutTypeOK'
  BY <1>0, <1>2 DEF RefuseWithoutAmfSet, IgnoreEmptyAmfSet,
                    RefuseUnknownAmfSet, ReplaceAmf, ReturnPut, PutTypeOK
<1>3. ASSUME NEW w \in Worker, FindAmfSet(w)
      PROVE  PutTypeOK'
  <2>1. CopyOfSet(w) \in amf_info_t
    BY <1>0, <1>3, CopyType DEF FindAmfSet, Configured
  <2> QED
    BY <1>0, <1>3, <2>1 DEF FindAmfSet, PutTypeOK
<1>4. ASSUME NEW w \in Worker, NextAmf(w)
      PROVE  PutTypeOK'
  BY <1>0, <1>4 DEF NextAmf, PutTypeOK
<1>5. ASSUME NEW w \in Worker, AppendAmf(w)
      PROVE  PutTypeOK'
  <2> DEFINE own == [nfId |-> put[w].nfId, data |-> put[w].data]
             new == [amf_info[w] EXCEPT !.amf_List = Append(@, own)]
  <2>1. put[w] \in Put /\ amf_info[w] \in amf_info_t
    BY <1>0, <1>5, CopyType DEF AppendAmf, PutPhaseOf
  <2>2. own \in Amf
    BY <2>1 DEF Put, Amf
  <2> HIDE DEF own
  <2>3. new \in amf_info_t
    BY <2>1, <2>2 DEF amf_info_t
  <2>4. amf_info' = [amf_info EXCEPT ![w] = new]
    BY <1>5 DEF AppendAmf, own
  <2> HIDE DEF new
  <2> QED
    BY <1>0, <1>5, <2>3, <2>4 DEF AppendAmf, ReturnPut, PutTypeOK
<1>6. ASSUME NEW w \in Worker, ReplyPut(w)
      PROVE  PutTypeOK'
  BY <1>0, <1>6 DEF ReplyPut, PutTypeOK
<1>7. CASE UNCHANGED put_vars
  BY <1>0, <1>7 DEF put_vars, PutTypeOK
<1> QED
  BY <1>1, <1>2, <1>3, <1>4, <1>5, <1>6, <1>7 DEF PutNext, HandlePut

\* Everything that is said of the PUT of thread v.
PutUntouched(v) ==
  /\ put_pc'[v] = put_pc[v]
  /\ put'[v] = put[v]
  /\ put_code'[v] = put_code[v]
  /\ put_returned'[v] = put_returned[v]
  /\ amf_info'[v] = amf_info[v]
  /\ at'[v] = at[v]
  /\ nssf_cfg' = nssf_cfg

LEMMA PutFrame ==
  ASSUME NEW v \in Worker, PutInvOf(v), PutUntouched(v)
  PROVE  PutInvOf(v)'
<1>1. PutPhaseOf(v)'
  BY DEF PutInvOf, PutUntouched, PutPhaseOf, Configured, CopyOfSet, SetsNamed,
         AmfsAt
<1>2. StatusOfPut(v)'
  BY DEF PutInvOf, PutUntouched, StatusOfPut, Configured, SetsNamed
<1>3. EntryOfPut(v)'
  <2>1. /\ EntryOfPut(v) /\ CopyOfSet(v)' = CopyOfSet(v)
        /\ put_pc'[v] = put_pc[v] /\ put_code'[v] = put_code[v]
        /\ put'[v] = put[v] /\ amf_info'[v] = amf_info[v]
    BY DEF PutInvOf, PutUntouched, CopyOfSet, SetsNamed
  <2> QED
    BY <2>1 DEF EntryOfPut
<1> QED
  BY <1>1, <1>2, <1>3 DEF PutInvOf

LEMMA OtherPutsUntouched ==
  ASSUME PutTypeOK, NEW w \in Worker, NEW v \in Worker, v # w,
         HandlePut(w) \/ \E r \in Puts : ReceivePut(w, r)
  PROVE  PutUntouched(v)
<1>1. CASE \E r \in Puts : ReceivePut(w, r)
  BY <1>1 DEF ReceivePut, PutUntouched, PutTypeOK
<1>2. CASE \/ RefuseWithoutAmfSet(w) \/ IgnoreEmptyAmfSet(w)
           \/ RefuseUnknownAmfSet(w) \/ ReplaceAmf(w) \/ AppendAmf(w)
  BY <1>2 DEF RefuseWithoutAmfSet, IgnoreEmptyAmfSet, RefuseUnknownAmfSet,
              ReplaceAmf, AppendAmf, ReturnPut, PutUntouched, PutTypeOK
<1>3. CASE FindAmfSet(w) \/ NextAmf(w) \/ ReplyPut(w)
  BY <1>3 DEF FindAmfSet, NextAmf, ReplyPut, PutUntouched, PutTypeOK
<1> QED
  BY <1>1, <1>2, <1>3 DEF HandlePut

\* What the return of the handler establishes, whichever way it returns.
LEMMA PutReturns ==
  ASSUME PutTypeOK, NEW w \in Worker, PutPhaseOf(w), put_pc[w] # "idle",
         NEW code \in {0, NO_CONTENT, SERVICE_UNAVAILABLE},
         NEW success \in BOOLEAN,
         ReturnPut(w, code, success),
         code = NO_CONTENT <=> Configured(w),
         code = 0 <=> put[w].amfSetId = EmptyId,
         success <=> code # SERVICE_UNAVAILABLE
  PROVE  PutPhaseOf(w)' /\ StatusOfPut(w)'
<1>1. /\ put_pc'[w] = "done" /\ put_code'[w] = code
      /\ put_returned'[w] = success
      /\ put' = put /\ nssf_cfg' = nssf_cfg
  BY DEF ReturnPut, PutTypeOK
<1>2. PutPhaseOf(w)'
  BY <1>1 DEF PutPhaseOf
<1>3. StatusOfPut(w)'
  BY <1>1 DEF StatusOfPut, Configured, SetsNamed
<1> QED
  BY <1>2, <1>3

\* An AMF that is not in the list has one entry when it is appended.
LEMMA AppendedOnce ==
  ASSUME NEW list \in Seq(Amf), NEW own \in Amf,
         Entries(list, own.nfId) = {}
  PROVE  /\ Cardinality(Entries(Append(list, own), own.nfId)) = 1
         /\ Len(Append(list, own)) = Len(list) + 1
         /\ Append(list, own)[Len(list) + 1] = own
         /\ \A i \in DOMAIN list : Append(list, own)[i] = list[i]
<1> DEFINE after == Append(list, own)
<1>1. /\ DOMAIN list = 1 .. Len(list) /\ Len(list) \in Nat
      /\ DOMAIN after = 1 .. Len(list) + 1 /\ Len(after) = Len(list) + 1
      /\ after[Len(list) + 1] = own
      /\ \A i \in DOMAIN list : after[i] = list[i]
  BY AppendProperties
<1> HIDE DEF after
<1>2. Entries(after, own.nfId) = {Len(list) + 1}
  BY <1>1 DEF Entries
<1>3. Cardinality({Len(list) + 1}) = 1
  BY FS_Singleton
<1> QED
  BY <1>1, <1>2, <1>3 DEF after

LEMMA PutOwnStep ==
  ASSUME PutIInv, NEW w \in Worker,
         HandlePut(w) \/ \E r \in Puts : ReceivePut(w, r)
  PROVE  PutInvOf(w)'
<1>0. PutTypeOK /\ PutInvOf(w) /\ PutPhaseOf(w)
  BY DEF PutIInv, PutInvOf
<1>a. 0 # NO_CONTENT /\ 0 # SERVICE_UNAVAILABLE /\ NO_CONTENT # SERVICE_UNAVAILABLE
  BY DEF NO_CONTENT, SERVICE_UNAVAILABLE
<1>b. put_pc[w] # "idle" /\ put[w].amfSetId \in {NotSet, EmptyId} => ~Configured(w)
  BY <1>0, CopyType
<1>1. ASSUME NEW r \in Puts, ReceivePut(w, r)
      PROVE  PutInvOf(w)'
  BY <1>0, <1>1, PutsAssumption
  DEF ReceivePut, PutTypeOK, PutInvOf, PutPhaseOf, StatusOfPut, EntryOfPut
<1>2. ASSUME \/ RefuseWithoutAmfSet(w) \/ RefuseUnknownAmfSet(w)
             \/ IgnoreEmptyAmfSet(w)
      PROVE  PutInvOf(w)'
  <2>1. PICK code \in {0, SERVICE_UNAVAILABLE} :
          /\ ReturnPut(w, code, code # SERVICE_UNAVAILABLE)
          /\ put_pc[w] = "handler"
          /\ code = 0 <=> put[w].amfSetId = EmptyId
          /\ ~Configured(w)
    <3>1. CASE RefuseWithoutAmfSet(w)
      BY <1>0, <1>a, <1>b, <3>1, EmptyIdAssumption DEF RefuseWithoutAmfSet
    <3>2. CASE RefuseUnknownAmfSet(w)
      BY <1>0, <1>a, <3>2 DEF RefuseUnknownAmfSet, LooksUpSet, Configured
    <3>3. CASE IgnoreEmptyAmfSet(w)
      BY <1>0, <1>a, <1>b, <3>3 DEF IgnoreEmptyAmfSet, PutPhaseOf
    <3> QED
      BY <1>2, <3>1, <3>2, <3>3
  <2>2. PutPhaseOf(w)' /\ StatusOfPut(w)'
    BY <1>0, <1>a, <2>1, PutReturns
  <2>3. EntryOfPut(w)'
    BY <1>0, <1>a, <2>1 DEF EntryOfPut, ReturnPut, PutTypeOK
  <2> QED
    BY <2>2, <2>3 DEF PutInvOf
<1>3. ASSUME FindAmfSet(w)
      PROVE  PutInvOf(w)'
  <2>1. /\ put_pc'[w] = "amfs" /\ amf_info'[w] = CopyOfSet(w)
        /\ at' = at /\ put' = put /\ put_code' = put_code
        /\ nssf_cfg' = nssf_cfg
    BY <1>0, <1>3 DEF FindAmfSet, PutTypeOK
  <2>2. Len(CopyOfSet(w).amf_List) \in Nat
    BY <1>0, <1>3, CopyType DEF FindAmfSet, Configured, amf_info_t
  <2>3. CopyOfSet(w)' = CopyOfSet(w) /\ AmfsAt(w)' = CopyOfSet(w).amf_List
    BY <2>1 DEF CopyOfSet, SetsNamed, AmfsAt
  <2>4. PutPhaseOf(w)'
    BY <1>0, <1>3, <2>1, <2>2, <2>3
    DEF FindAmfSet, LooksUpSet, PutPhaseOf, Configured, SetsNamed
  <2> QED
    BY <2>1, <2>4 DEF PutInvOf, StatusOfPut, EntryOfPut
<1>4. ASSUME NextAmf(w)
      PROVE  PutInvOf(w)'
  <2>1. /\ at'[w] = at[w] + 1 /\ at[w] \in Nat \ {0}
        /\ AmfsAt(w)[at[w]].nfId # put[w].nfId
        /\ put_pc[w] = "amfs" /\ at[w] <= Len(AmfsAt(w))
        /\ UNCHANGED <<nssf_cfg, put_pc, put, put_code, put_returned, amf_info>>
    BY <1>0, <1>4 DEF NextAmf, AtAmf, PutTypeOK
  <2>2. /\ \A i \in 1 .. at'[w] - 1 : i \in 1 .. at[w] - 1 \/ i = at[w]
        /\ at'[w] <= Len(AmfsAt(w)) + 1
    <3>1. Len(AmfsAt(w)) \in Nat
      BY <1>0, <2>1, CopyType DEF PutPhaseOf, AmfsAt, amf_info_t
    <3> QED
      BY <2>1, <3>1
  <2>3. PutPhaseOf(w)'
    BY <1>0, <2>1, <2>2 DEF PutPhaseOf, Configured, CopyOfSet, SetsNamed, AmfsAt
  <2> QED
    BY <2>1, <2>3 DEF PutInvOf, StatusOfPut, EntryOfPut
<1>5. ASSUME ReplaceAmf(w)
      PROVE  PutInvOf(w)'
  <2>1. /\ ReturnPut(w, NO_CONTENT, TRUE) /\ put_pc[w] = "amfs"
        /\ amf_info' = amf_info /\ put' = put /\ nssf_cfg' = nssf_cfg
        /\ put[w].amfSetId # EmptyId /\ Configured(w)
        /\ amf_info[w] = CopyOfSet(w)
        /\ AtAmf(w) /\ AmfsAt(w)[at[w]].nfId = put[w].nfId
    BY <1>0, <1>5 DEF ReplaceAmf, AtAmf, PutPhaseOf, ReturnPut
  <2>2. PutPhaseOf(w)' /\ StatusOfPut(w)'
    BY <1>0, <1>a, <2>1, PutReturns
  <2>3. CopyOfSet(w) \in amf_info_t
    BY <1>0, <2>1, CopyType
  <2>4. at[w] \in Entries(CopyOfSet(w).amf_List, put[w].nfId)
    BY <1>0, <2>1, <2>3 DEF AtAmf, AmfsAt, Entries, PutTypeOK, amf_info_t
  <2>5. Len(CopyOfSet(w).amf_List) + 0 = Len(CopyOfSet(w).amf_List)
    BY <2>3 DEF amf_info_t
  <2>6. EntryOfPut(w)'
    BY <2>1, <2>4, <2>5 DEF EntryOfPut, CopyOfSet, SetsNamed
  <2> QED
    BY <2>2, <2>6 DEF PutInvOf
<1>6. ASSUME AppendAmf(w)
      PROVE  PutInvOf(w)'
  <2> DEFINE own  == [nfId |-> put[w].nfId, data |-> put[w].data]
             list == CopyOfSet(w).amf_List
  <2>1. /\ ReturnPut(w, NO_CONTENT, TRUE) /\ put_pc[w] = "amfs"
        /\ put' = put /\ nssf_cfg' = nssf_cfg
        /\ put[w] \in Put /\ put[w].amfSetId # EmptyId /\ Configured(w)
        /\ amf_info[w] = CopyOfSet(w)
        /\ at[w] > Len(AmfsAt(w))
    BY <1>0, <1>6 DEF AppendAmf, PutPhaseOf, ReturnPut
  <2>2. PutPhaseOf(w)' /\ StatusOfPut(w)'
    BY <1>0, <1>a, <2>1, PutReturns
  <2>3. CopyOfSet(w) \in amf_info_t
    BY <1>0, <2>1, CopyType
  <2>4. list \in Seq(Amf) /\ own \in Amf /\ own.nfId = put[w].nfId
    BY <2>1, <2>3 DEF amf_info_t, Put, Amf
  <2>5. amf_info'[w].amf_List = Append(list, own)
    BY <1>0, <1>6, <2>1, <2>3 DEF AppendAmf, PutTypeOK, amf_info_t
  <2>6. Entries(list, own.nfId) = {}
    <3>1. \A i \in DOMAIN list : i \in 1 .. at[w] - 1
      BY <1>0, <2>1, <2>4 DEF AmfsAt, PutTypeOK
    <3> QED
      BY <1>0, <2>1, <2>4, <3>1 DEF PutPhaseOf, AmfsAt, Entries
  <2>7. CopyOfSet(w)' = CopyOfSet(w) /\ put'[w] = put[w]
    BY <2>1 DEF CopyOfSet, SetsNamed
  <2>8. EntryOfPut(w)'
    <3>0. own = [nfId |-> put[w].nfId, data |-> put[w].data]
      OBVIOUS
    <3> HIDE DEF own, list
    <3>1. /\ Cardinality(Entries(Append(list, own), own.nfId)) = 1
          /\ Len(Append(list, own)) = Len(list) + 1
          /\ Append(list, own)[Len(list) + 1] = own
          /\ \A i \in DOMAIN list : Append(list, own)[i] = list[i]
      BY <2>4, <2>6, AppendedOnce
    <3> QED
      BY <2>4, <2>5, <2>6, <2>7, <3>0, <3>1 DEF EntryOfPut, list
  <2> QED
    BY <2>2, <2>8 DEF PutInvOf
<1>7. ASSUME ReplyPut(w)
      PROVE  PutInvOf(w)'
  BY <1>0, <1>7
  DEF ReplyPut, PutTypeOK, PutInvOf, PutPhaseOf, StatusOfPut, EntryOfPut
<1> QED
  BY <1>1, <1>2, <1>3, <1>4, <1>5, <1>6, <1>7 DEF HandlePut

LEMMA PutStep == PutIInv /\ [PutNext]_put_vars => PutIInv'
<1> SUFFICES ASSUME PutIInv, [PutNext]_put_vars PROVE PutIInv'
  OBVIOUS
<1>1. PutTypeOK /\ PutTypeOK'
  BY PutTypeStep DEF PutIInv
<1>2. ASSUME NEW v \in Worker PROVE PutInvOf(v)'
  <2>1. CASE UNCHANGED put_vars
    BY <2>1, PutFrame DEF put_vars, PutUntouched, PutIInv
  <2>2. ASSUME NEW w \in Worker,
               HandlePut(w) \/ \E r \in Puts : ReceivePut(w, r)
        PROVE  PutInvOf(v)'
    <3>1. CASE v = w
      BY <2>2, <3>1, PutOwnStep
    <3>2. CASE v # w
      <4>1. PutUntouched(v) /\ PutInvOf(v)
        BY <1>1, <2>2, <3>2, OtherPutsUntouched DEF PutIInv
      <4> QED
        BY <4>1, PutFrame
    <3> QED
      BY <3>1, <3>2
  <2> QED
    BY <2>1, <2>2 DEF PutNext
<1> QED
  BY <1>1, <1>2 DEF PutIInv

THEOREM PutIInvIsInvariant == PutSpec => []PutIInv
  BY PutInitIInv, PutStep, PTL DEF PutSpec

LEMMA PutIInvParts == PutIInv => PutTypeOK /\ PutStatusExplained /\ OneEntryPerAmf
<1> SUFFICES ASSUME PutIInv
             PROVE  PutTypeOK /\ PutStatusExplained /\ OneEntryPerAmf
  OBVIOUS
<1>1. PutTypeOK /\ \A w \in Worker : StatusOfPut(w) /\ EntryOfPut(w)
  BY DEF PutIInv, PutInvOf
<1> QED
  BY <1>1 DEF PutStatusExplained, StatusOfPut, OneEntryPerAmf, EntryOfPut

-----------------------------------------------------------------------------
(* The PUT as part of the service *)

\* No step of a selection writes the configuration.
LEMMA SelectionsOnlyRead ==
  ASSUME NEW w \in Worker,
         Serve(w) \/ \E q \in Queries : Receive(w, q)
  PROVE  nssf_cfg' = nssf_cfg
<1>1. CASE \/ \E q \in Queries : Receive(w, q)
           \/ SkipPart(w) \/ ExamineAmf(w) \/ NextAmfSet(w) \/ Reply(w)
  BY <1>1 DEF Receive, SkipPart, ExamineAmf, NextAmfSet, Reply
<1>2. CASE RegValidateInPlmn(w) \/ PduSelectNsi(w) \/ SelectAmfSet(w)
  BY <1>2 DEF RegValidateInPlmn, PduSelectNsi, SelectAmfSet, Return
<1>3. CASE \/ PduRefuseRoaming(w) \/ PduRefuseTai(w)
           \/ RegRefuseUnsupported(w) \/ RegRefuseTai(w) \/ RegUndecided(w)
           \/ NoValidAmfSet(w)
  BY <1>3 DEF PduRefuseRoaming, PduRefuseTai, RegRefuseUnsupported,
              RegRefuseTai, RegUndecided, NoValidAmfSet, Return
<1> QED
  BY <1>1, <1>2, <1>3 DEF Serve

LEMMA ServicePutStep == [ServiceNext]_service_vars => [PutNext]_put_vars
<1> SUFFICES ASSUME [ServiceNext]_service_vars PROVE [PutNext]_put_vars
  OBVIOUS
<1>1. CASE UNCHANGED service_vars
  BY <1>1 DEF service_vars, vars, put_only, put_vars
<1>2. ASSUME NEW w \in Worker, ServiceSelect(w) PROVE UNCHANGED put_vars
  <2>1. nssf_cfg' = nssf_cfg
    BY <1>2, SelectionsOnlyRead DEF ServiceSelect
  <2> QED
    BY <1>2, <2>1 DEF ServiceSelect, put_only, put_vars
<1>3. ASSUME NEW w \in Worker, ServicePut(w) PROVE PutNext
  BY <1>3 DEF ServicePut, PutNext
<1> QED
  BY <1>1, <1>2, <1>3 DEF ServiceNext

\* The PUT, as part of the service, behaves as it does by itself.
THEOREM ServiceRunsPut == ServiceSpec => PutSpec
<1>1. ServiceInit => PutInit
  BY DEF ServiceInit
<1> QED
  BY <1>1, ServicePutStep, PTL DEF ServiceSpec, PutSpec

\* The variables of the PUT keep their types, whatever is selected meanwhile.
THEOREM PutTypeCorrect == ServiceSpec => []PutTypeOK
  BY ServiceRunsPut, PutIInvIsInvariant, PutIInvParts, PTL

(***************************************************************************)
(* The status of a PUT is 204 exactly when its AMF set is configured, and  *)
(* unset exactly when the name of the set is empty.                        *)
(***************************************************************************)
THEOREM PutStatusHasCause == ServiceSpec => []PutStatusExplained
  BY ServiceRunsPut, PutIInvIsInvariant, PutIInvParts, PTL

(***************************************************************************)
(* A PUT adds an entry for its AMF to the handler's copy exactly when the  *)
(* AMF has none there, and leaves the entries of other AMFs alone: for any *)
(* length of the list, any position of the AMF in it, and any number of    *)
(* sets of one name.                                                       *)
(***************************************************************************)
THEOREM PutLeavesOneEntry == ServiceSpec => []OneEntryPerAmf
  BY ServiceRunsPut, PutIInvIsInvariant, PutIInvParts, PTL

-----------------------------------------------------------------------------
(* The loops come to their ends *)

LEMMA LessCases ==
  ASSUME NEW a \in Nat, NEW b \in Nat, NEW c \in Nat,
         NEW d \in Nat, NEW e \in Nat, NEW f \in Nat,
         \/ a < d
         \/ a = d /\ b < e
         \/ a = d /\ b = e /\ c < f
  PROVE  Less(<<a, b, c>>, <<d, e, f>>)
<1> DEFINE m == <<a, b, c>>
           n == <<d, e, f>>
<1>1. /\ m[1] = a /\ m[2] = b /\ m[3] = c
      /\ n[1] = d /\ n[2] = e /\ n[3] = f
  OBVIOUS
<1> HIDE DEF m, n
<1>2. CASE a < d
  <2>1. m[1] < n[1] /\ \A j \in 1..(1 - 1) : m[j] = n[j]
    BY <1>1, <1>2
  <2> QED
    BY <2>1 DEF Less, m, n
<1>3. CASE a = d /\ b < e
  <2>1. m[2] < n[2] /\ \A j \in 1..(2 - 1) : m[j] = n[j]
    BY <1>1, <1>3
  <2> QED
    BY <2>1 DEF Less, m, n
<1>4. CASE a = d /\ b = e /\ c < f
  <2>1. m[3] < n[3] /\ \A j \in 1..(3 - 1) : m[j] = n[j]
    BY <1>1, <1>4
  <2> QED
    BY <2>1 DEF Less, m, n
<1> QED
  BY <1>2, <1>3, <1>4

\* The cursors never pass the ends of their lists by more than one.
LEMMA LeftType ==
  ASSUME IInv, PutIInv, NEW w \in Worker
  PROVE  /\ SelectionLeft(w) \in Nat /\ PutLeft(w) \in Nat
         /\ SetsLeft(w) \in Nat /\ ScannedLeft(w) \in Nat /\ CopiedLeft(w) \in Nat
<1>1. TypeOK /\ ScanOf(w) /\ PutTypeOK /\ PutPhaseOf(w)
  BY DEF IInv, ScanIsExhaustive, PutIInv, PutInvOf
<1>2. SelectionLeft(w) \in Nat /\ PutLeft(w) \in Nat
  <2>1. /\ pc[w] \in {"idle", "pdu", "registration", "scan", "done"}
        /\ put_pc[w] \in {"idle", "handler", "amfs", "done"}
    BY <1>1 DEF TypeOK, PutTypeOK
  <2> QED
    BY <2>1 DEF SelectionLeft, PutLeft
<1>3. Len(AmfSets) \in Nat
  BY <1>1 DEF TypeOK, SliceCfg, AmfSets
<1>4. SetsLeft(w) \in Nat
  BY <1>1, <1>3 DEF ScanOf, SetsLeft
<1>5. ScannedLeft(w) \in Nat
  <2>1. CASE AtAmfSet(w)
    <3>1. scan[w].amfSet \in 1..Len(AmfSets)
      BY <1>1, <1>3, <2>1 DEF AtAmfSet, ScanOf
    <3>2. AmfSets \in Seq(amf_info_t)
      BY <1>1 DEF TypeOK, SliceCfg, AmfSets
    <3>3. AmfSets[scan[w].amfSet] \in amf_info_t
      BY <3>1, <3>2, ElementOfSeq
    <3>4. Len(AmfList(w)) \in Nat
      BY <3>3 DEF amf_info_t, AmfList
    <3> QED
      BY <1>1, <2>1, <3>4 DEF AtAmfSet, ScanOf, ScannedLeft
  <2> QED
    BY <2>1 DEF ScannedLeft
<1>6. CopiedLeft(w) \in Nat
  <2>1. CASE put_pc[w] = "amfs"
    <3>1. Len(AmfsAt(w)) \in Nat
      BY <1>1, <2>1, CopyType DEF PutPhaseOf, AmfsAt, amf_info_t
    <3>2. at[w] \in Nat /\ at[w] <= Len(AmfsAt(w)) + 1
      BY <1>1, <2>1 DEF PutPhaseOf, PutTypeOK
    <3> QED
      BY <2>1, <3>1, <3>2 DEF CopiedLeft
  <2> QED
    BY <2>1 DEF CopiedLeft
<1> QED
  BY <1>2, <1>4, <1>5, <1>6

\* What is left is numbers after a step too.
LEMMA LeftTypeNext ==
  ASSUME NEW w \in Worker
  PROVE  (IInv /\ PutIInv)' =>
           (/\ SelectionLeft(w) \in Nat /\ PutLeft(w) \in Nat
            /\ SetsLeft(w) \in Nat /\ ScannedLeft(w) \in Nat
            /\ CopiedLeft(w) \in Nat)'
<1>1. IInv /\ PutIInv =>
        /\ SelectionLeft(w) \in Nat /\ PutLeft(w) \in Nat
        /\ SetsLeft(w) \in Nat /\ ScannedLeft(w) \in Nat
        /\ CopiedLeft(w) \in Nat
  BY LeftType
<1> QED
  BY <1>1, PTL

LEMMA SelectionAdvances ==
  ASSUME IInv, NEW w \in Worker, Serve(w)
  PROVE  \/ SelectionLeft(w)' < SelectionLeft(w)
         \/ /\ SelectionLeft(w)' = SelectionLeft(w)
            /\ \/ SetsLeft(w)' < SetsLeft(w)
               \/ /\ SetsLeft(w)' = SetsLeft(w)
                  /\ ScannedLeft(w)' < ScannedLeft(w)
<1>1. TypeOK /\ ScanOf(w) /\ Len(AmfSets) \in Nat
  BY DEF IInv, ScanIsExhaustive, TypeOK, SliceCfg, AmfSets
<1>2. nssf_cfg' = nssf_cfg /\ AmfSets' = AmfSets
  BY SelectionsOnlyRead DEF AmfSets
<1>3. ASSUME NEW code, NEW success, Return(w, code, success),
             pc[w] \in {"pdu", "registration", "scan"}
      PROVE  SelectionLeft(w)' < SelectionLeft(w)
  <2>1. pc'[w] = AfterPart(w)
    BY <1>1, <1>3 DEF Return, TypeOK
  <2> QED
    BY <1>3, <2>1 DEF AfterPart, SelectionLeft
<1>4. CASE SkipPart(w)
  BY <1>1, <1>4 DEF SkipPart, AfterPart, SelectionLeft, TypeOK
<1>5. CASE \/ PduRefuseRoaming(w) \/ PduRefuseTai(w) \/ PduSelectNsi(w)
  BY <1>3, <1>5 DEF PduRefuseRoaming, PduRefuseTai, PduSelectNsi, AtPdu
<1>6. CASE \/ RegRefuseUnsupported(w) \/ RegRefuseTai(w) \/ RegUndecided(w)
           \/ SelectAmfSet(w) \/ NoValidAmfSet(w)
  BY <1>3, <1>6
  DEF RegRefuseUnsupported, RegRefuseTai, RegUndecided, AtRegistration,
      SelectAmfSet, AtAmfSet, NoValidAmfSet
<1>7. CASE RegValidateInPlmn(w)
  <2>1. CASE \E code, success : Return(w, code, success)
    BY <1>3, <1>7, <2>1 DEF RegValidateInPlmn, AtRegistration
  <2>2. CASE pc' = [pc EXCEPT ![w] = "scan"]
    BY <1>1, <1>7, <2>2 DEF RegValidateInPlmn, AtRegistration, SelectionLeft, TypeOK
  <2> QED
    BY <1>7, <2>1, <2>2 DEF RegValidateInPlmn
<1>8. CASE ExamineAmf(w)
  <2>1. scan[w] \in Scan /\ scan'[w] = [scan[w] EXCEPT !.candidates = AddCandidate(w),
                                        !.amfList = scan[w].amfList + 1]
    BY <1>1, <1>8 DEF ExamineAmf, TypeOK
  <2>2. /\ scan'[w].amfSet = scan[w].amfSet
        /\ scan'[w].amfList = scan[w].amfList + 1 /\ scan[w].amfList \in Nat
    BY <2>1 DEF Scan
  <2>3. AtAmfSet(w) /\ pc' = pc /\ AmfList(w)' = AmfList(w)
    BY <1>2, <1>8, <2>2 DEF ExamineAmf, AmfList
  <2>4. AtAmfSet(w)'
    BY <1>2, <2>2, <2>3 DEF AtAmfSet
  <2>5. Len(AmfList(w)) \in Nat
    <3>1. AmfSets \in Seq(amf_info_t) /\ scan[w].amfSet \in 1..Len(AmfSets)
      BY <1>1, <2>3 DEF AtAmfSet, ScanOf, TypeOK, SliceCfg, AmfSets
    <3>2. AmfSets[scan[w].amfSet] \in amf_info_t
      BY <3>1, ElementOfSeq
    <3> QED
      BY <3>2 DEF amf_info_t, AmfList
  <2>6. ScannedLeft(w)' < ScannedLeft(w)
    BY <2>2, <2>3, <2>4, <2>5 DEF ScannedLeft
  <2> QED
    BY <1>2, <2>2, <2>3, <2>6 DEF SelectionLeft, SetsLeft
<1>9. CASE NextAmfSet(w)
  <2>1. scan[w] \in Scan /\ scan'[w] = [scan[w] EXCEPT !.amfSet = scan[w].amfSet + 1,
                                        !.amfList = 1]
    BY <1>1, <1>9 DEF NextAmfSet, TypeOK
  <2>2. scan'[w].amfSet = scan[w].amfSet + 1 /\ scan[w].amfSet \in Nat
    BY <2>1 DEF Scan
  <2>3. pc[w] = "scan" /\ pc' = pc
    BY <1>9 DEF NextAmfSet, AtAmfSet
  <2> QED
    BY <1>1, <1>2, <2>2, <2>3 DEF SelectionLeft, SetsLeft
<1>10. CASE Reply(w)
  BY <1>1, <1>10 DEF Reply, SelectionLeft, TypeOK
<1> QED
  BY <1>4, <1>5, <1>6, <1>7, <1>8, <1>9, <1>10 DEF Serve

LEMMA PutAdvances ==
  ASSUME PutIInv, NEW w \in Worker, HandlePut(w)
  PROVE  \/ PutLeft(w)' < PutLeft(w)
         \/ PutLeft(w)' = PutLeft(w) /\ CopiedLeft(w)' < CopiedLeft(w)
<1>1. PutTypeOK /\ PutPhaseOf(w)
  BY DEF PutIInv, PutInvOf
<1>2. CASE NextAmf(w)
  <2>1. /\ put_pc[w] = "amfs" /\ put_pc' = put_pc /\ AmfsAt(w)' = AmfsAt(w)
        /\ at'[w] = at[w] + 1 /\ at[w] \in Nat
    BY <1>1, <1>2 DEF NextAmf, AtAmf, AmfsAt, PutTypeOK
  <2>2. Len(AmfsAt(w)) \in Nat
    BY <1>1, <2>1, CopyType DEF PutPhaseOf, AmfsAt, amf_info_t
  <2> QED
    BY <2>1, <2>2 DEF PutLeft, CopiedLeft
<1>3. CASE FindAmfSet(w)
  BY <1>1, <1>3 DEF FindAmfSet, LooksUpSet, PutLeft, PutTypeOK
<1>4. ASSUME NEW code, NEW success, ReturnPut(w, code, success),
             put_pc[w] \in {"handler", "amfs"}
      PROVE  PutLeft(w)' < PutLeft(w)
  BY <1>1, <1>4 DEF ReturnPut, PutLeft, PutTypeOK
<1>5. CASE \/ RefuseWithoutAmfSet(w) \/ IgnoreEmptyAmfSet(w)
           \/ RefuseUnknownAmfSet(w) \/ ReplaceAmf(w) \/ AppendAmf(w)
  BY <1>4, <1>5 DEF RefuseWithoutAmfSet, IgnoreEmptyAmfSet, RefuseUnknownAmfSet,
                    LooksUpSet, ReplaceAmf, AtAmf, AppendAmf
<1>6. CASE ReplyPut(w)
  BY <1>1, <1>6 DEF ReplyPut, PutLeft, PutTypeOK
<1> QED
  BY <1>2, <1>3, <1>5, <1>6 DEF HandlePut

\* What is left to a thread depends on its own variables alone.
LEMMA LeftFrame ==
  ASSUME NEW w \in Worker
  PROVE  /\ Untouched(w) => UNCHANGED <<pc[w], scan[w], SelectionLeft(w),
                                        SetsLeft(w), ScannedLeft(w)>>
         /\ PutUntouched(w) => UNCHANGED <<put_pc[w], at[w], PutLeft(w),
                                           CopiedLeft(w)>>
<1>1. ASSUME Untouched(w)
      PROVE  UNCHANGED <<pc[w], scan[w], SelectionLeft(w), SetsLeft(w),
                         ScannedLeft(w)>>
  BY <1>1 DEF Untouched, SelectionLeft, SetsLeft, ScannedLeft, AtAmfSet, AmfList,
              AmfSets
<1>2. ASSUME PutUntouched(w)
      PROVE  UNCHANGED <<put_pc[w], at[w], PutLeft(w), CopiedLeft(w)>>
  BY <1>2 DEF PutUntouched, PutLeft, CopiedLeft, AmfsAt
<1> QED
  BY <1>1, <1>2

(***************************************************************************)
(* For any configuration, with any number of threads: a thread in a        *)
(* handler has finitely many steps before it, since each of them takes a   *)
(* triple of natural numbers down and nothing takes it up.                 *)
(***************************************************************************)
THEOREM LoopsEnd == ServiceSpec => HandlersAdvance
<1> DEFINE Advances(w) ==
      ~Free(w) =>
        /\ StepsLeft(w) \in [1..3 -> Nat]
        /\ \/ UNCHANGED <<pc[w], put_pc[w], scan[w], at[w], StepsLeft(w)>>
           \/ Less(StepsLeft(w)', StepsLeft(w))
<1>1. ASSUME IInv, PutIInv, IInv', PutIInv', [ServiceNext]_service_vars,
             NEW w \in Worker, ~Free(w)
      PROVE  Advances(w)
  <2>1. TypeOK /\ PutTypeOK
    BY <1>1 DEF IInv, PutIInv
  <2>2. /\ SelectionLeft(w) \in Nat /\ PutLeft(w) \in Nat
        /\ SetsLeft(w) \in Nat /\ ScannedLeft(w) \in Nat /\ CopiedLeft(w) \in Nat
    BY <1>1, LeftType
  <2>3. /\ SelectionLeft(w)' \in Nat /\ PutLeft(w)' \in Nat
        /\ SetsLeft(w)' \in Nat /\ ScannedLeft(w)' \in Nat /\ CopiedLeft(w)' \in Nat
    BY <1>1, LeftTypeNext
  <2>4. StepsLeft(w) \in [1..3 -> Nat]
    BY <2>2 DEF StepsLeft
  <2> DEFINE phases  == SelectionLeft(w) + PutLeft(w)
             phases1 == SelectionLeft(w)' + PutLeft(w)'
             amfs  == ScannedLeft(w) + CopiedLeft(w)
             amfs1 == ScannedLeft(w)' + CopiedLeft(w)'
  <2>5. /\ StepsLeft(w) = <<phases, SetsLeft(w), amfs>>
        /\ StepsLeft(w)' = <<phases1, SetsLeft(w)', amfs1>>
    BY DEF StepsLeft
  <2>6. CASE Serve(w) /\ UNCHANGED put_only
    <3>1. PutUntouched(w)
      BY <2>6, SelectionsOnlyRead DEF put_only, PutUntouched
    <3>2. UNCHANGED <<PutLeft(w), CopiedLeft(w)>>
      BY <3>1, LeftFrame
    <3>3. \/ SelectionLeft(w)' < SelectionLeft(w)
          \/ /\ SelectionLeft(w)' = SelectionLeft(w)
             /\ \/ SetsLeft(w)' < SetsLeft(w)
                \/ /\ SetsLeft(w)' = SetsLeft(w)
                   /\ ScannedLeft(w)' < ScannedLeft(w)
      BY <1>1, <2>6, SelectionAdvances
    <3>4. Less(StepsLeft(w)', StepsLeft(w))
      <4>1. /\ phases \in Nat /\ phases1 \in Nat /\ amfs \in Nat /\ amfs1 \in Nat
            /\ \/ phases1 < phases
               \/ phases1 = phases /\ SetsLeft(w)' < SetsLeft(w)
               \/ phases1 = phases /\ SetsLeft(w)' = SetsLeft(w) /\ amfs1 < amfs
        BY <2>2, <2>3, <3>2, <3>3
      <4> HIDE DEF phases, phases1, amfs, amfs1
      <4> QED
        BY <2>2, <2>3, <2>5, <4>1, LessCases
    <3> QED
      BY <2>4, <3>4
  <2>7. CASE HandlePut(w) /\ UNCHANGED selection_only
    <3>1. UNCHANGED <<SelectionLeft(w), SetsLeft(w), ScannedLeft(w)>>
      BY <2>7, PutsOnlyRead
      DEF selection_only, SelectionLeft, SetsLeft, ScannedLeft, AtAmfSet, AmfList,
          AmfSets
    <3>2. \/ PutLeft(w)' < PutLeft(w)
          \/ PutLeft(w)' = PutLeft(w) /\ CopiedLeft(w)' < CopiedLeft(w)
      BY <1>1, <2>7, PutAdvances
    <3>3. Less(StepsLeft(w)', StepsLeft(w))
      <4>1. /\ phases \in Nat /\ phases1 \in Nat /\ amfs \in Nat /\ amfs1 \in Nat
            /\ \/ phases1 < phases
               \/ phases1 = phases /\ SetsLeft(w)' = SetsLeft(w) /\ amfs1 < amfs
        BY <2>2, <2>3, <3>1, <3>2
      <4> HIDE DEF phases, phases1, amfs, amfs1
      <4> QED
        BY <2>2, <2>3, <2>5, <4>1, LessCases
    <3> QED
      BY <2>4, <3>3
  <2>8. CASE Untouched(w) /\ PutUntouched(w)
    BY <2>4, <2>8, LeftFrame DEF StepsLeft
  <2>9. CASE UNCHANGED service_vars
    BY <2>8, <2>9
    DEF service_vars, vars, put_only, Untouched, PutUntouched
  <2>10. ASSUME NEW v \in Worker, ServiceSelect(v) \/ ServicePut(v)
        PROVE  Advances(w)
    <3>1. CASE v = w
      BY <1>1, <2>6, <2>7, <2>10, <3>1 DEF ServiceSelect, ServicePut
    <3>2. CASE v # w /\ ServiceSelect(v)
      <4>1. Serve(v) \/ \E q \in Queries : Receive(v, q)
        BY <3>2 DEF ServiceSelect
      <4>2. Untouched(w) /\ PutUntouched(w)
        BY <2>1, <3>2, <4>1, OthersUntouched
        DEF ServiceSelect, put_only, Untouched, PutUntouched
      <4> QED
        BY <2>8, <4>2
    <3>3. CASE v # w /\ ServicePut(v)
      <4>1. HandlePut(v) \/ \E r \in Puts : ReceivePut(v, r)
        BY <3>3 DEF ServicePut
      <4>2. PutUntouched(w)
        BY <2>1, <3>3, <4>1, OtherPutsUntouched
      <4>3. Untouched(w)
        BY <3>3, <4>2 DEF ServicePut, selection_only, results, Untouched, PutUntouched
      <4> QED
        BY <2>8, <4>2, <4>3
    <3> QED
      BY <2>10, <3>1, <3>2, <3>3
  <2> QED
    BY <1>1, <2>9, <2>10 DEF ServiceNext
<1> HIDE DEF Advances
<1>2. ServiceSpec => []IInv /\ []PutIInv
  BY ServiceRunsSelection, IInvIsInvariant, ServiceRunsPut, PutIInvIsInvariant, PTL
<1>3. ASSUME IInv, PutIInv, IInv', PutIInv', [ServiceNext]_service_vars
      PROVE  \A w \in Worker : Advances(w)
  BY <1>1, <1>3 DEF Advances
<1>4. IInv /\ PutIInv /\ IInv' /\ PutIInv' /\ [ServiceNext]_service_vars
        => [\A w \in Worker : Advances(w)]_service_vars
  BY <1>3
<1>5. ServiceSpec => [][\A w \in Worker : Advances(w)]_service_vars
  BY <1>2, <1>4, PTL DEF ServiceSpec
<1> QED
  BY <1>5 DEF HandlersAdvance, Advances

-----------------------------------------------------------------------------
(* What a front end that calls the services relies on *)

\* A thread that is in a handler, and not at its end, keeps its request.
LEMMA ServeKeepsQuery ==
  ASSUME NEW w \in Worker, Serve(w), pc[w] # "done"
  PROVE  pc[w] # "idle" /\ query' = query
  BY ServeKinds DEF Reply

LEMMA HandlePutKeepsPut ==
  ASSUME PutTypeOK, NEW w \in Worker, HandlePut(w), put_pc[w] # "done"
  PROVE  put_pc[w] # "idle" /\ put_pc'[w] # "idle" /\ put' = put
<1>1. PICK next \in {"amfs", "done"} :
        /\ put_pc' = [put_pc EXCEPT ![w] = next] \/ put_pc' = put_pc
        /\ put_pc[w] \in {"handler", "amfs"} /\ put' = put
  BY DEF HandlePut, RefuseWithoutAmfSet, IgnoreEmptyAmfSet, RefuseUnknownAmfSet,
         FindAmfSet, NextAmf, ReplaceAmf, AppendAmf, ReplyPut, ReturnPut,
         LooksUpSet, AtAmf
<1> QED
  BY <1>1 DEF PutTypeOK

\* A PUT that has been handled has the status that is sent for it.
LEMMA PutStatusWhenDone ==
  ASSUME PutIInv, NEW w \in Worker, put_pc[w] = "done"
  PROVE  put_code[w] = PutStatus(put[w])
<1>1. PutTypeOK /\ PutStatusExplained
  BY PutIInvParts
<1>2. put_code[w] \in {0, NO_CONTENT, SERVICE_UNAVAILABLE}
  BY <1>1 DEF PutTypeOK
<1>3. /\ put_code[w] = NO_CONTENT <=> SetsNamed(put[w].amfSetId) # {}
      /\ put_code[w] = 0 <=> put[w].amfSetId = EmptyId
  BY <1>1 DEF PutStatusExplained, Configured
<1> QED
  BY <1>2, <1>3 DEF PutStatus
=============================================================================

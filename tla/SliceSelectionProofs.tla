----------------------- MODULE SliceSelectionProofs -----------------------
(***************************************************************************)
(* Proofs about SliceSelection: IInv is inductive, so that its parts are   *)
(* invariants, and the handlers implement SliceAuthorization.              *)
(***************************************************************************)
EXTENDS SliceSelection, FiniteSetTheorems, WellFoundedInduction,
        SequenceTheorems, TLAPS

-----------------------------------------------------------------------------
(* How slices are compared, and what the search for a first match returns *)

(***************************************************************************)
(* compare_snssai is an equivalence: the unset SD of a slice is compared   *)
(* like any other, and below the last standardized SST SDs do not count.   *)
(* The answers of the NSSF depend on this: a requested slice that matches  *)
(* a subscribed one is served by whoever serves the subscribed one.        *)
(***************************************************************************)
THEOREM CompareIsEquivalence ==
  /\ \A r \in Snssai : compare_snssai(r, r)
  /\ \A r, s \in Snssai : compare_snssai(r, s) => compare_snssai(s, r)
  /\ \A r, s, t \in Snssai :
       compare_snssai(r, s) /\ compare_snssai(s, t) => compare_snssai(r, t)
<1>1. \A r \in Snssai : compare_snssai(r, r)
  BY DEF compare_snssai
<1>2. \A r, s \in Snssai : compare_snssai(r, s) => compare_snssai(s, r)
  BY DEF compare_snssai, sdIsSet
<1>3. \A r, s, t \in Snssai :
        compare_snssai(r, s) /\ compare_snssai(s, t) => compare_snssai(r, t)
  BY DEF compare_snssai, sdIsSet
<1> QED
  BY <1>1, <1>2, <1>3

(***************************************************************************)
(* When every requested slice is allowed, that is, matches a subscribed    *)
(* one (validate_rnssai_in_plmn), an AMF that supports the subscribed      *)
(* slices passes get_valid_amf, which is asked about the requested ones.   *)
(***************************************************************************)
THEOREM ServingSubscribedServesRequested ==
  ASSUME NEW requested \in SUBSET Snssai, NEW subscribed \in SUBSET Snssai,
         NEW supported \in SUBSET Snssai,
         MatchedSnssai(requested, subscribed) = requested,
         get_valid_amf(supported, subscribed)
  PROVE  get_valid_amf(supported, requested)
<1> SUFFICES ASSUME NEW r \in requested
             PROVE  \E e \in supported : compare_snssai(r, e)
  BY DEF get_valid_amf, MatchesSome
<1>1. PICK s \in subscribed : compare_snssai(r, s)
  BY DEF MatchedSnssai, MatchesSome
<1>2. PICK e \in supported : compare_snssai(s, e)
  BY DEF get_valid_amf, MatchesSome
<1>3. r \in Snssai /\ s \in Snssai /\ e \in Snssai
  OBVIOUS
<1> QED
  BY <1>1, <1>2, <1>3, CompareIsEquivalence

(***************************************************************************)
(* A nonempty set of positions has a first one, and FirstOf finds it.      *)
(***************************************************************************)
LEMMA FirstOfIsFirst ==
  ASSUME NEW S \in SUBSET Nat, S # {}
  PROVE  FirstOf(S) \in S /\ \A l \in S : FirstOf(S) <= l
<1> DEFINE Prefixes == {1..k : k \in S}
           Below == StrictSubsetOrdering(Nat)
<1>1. IsWellFoundedOn(Below, FiniteSubsetsOf(Nat))
  BY FS_StrictSubsetOrderingWellFounded
<1>2. Prefixes \subseteq FiniteSubsetsOf(Nat)
  <2> SUFFICES ASSUME NEW k \in S
               PROVE  1..k \in SUBSET Nat /\ IsFiniteSet(1..k)
    BY DEF FiniteSubsetsOf
  <2> QED
    BY FS_Interval
<1>3. Prefixes # {}
  OBVIOUS
<1>4. PICK x \in Prefixes : \A y \in Prefixes : <<y, x>> \notin Below
  BY <1>1, <1>2, <1>3, WFMin
<1>5. PICK k \in S : x = 1..k
  OBVIOUS
<1>6. \A l \in S : k <= l
  <2> SUFFICES ASSUME NEW l \in S, l < k
               PROVE  FALSE
    OBVIOUS
  <2>1. 1..l \in Prefixes /\ 1..k \in Prefixes
    OBVIOUS
  <2>2. 1..l \subseteq 1..k
    OBVIOUS
  <2>3. k \in 1..k /\ k \notin 1..l
    OBVIOUS
  <2>4. <<1..l, 1..k>> \in Below
    <3>1. 1..l \in SUBSET Nat /\ 1..k \in SUBSET Nat
      OBVIOUS
    <3>2. 1..l # 1..k
      BY <2>3
    <3> QED
      BY <2>2, <3>1, <3>2 DEF StrictSubsetOrdering
  <2> QED
    BY <1>4, <1>5, <2>1, <2>4
<1> QED
  BY <1>5, <1>6 DEF FirstOf

LEMMA FirstOfUnique ==
  ASSUME NEW S \in SUBSET Nat, NEW k \in S, \A l \in S : k <= l
  PROVE  FirstOf(S) = k
<1>1. FirstOf(S) \in S /\ \A l \in S : FirstOf(S) <= l
  BY DEF FirstOf
<1>2. FirstOf(S) \in Nat /\ k \in Nat /\ FirstOf(S) <= k /\ k <= FirstOf(S)
  BY <1>1
<1> HIDE DEF FirstOf
<1> QED
  BY <1>2

(***************************************************************************)
(* validate_nsi returns the information of a configured NSI, and nothing   *)
(* only if no configured slice matches.                                    *)
(***************************************************************************)
LEMMA ValidateNsiType ==
  ASSUME NEW cfg \in SliceCfg, NEW s
  PROVE  validate_nsi(cfg, s) \in NsiInfo \cup {NoNsi}
<1> DEFINE matches == NsiMatches(cfg, s)
<1>1. matches \in SUBSET Nat /\ matches \subseteq DOMAIN cfg.nsi_info_list
  BY DEF NsiMatches, SliceCfg
<1>2. cfg.nsi_info_list \in Seq(nsi_info_t)
  BY DEF SliceCfg
<1>3. CASE matches = {}
  BY <1>3 DEF validate_nsi
<1>4. CASE matches # {}
  <2>1. FirstOf(matches) \in DOMAIN cfg.nsi_info_list
    BY <1>1, <1>4, FirstOfIsFirst
  <2>2. cfg.nsi_info_list[FirstOf(matches)].nsi_info \in NsiInfo
    <3> DEFINE k == FirstOf(matches)
    <3>1. k \in DOMAIN cfg.nsi_info_list
      BY <2>1
    <3> HIDE DEF k, matches
    <3>2. cfg.nsi_info_list[k] \in nsi_info_t
      BY <1>2, <3>1, ElementOfSeq
    <3>3. cfg.nsi_info_list[k].nsi_info \in NsiInfo
      BY <3>2 DEF nsi_info_t
    <3> QED
      BY <3>3 DEF k
  <2> QED
    BY <1>4, <2>2 DEF validate_nsi
<1> QED
  BY <1>3, <1>4

-----------------------------------------------------------------------------
(* Types *)

\* The status codes that the handlers assign.
LEMMA CodesType == /\ {0, OK, BAD_REQUEST, FORBIDDEN} \subseteq HttpCode
                   /\ SERVICE_UNAVAILABLE \in HttpCode
  BY DEF HttpCode

LEMMA ConfigType ==
  ASSUME TypeOK, NEW k \in DOMAIN AmfSets
  PROVE  /\ AmfSets \in Seq(amf_info_t)
         /\ AmfSets[k] \in amf_info_t
         /\ AmfSets[k].target_amf_set \in AmfSetId
         /\ AmfSets[k].amf_List \in Seq(Amf)
<1>1. AmfSets \in Seq(amf_info_t)
  BY DEF TypeOK, AmfSets, SliceCfg
<1>2. AmfSets[k] \in amf_info_t
  BY <1>1, ElementOfSeq
<1> QED
  BY <1>1, <1>2 DEF amf_info_t

\* What a thread that is not idle knows of its query.
LEMMA QueryType ==
  ASSUME TypeOK, NEW w \in Worker, PhaseOf(w), pc[w] # "idle"
  PROVE  /\ query[w] \in Query
         /\ query[w].reg # Absent => query[w].reg \in SliceInfoForRegistration
         /\ query[w].reg # Absent /\ NssaiGiven(w) =>
              Requested(w) \in SUBSET Snssai
         /\ query[w].pdu # Absent => query[w].pdu \in SliceInfoForPDUSession
<1>1. query[w] \in Query
  BY DEF TypeOK, PhaseOf
<1>2. query[w].reg # Absent => query[w].reg \in SliceInfoForRegistration
  BY <1>1 DEF Query
<1>3. query[w].pdu # Absent => query[w].pdu \in SliceInfoForPDUSession
  BY <1>1 DEF Query
<1>4. query[w].reg # Absent /\ NssaiGiven(w) =>
        Requested(w) \in SUBSET Snssai
  BY <1>2 DEF NssaiGiven, Requested, SliceInfoForRegistration
<1> QED
  BY <1>1, <1>2, <1>3, <1>4

LEMMA AskedType == \A q \in Queries : Asked(q) \in Query
<1> TAKE q \in Queries
<1>1. q \in Query
  BY QueriesAssumption
<1>2. [q EXCEPT !.pdu = Absent] \in Query
  BY <1>1 DEF Query
<1> QED
  BY <1>1, <1>2 DEF Asked

\* An AMF that is looked at has an identifier.
LEMMA AddCandidateType ==
  ASSUME TypeOK, NEW w \in Worker, AtAmfSet(w),
         scan[w].amfList <= Len(AmfList(w))
  PROVE  AddCandidate(w) \in SUBSET NfId
<1> DEFINE k == scan[w].amfSet
           i == scan[w].amfList
<1>1. k \in Nat \ {0} /\ i \in Nat \ {0} /\ scan[w].candidates \in SUBSET NfId
  BY DEF TypeOK, Scan
<1>2. AmfSets \in Seq(amf_info_t)
  BY DEF TypeOK, AmfSets, SliceCfg
<1>3. k \in DOMAIN AmfSets
  BY <1>1, <1>2 DEF AtAmfSet
<1>4. AmfList(w) \in Seq(Amf)
  BY <1>3, ConfigType DEF AmfList
<1>5. i \in 1..Len(AmfList(w))
  BY <1>1, <1>4
<1>6. AmfList(w)[i] \in Amf
  BY <1>4, <1>5, ElementOfSeq
<1>7. AmfList(w)[i].nfId \in NfId
  BY <1>6 DEF Amf
<1> QED
  BY <1>1, <1>7 DEF AddCandidate

LEMMA InitIInv == Init => IInv
<1> SUFFICES ASSUME Init PROVE IInv
  OBVIOUS
<1>1. TypeOK
  BY ConfigsAssumption
  DEF Init, TypeOK, EmptyInfo, AuthorizedNetworkSliceInfo, ScanStart, Scan,
      HttpCode
<1>2. ASSUME NEW w \in Worker
      PROVE  PhaseOf(w) /\ ScanOf(w) /\ StatusOf(w) /\ ProblemOf(w)
  BY <1>2 DEF Init, PhaseOf, ScanOf, StatusOf, ProblemOf
<1> QED
  BY <1>1, <1>2 DEF IInv, PhaseInvariant, ScanIsExhaustive, StatusExplained,
                    ProblemDetailsMean403

LEMMA WorkerType ==
  ASSUME TypeOK, NEW w \in Worker
  PROVE  /\ auth_slice_info[w] \in AuthorizedNetworkSliceInfo
         /\ scan[w] \in Scan
         /\ http_code[w] \in HttpCode
         /\ problem_details[w] \in BOOLEAN
  BY DEF TypeOK

\* Types of what a returning handler assigns.
LEMMA ReturnType ==
  ASSUME TypeOK, NEW w \in Worker, NEW code \in HttpCode,
         Return(w, code, TRUE) \/ Return(w, code, FALSE),
         auth_slice_info' \in [Worker -> AuthorizedNetworkSliceInfo],
         UNCHANGED scan
  PROVE  TypeOK'
<1>1. ASSUME NEW success \in BOOLEAN, Return(w, code, success)
      PROVE  TypeOK'
  BY <1>1 DEF TypeOK, Return, AfterPart
<1>2. CASE Return(w, code, TRUE)
  BY <1>1, <1>2
<1>3. CASE Return(w, code, FALSE)
  BY <1>1, <1>3
<1> QED
  BY <1>2, <1>3

\* The authorized information of one thread is replaced.
LEMMA InfoType ==
  ASSUME TypeOK, NEW w \in Worker, NEW info \in AuthorizedNetworkSliceInfo
  PROVE  [auth_slice_info EXCEPT ![w] = info]
           \in [Worker -> AuthorizedNetworkSliceInfo]
  BY DEF TypeOK

LEMMA TypeStep == IInv /\ [Next]_vars => TypeOK'
<1> SUFFICES ASSUME IInv, [Next]_vars PROVE TypeOK'
  OBVIOUS
<1>0. TypeOK /\ \A w \in Worker : PhaseOf(w)
  BY DEF IInv, PhaseInvariant
<1> USE <1>0
<1>1. ASSUME NEW w \in Worker, NEW q \in Queries, Receive(w, q)
      PROVE  TypeOK'
  BY <1>1, AskedType
  DEF Receive, TypeOK, EmptyInfo, AuthorizedNetworkSliceInfo, HttpCode
<1>2. ASSUME NEW w \in Worker, SkipPart(w)
      PROVE  TypeOK'
  BY <1>2 DEF SkipPart, AfterPart, TypeOK, results
<1>3. ASSUME NEW w \in Worker,
             PduRefuseRoaming(w) \/ PduRefuseTai(w) \/ RegRefuseUnsupported(w)
               \/ RegRefuseTai(w) \/ RegUndecided(w) \/ NoValidAmfSet(w)
      PROVE  TypeOK'
  <2>1. PICK code \in HttpCode : Return(w, code, TRUE) \/ Return(w, code, FALSE)
    BY <1>3, CodesType, WorkerType
    DEF PduRefuseRoaming, PduRefuseTai, RegRefuseUnsupported,
        RegRefuseTai, RegUndecided, NoValidAmfSet
  <2>2. UNCHANGED <<auth_slice_info, scan>>
    BY <1>3 DEF PduRefuseRoaming, PduRefuseTai, RegRefuseUnsupported,
                RegRefuseTai, RegUndecided, NoValidAmfSet
  <2>3. auth_slice_info' \in [Worker -> AuthorizedNetworkSliceInfo]
    BY <2>2 DEF TypeOK
  <2> QED
    BY <2>1, <2>2, <2>3, ReturnType
<1>4. ASSUME NEW w \in Worker, PduSelectNsi(w)
      PROVE  TypeOK'
  <2> DEFINE nsi == validate_nsi(nssf_cfg, query[w].pdu.sNssai)
             info == [auth_slice_info[w] EXCEPT !.nsi = nsi]
  <2>1. nsi \in NsiInfo \cup {NoNsi}
    BY ValidateNsiType DEF TypeOK
  <2>2. /\ auth_slice_info' = [auth_slice_info EXCEPT ![w] = info]
        /\ Return(w, OK, TRUE) \/ Return(w, BAD_REQUEST, FALSE)
        /\ UNCHANGED scan
    BY <1>4 DEF PduSelectNsi
  <2>3. info \in AuthorizedNetworkSliceInfo
    <3> HIDE DEF nsi
    <3> QED
      BY <2>1, WorkerType DEF AuthorizedNetworkSliceInfo
  <2> HIDE DEF info
  <2>4. auth_slice_info' \in [Worker -> AuthorizedNetworkSliceInfo]
    BY <2>2, <2>3, InfoType
  <2> QED
    BY <2>2, <2>4, CodesType, ReturnType
<1>5. ASSUME NEW w \in Worker, RegValidateInPlmn(w)
      PROVE  TypeOK'
  <2> DEFINE matched ==
        MatchedSnssai(Requested(w), query[w].reg.subscribedNssai)
  <2>1. Requested(w) \in SUBSET Snssai /\ matched \in SUBSET Snssai
    BY <1>5, QueryType
    DEF RegValidateInPlmn, AtRegistration, MatchedSnssai
  <2>2. CASE matched = {}
    <3> DEFINE info == [auth_slice_info[w] EXCEPT !.rejected = Requested(w)]
    <3>1. /\ auth_slice_info' = [auth_slice_info EXCEPT ![w] = info]
          /\ Return(w, FORBIDDEN, FALSE)
          /\ UNCHANGED scan
      BY <1>5, <2>2 DEF RegValidateInPlmn
    <3>2. info \in AuthorizedNetworkSliceInfo
      BY <2>1, WorkerType DEF AuthorizedNetworkSliceInfo
    <3> HIDE DEF info
    <3>3. auth_slice_info' \in [Worker -> AuthorizedNetworkSliceInfo]
      BY <3>1, <3>2, InfoType
    <3> QED
      BY <3>1, <3>3, CodesType, ReturnType
  <2>3. CASE matched # {}
    <3> DEFINE info == [auth_slice_info[w] EXCEPT !.allowed = matched]
    <3>1. /\ auth_slice_info' = [auth_slice_info EXCEPT ![w] = info]
          /\ http_code' = [http_code EXCEPT ![w] = FORBIDDEN]
          /\ scan' = [scan EXCEPT ![w] = ScanStart]
          /\ pc' = [pc EXCEPT ![w] = "scan"]
          /\ UNCHANGED <<nssf_cfg, query, problem_details>>
      BY <1>5, <2>3 DEF RegValidateInPlmn
    <3> HIDE DEF matched
    <3>2. info \in AuthorizedNetworkSliceInfo
      BY <2>1, WorkerType DEF AuthorizedNetworkSliceInfo
    <3> HIDE DEF info
    <3>3. auth_slice_info' \in [Worker -> AuthorizedNetworkSliceInfo]
      BY <3>1, <3>2, InfoType
    <3>4. ScanStart \in Scan
      BY DEF ScanStart, Scan
    <3> QED
      BY <3>1, <3>3, <3>4, CodesType DEF TypeOK
  <2> QED
    BY <2>2, <2>3
<1>6. ASSUME NEW w \in Worker, ExamineAmf(w)
      PROVE  TypeOK'
  <2> DEFINE next == [scan[w] EXCEPT !.candidates = AddCandidate(w),
                                     !.amfList = scan[w].amfList + 1]
  <2>1. AddCandidate(w) \in SUBSET NfId
    BY <1>6, AddCandidateType DEF ExamineAmf
  <2>2. /\ scan' = [scan EXCEPT ![w] = next]
        /\ UNCHANGED <<nssf_cfg, pc, query, results, auth_slice_info>>
    BY <1>6 DEF ExamineAmf
  <2>3. next \in Scan
    <3>1. scan[w] \in Scan
      BY WorkerType
    <3>2. scan[w].amfList + 1 \in Nat \ {0}
      BY <3>1 DEF Scan
    <3> QED
      BY <2>1, <3>1, <3>2 DEF Scan
  <2> HIDE DEF next
  <2> QED
    BY <2>2, <2>3 DEF TypeOK, results
<1>7. ASSUME NEW w \in Worker, NextAmfSet(w)
      PROVE  TypeOK'
  <2> DEFINE next == [scan[w] EXCEPT !.amfSet = scan[w].amfSet + 1,
                                     !.amfList = 1]
  <2>1. /\ scan' = [scan EXCEPT ![w] = next]
        /\ UNCHANGED <<nssf_cfg, pc, query, results, auth_slice_info>>
    BY <1>7 DEF NextAmfSet
  <2>2. next \in Scan
    <3>1. scan[w] \in Scan
      BY WorkerType
    <3>2. scan[w].amfSet + 1 \in Nat \ {0}
      BY <3>1 DEF Scan
    <3>3. 1 \in Nat \ {0}
      OBVIOUS
    <3> QED
      BY <3>1, <3>2, <3>3 DEF Scan
  <2> HIDE DEF next
  <2> QED
    BY <2>1, <2>2 DEF TypeOK, results
<1>8. ASSUME NEW w \in Worker, SelectAmfSet(w)
      PROVE  TypeOK'
  <2> DEFINE id == AmfSets[scan[w].amfSet].target_amf_set
             info == [auth_slice_info[w] EXCEPT !.amfs = scan[w].candidates,
                                                !.amf_set = id]
  <2>1. scan[w].amfSet \in DOMAIN AmfSets
    BY <1>8, WorkerType DEF SelectAmfSet, AtAmfSet, TypeOK, AmfSets, SliceCfg,
                            Scan
  <2>2. id \in AmfSetId
    BY <2>1, ConfigType
  <2>3. /\ auth_slice_info' = [auth_slice_info EXCEPT ![w] = info]
        /\ Return(w, OK, TRUE)
        /\ UNCHANGED scan
    BY <1>8 DEF SelectAmfSet
  <2>4. info \in AuthorizedNetworkSliceInfo
    <3> HIDE DEF id
    <3> QED
      BY <2>2, WorkerType DEF AuthorizedNetworkSliceInfo, Scan
  <2> HIDE DEF info
  <2>5. auth_slice_info' \in [Worker -> AuthorizedNetworkSliceInfo]
    BY <2>3, <2>4, InfoType
  <2> QED
    BY <2>3, <2>5, CodesType, ReturnType
<1>9. ASSUME NEW w \in Worker, Reply(w)
      PROVE  TypeOK'
  BY <1>9 DEF Reply, TypeOK, results
<1>10. CASE UNCHANGED vars
  BY <1>10 DEF TypeOK, vars
<1> QED
  BY <1>1, <1>2, <1>3, <1>4, <1>5, <1>6, <1>7, <1>8, <1>9, <1>10
  DEF Next, Serve

-----------------------------------------------------------------------------
(* Each thread keeps its own part of the invariant. *)

WorkerInv(w) == PhaseOf(w) /\ ScanOf(w) /\ StatusOf(w) /\ ProblemOf(w)

\* Everything the invariant of thread v is about.
Untouched(v) ==
  /\ pc'[v] = pc[v]
  /\ query'[v] = query[v]
  /\ http_code'[v] = http_code[v]
  /\ auth_slice_info'[v] = auth_slice_info[v]
  /\ problem_details'[v] = problem_details[v]
  /\ scan'[v] = scan[v]
  /\ nssf_cfg' = nssf_cfg

LEMMA Frame ==
  ASSUME NEW v \in Worker, WorkerInv(v), Untouched(v)
  PROVE  WorkerInv(v)'
<1>1. PhaseOf(v)'
  BY DEF WorkerInv, Untouched, PhaseOf, NssaiGiven, RegUnsupported,
         TaiRefused, PduStatus, PduRoaming, NsiOf, Replied
<1>2. ScanOf(v)'
  BY DEF WorkerInv, Untouched, ScanOf, AmfSets, AmfList, Requested,
         ServingBefore
<1>3. StatusOf(v)'
  BY DEF WorkerInv, Untouched, StatusOf, RegistrationFails, RegUnsupported,
         TaiRefused, Requested
<1>4. ProblemOf(v)'
  BY DEF WorkerInv, Untouched, ProblemOf
<1> QED
  BY <1>1, <1>2, <1>3, <1>4 DEF WorkerInv

\* A step of one thread leaves the others alone.
LEMMA OthersUntouched ==
  ASSUME TypeOK, NEW w \in Worker, NEW v \in Worker, v # w,
         Serve(w) \/ \E q \in Queries : Receive(w, q)
  PROVE  Untouched(v)
<1>1. CASE \E q \in Queries : Receive(w, q)
  BY <1>1 DEF Receive, Untouched, TypeOK
<1>2. CASE SkipPart(w) \/ ExamineAmf(w) \/ NextAmfSet(w) \/ Reply(w)
  BY <1>2 DEF SkipPart, ExamineAmf, NextAmfSet, Reply, Untouched, TypeOK,
              results
<1>3. CASE RegValidateInPlmn(w)
  BY <1>3 DEF RegValidateInPlmn, Return, Untouched, TypeOK
<1>4. CASE PduSelectNsi(w)
  BY <1>4 DEF PduSelectNsi, Return, Untouched, TypeOK
<1>5. CASE SelectAmfSet(w)
  BY <1>5 DEF SelectAmfSet, Return, Untouched, TypeOK
<1>6. CASE \/ PduRefuseRoaming(w) \/ PduRefuseTai(w)
           \/ RegRefuseUnsupported(w) \/ RegRefuseTai(w) \/ RegUndecided(w)
           \/ NoValidAmfSet(w)
  BY <1>6 DEF PduRefuseRoaming, PduRefuseTai, RegRefuseUnsupported,
              RegRefuseTai, RegUndecided, NoValidAmfSet, Return, Untouched,
              TypeOK
<1> QED
  BY <1>1, <1>2, <1>3, <1>4, <1>5, <1>6 DEF Serve

(***************************************************************************)
(* The two specifications share the definitions of NssfData: those that    *)
(* the abstract one reaches by its instance are the same operators.        *)
(***************************************************************************)
LEMMA SameCompare ==
  \A r, s : Abstract!compare_snssai(r, s) = compare_snssai(r, s)
  BY DEF compare_snssai, sdIsSet, Abstract!compare_snssai, Abstract!sdIsSet

LEMMA SameMatching ==
  /\ \A r, s : Abstract!MatchedSnssai(r, s) = MatchedSnssai(r, s)
  /\ \A amf, r : Abstract!Serves(amf, r) <=> Serves(amf, r)
<1>1. \A r, l : Abstract!MatchesSome(r, l) <=> MatchesSome(r, l)
  BY SameCompare DEF MatchesSome, Abstract!MatchesSome
<1>2. \A r, s : Abstract!MatchedSnssai(r, s) = MatchedSnssai(r, s)
  BY <1>1 DEF MatchedSnssai, Abstract!MatchedSnssai
<1>3. \A amf, r : Abstract!Serves(amf, r) <=> Serves(amf, r)
  BY <1>1 DEF Serves, get_valid_amf, Abstract!Serves, Abstract!get_valid_amf
<1> QED
  BY <1>2, <1>3

LEMMA SameValidation ==
  /\ \A cfg, t : Abstract!validate_ta(cfg, t) <=> validate_ta(cfg, t)
  /\ \A cfg, s : Abstract!validate_nsi(cfg, s) = validate_nsi(cfg, s)
<1>1. \A cfg, s : Abstract!NsiMatches(cfg, s) = NsiMatches(cfg, s)
  BY SameCompare DEF NsiMatches, Abstract!NsiMatches
<1>2. \A S : Abstract!FirstOf(S) = FirstOf(S)
  BY DEF FirstOf, Abstract!FirstOf
<1>3. \A cfg, s : Abstract!validate_nsi(cfg, s) = validate_nsi(cfg, s)
  BY <1>1, <1>2 DEF validate_nsi, Abstract!validate_nsi
<1>4. \A cfg, t : Abstract!validate_ta(cfg, t) <=> validate_ta(cfg, t)
  BY DEF validate_ta, Abstract!validate_ta
<1> QED
  BY <1>3, <1>4

(***************************************************************************)
(* The status and the NSI that the PDU session part leaves agree.          *)
(***************************************************************************)
LEMMA PduStatusMeansNsi ==
  ASSUME TypeOK, NEW w \in Worker, PhaseOf(w), pc[w] # "idle"
  PROVE  /\ PduStatus(w) = OK <=> NsiOf(w) # NoNsi
         /\ PduStatus(w) \in {0, OK, BAD_REQUEST, SERVICE_UNAVAILABLE}
         /\ PduStatus(w) = BAD_REQUEST => query[w].pdu # Absent
         /\ PduStatus(w) = SERVICE_UNAVAILABLE =>
              query[w].pdu # Absent /\ PduRoaming(w)
         /\ PduStatus(w) = 0 => query[w].pdu = Absent
<1>1. query[w].pdu # Absent => query[w].pdu \in SliceInfoForPDUSession
  BY QueryType
<1>2. query[w] \in Query
  BY QueryType
<1> QED
  BY <1>1, <1>2 DEF PduStatus, NsiOf, PduRoaming, Abstract!NsiGranted, OK,
        BAD_REQUEST, SERVICE_UNAVAILABLE, SliceInfoForPDUSession, Query

LEMMA ReceiveStep ==
  ASSUME TypeOK, NEW w \in Worker, NEW q \in Queries, Receive(w, q)
  PROVE  WorkerInv(w)'
<1>1. pc'[w] = "pdu" /\ query'[w] = Asked(q) /\ http_code'[w] = 0
      /\ auth_slice_info'[w] = EmptyInfo /\ problem_details'[w] = FALSE
  BY DEF Receive, TypeOK
<1>2. query'[w] # NoQuery
  BY <1>1, AskedType, NoQueryAssumption
<1> QED
  BY <1>1, <1>2 DEF WorkerInv, PhaseOf, ScanOf, StatusOf, ProblemOf

(***************************************************************************)
(* What is replied when the registration part leaves the results of the    *)
(* PDU session part as they are, or is not given.                          *)
(***************************************************************************)
LEMMA PduDecides ==
  ASSUME TypeOK, NEW w \in Worker, PhaseOf(w), pc[w] = "registration",
         ~Abstract!RegistrationDecides(query[w]),
         query[w].reg # Absent => ~RegUnsupported(w)
  PROVE  Replied(w) = Abstract!Decision(nssf_cfg, query[w])
<1>1. /\ http_code[w] = PduStatus(w)
      /\ auth_slice_info[w] = [EmptyInfo EXCEPT !.nsi = NsiOf(w)]
  BY DEF PhaseOf
<1>2. PduStatus(w) = OK <=> NsiOf(w) # NoNsi
  BY PduStatusMeansNsi
<1>3. CASE NsiOf(w) # NoNsi
  <2>1. Abstract!Granted(nssf_cfg, query[w])
    BY <1>3 DEF Abstract!Granted, NsiOf, Abstract!NsiGranted,
                Abstract!Unsupported, RegUnsupported
  <2>2. Abstract!Decision(nssf_cfg, query[w]) =
          [Abstract!Refused EXCEPT !.granted = TRUE, !.nsi = NsiOf(w)]
    BY <2>1 DEF Abstract!Decision, NsiOf
  <2> QED
    BY <1>1, <1>2, <1>3, <2>2 DEF Replied, Abstract!Refused, EmptyInfo
<1>4. CASE NsiOf(w) = NoNsi
  <2>1. ~Abstract!Granted(nssf_cfg, query[w])
    BY <1>4 DEF Abstract!Granted, NsiOf
  <2>2. Abstract!Decision(nssf_cfg, query[w]) = Abstract!Refused
    BY <2>1 DEF Abstract!Decision
  <2> QED
    BY <1>1, <1>2, <1>4, <2>2 DEF Replied, Abstract!Refused, EmptyInfo
<1> QED
  BY <1>3, <1>4

LEMMA SkipPartStep ==
  ASSUME TypeOK, NEW w \in Worker, WorkerInv(w), SkipPart(w)
  PROVE  WorkerInv(w)'
<1>1. PhaseOf(w) /\ query[w] # NoQuery
  BY DEF WorkerInv, SkipPart, PhaseOf
<1>2. /\ query' = query /\ nssf_cfg' = nssf_cfg /\ http_code' = http_code
      /\ auth_slice_info' = auth_slice_info
      /\ problem_details' = problem_details
      /\ pc'[w] = AfterPart(w)
  BY DEF SkipPart, results, TypeOK
<1>3. CASE pc[w] = "pdu"
  <2>1. pc'[w] = "registration" /\ query[w].pdu = Absent
    BY <1>2, <1>3 DEF AfterPart, SkipPart
  <2>2. http_code[w] = 0 /\ auth_slice_info[w] = EmptyInfo
        /\ ~problem_details[w]
    BY <1>1, <1>3 DEF PhaseOf
  <2>3. NsiOf(w)' = NoNsi /\ PduStatus(w)' = 0
    BY <1>2, <2>1 DEF NsiOf, PduStatus, Abstract!NsiGranted
  <2>4. EmptyInfo = [EmptyInfo EXCEPT !.nsi = NoNsi]
    BY DEF EmptyInfo
  <2> QED
    BY <1>1, <1>2, <2>1, <2>2, <2>3, <2>4
    DEF WorkerInv, PhaseOf, ScanOf, StatusOf, ProblemOf
<1>4. CASE pc[w] = "registration"
  <2>1. pc'[w] = "done" /\ query[w].reg = Absent
    BY <1>2, <1>4 DEF AfterPart, SkipPart
  <2>2. ~Abstract!RegistrationDecides(query[w])
    BY <2>1 DEF Abstract!RegistrationDecides
  <2>3. Replied(w)' = Abstract!Decision(nssf_cfg, query[w])'
    <3>1. Replied(w)' = Replied(w)
      BY <1>2 DEF Replied
    <3>2. Replied(w) = Abstract!Decision(nssf_cfg, query[w])
      BY <1>1, <1>4, <2>1, <2>2, PduDecides
    <3> QED
      BY <1>2, <3>1, <3>2
  <2>4. http_code[w] = PduStatus(w) /\ ~problem_details[w]
    BY <1>1, <1>4 DEF PhaseOf
  <2>5. StatusOf(w)' /\ ProblemOf(w)'
    BY <1>1, <1>2, <1>4, <2>1, <2>2, <2>4, PduStatusMeansNsi
    DEF StatusOf, ProblemOf, RegistrationFails, Abstract!Unsupported, NsiOf,
        PduRoaming, OK, BAD_REQUEST, SERVICE_UNAVAILABLE, FORBIDDEN
  <2> QED
    BY <1>1, <1>2, <2>1, <2>3, <2>5 DEF WorkerInv, PhaseOf, ScanOf
<1> QED
  BY <1>3, <1>4 DEF SkipPart

LEMMA PduStep ==
  ASSUME TypeOK, NEW w \in Worker, WorkerInv(w),
         PduRefuseRoaming(w) \/ PduRefuseTai(w) \/ PduSelectNsi(w)
  PROVE  WorkerInv(w)'
<1>1. /\ pc[w] = "pdu" /\ query[w].pdu # Absent /\ query[w] # NoQuery
      /\ auth_slice_info[w] = EmptyInfo /\ ~problem_details[w]
  BY DEF PduRefuseRoaming, PduRefuseTai, PduSelectNsi, AtPdu, WorkerInv,
         PhaseOf
<1>2. query' = query /\ nssf_cfg' = nssf_cfg /\ pc'[w] = "registration"
  BY <1>1 DEF PduRefuseRoaming, PduRefuseTai, PduSelectNsi, Return, AfterPart,
              TypeOK
<1>3. NsiOf(w)' = NsiOf(w) /\ PduStatus(w)' = PduStatus(w)
  BY <1>2 DEF NsiOf, PduStatus, PduRoaming
<1>4. problem_details'[w] = FALSE
  BY <1>1 DEF PduRefuseRoaming, PduRefuseTai, PduSelectNsi, Return, TypeOK,
              FORBIDDEN, BAD_REQUEST, SERVICE_UNAVAILABLE
<1>5. http_code'[w] = PduStatus(w)
      /\ auth_slice_info'[w] = [EmptyInfo EXCEPT !.nsi = NsiOf(w)]
  <2>0. EmptyInfo = [EmptyInfo EXCEPT !.nsi = NoNsi]
    BY DEF EmptyInfo
  <2>1. CASE PduRefuseRoaming(w)
    <3>1. NsiOf(w) = NoNsi
      BY <2>1 DEF PduRefuseRoaming, PduRoaming, NsiOf, Abstract!NsiGranted
    <3> QED
      BY <1>1, <2>0, <2>1, <3>1
      DEF PduRefuseRoaming, Return, PduStatus, TypeOK
  <2>2. CASE PduRefuseTai(w)
    <3>1. NsiOf(w) = NoNsi
      BY <2>2, SameValidation
      DEF PduRefuseTai, TaiRefused, NsiOf, Abstract!NsiGranted,
          Abstract!TaiRefused
    <3> QED
      BY <1>1, <2>0, <2>2, <3>1 DEF PduRefuseTai, Return, PduStatus, TypeOK
  <2>3. CASE PduSelectNsi(w)
    <3>1. NsiOf(w) = validate_nsi(nssf_cfg, query[w].pdu.sNssai)
      BY <1>1, <2>3, SameValidation
      DEF PduSelectNsi, PduRoaming, TaiRefused, NsiOf,
          Abstract!NsiGranted, Abstract!TaiRefused
    <3>2. auth_slice_info'[w] = [EmptyInfo EXCEPT !.nsi = NsiOf(w)]
      BY <1>1, <2>3, <3>1 DEF PduSelectNsi, TypeOK
    <3>3. http_code'[w] = IF NsiOf(w) # NoNsi THEN OK ELSE BAD_REQUEST
      BY <2>3, <3>1 DEF PduSelectNsi, Return, TypeOK
    <3>4. ~PduRoaming(w)
      BY <2>3 DEF PduSelectNsi
    <3> QED
      BY <1>1, <3>2, <3>3, <3>4 DEF PduStatus
  <2> QED
    BY <2>1, <2>2, <2>3
<1> QED
  BY <1>1, <1>2, <1>3, <1>4, <1>5
  DEF WorkerInv, PhaseOf, ScanOf, StatusOf, ProblemOf

LEMMA RegRefuseUnsupportedStep ==
  ASSUME TypeOK, NEW w \in Worker, WorkerInv(w), RegRefuseUnsupported(w)
  PROVE  WorkerInv(w)'
<1>1. /\ pc[w] = "registration" /\ query[w].reg # Absent
      /\ query[w] # NoQuery /\ ~problem_details[w] /\ RegUnsupported(w)
  BY DEF RegRefuseUnsupported, AtRegistration, WorkerInv, PhaseOf
<1>2. /\ query' = query /\ nssf_cfg' = nssf_cfg /\ pc'[w] = "done"
      /\ http_code'[w] = SERVICE_UNAVAILABLE /\ problem_details'[w] = FALSE
  BY <1>1 DEF RegRefuseUnsupported, Return, AfterPart, TypeOK,
              SERVICE_UNAVAILABLE, FORBIDDEN
<1>3. Abstract!Unsupported(query[w])
  BY <1>1 DEF Abstract!Unsupported, RegUnsupported
<1>4. Abstract!Decision(nssf_cfg, query[w]) = Abstract!Refused
  BY <1>3 DEF Abstract!Decision, Abstract!Granted
<1>5. Replied(w)' = Abstract!Refused
  <2>1. http_code'[w] # OK
    BY <1>2 DEF OK, SERVICE_UNAVAILABLE
  <2> QED
    BY <2>1 DEF Replied, Abstract!Refused, EmptyInfo
<1>6. StatusOf(w)' /\ ProblemOf(w)'
  BY <1>1, <1>2, <1>3
  DEF StatusOf, ProblemOf, RegistrationFails, RegUnsupported,
      SERVICE_UNAVAILABLE, FORBIDDEN, BAD_REQUEST
<1> QED
  BY <1>1, <1>2, <1>4, <1>5, <1>6 DEF WorkerInv, PhaseOf, ScanOf

LEMMA RegUntouchedStep ==
  ASSUME TypeOK, NEW w \in Worker, WorkerInv(w),
         RegRefuseTai(w) \/ RegUndecided(w)
  PROVE  WorkerInv(w)'
<1>1. /\ pc[w] = "registration" /\ query[w].reg # Absent
      /\ query[w] # NoQuery /\ ~problem_details[w] /\ ~RegUnsupported(w)
      /\ http_code[w] = PduStatus(w) /\ PhaseOf(w)
  BY DEF RegRefuseTai, RegUndecided, AtRegistration, WorkerInv, PhaseOf
<1>2. http_code[w] # FORBIDDEN
  BY <1>1, PduStatusMeansNsi
  DEF OK, BAD_REQUEST, SERVICE_UNAVAILABLE, FORBIDDEN
<1>3. /\ query' = query /\ nssf_cfg' = nssf_cfg /\ pc'[w] = "done"
      /\ http_code'[w] = http_code[w] /\ problem_details'[w] = FALSE
      /\ auth_slice_info' = auth_slice_info
  BY <1>1, <1>2 DEF RegRefuseTai, RegUndecided, Return, AfterPart, TypeOK
<1>4. Replied(w) = Abstract!Decision(nssf_cfg, query[w])
  <2>1. CASE RegRefuseTai(w)
    <3>1. Abstract!TaiRefused(nssf_cfg, query[w])
      BY <2>1, SameValidation
      DEF RegRefuseTai, TaiRefused, Abstract!TaiRefused
    <3>2. NsiOf(w) = NoNsi
      BY <3>1 DEF NsiOf, Abstract!NsiGranted
    <3>3. http_code[w] # OK
      BY <1>1, <3>2, PduStatusMeansNsi
    <3>4. Replied(w) = Abstract!Refused
      BY <3>3 DEF Replied, Abstract!Refused, EmptyInfo
    <3> QED
      BY <3>1, <3>4 DEF Abstract!Decision, Abstract!Granted
  <2>2. CASE RegUndecided(w)
    <3>1. ~Abstract!RegistrationDecides(query[w])
      BY <2>2 DEF RegUndecided, NssaiGiven, Abstract!RegistrationDecides
    <3> QED
      BY <1>1, <3>1, PduDecides
  <2> QED
    BY <2>1, <2>2
<1>5. Replied(w)' = Abstract!Decision(nssf_cfg, query[w])'
  BY <1>3, <1>4 DEF Replied
<1>6. ~RegistrationFails(w)
  BY DEF RegistrationFails, Abstract!RegistrationDecides, RegRefuseTai,
         RegUndecided, NssaiGiven
<1>7. /\ http_code[w] = BAD_REQUEST =>
           query[w].pdu # Absent /\ NsiOf(w) = NoNsi
      /\ http_code[w] = SERVICE_UNAVAILABLE =>
           query[w].pdu # Absent /\ PduRoaming(w)
      /\ http_code[w] = 0 => query[w].pdu = Absent
  BY <1>1, PduStatusMeansNsi DEF OK, BAD_REQUEST
<1>8. StatusOf(w)' /\ ProblemOf(w)'
  BY <1>1, <1>2, <1>3, <1>6, <1>7, PduStatusMeansNsi
  DEF StatusOf, ProblemOf, RegistrationFails, RegUnsupported, TaiRefused,
      Requested, NsiOf, PduRoaming, Abstract!Unsupported, OK, BAD_REQUEST
<1> QED
  BY <1>1, <1>3, <1>5, <1>8 DEF WorkerInv, PhaseOf, ScanOf

LEMMA SameFirstOf == \A S : Abstract!FirstOf(S) = FirstOf(S)
  BY DEF FirstOf, Abstract!FirstOf

\* The registration decides, and names what the scan looks for.
LEMMA NssaiDecide ==
  ASSUME NEW w \in Worker, query[w].reg # Absent, NssaiGiven(w)
  PROVE  /\ Abstract!RegistrationDecides(query[w])
         /\ Abstract!Matched(query[w]) =
              MatchedSnssai(Requested(w), query[w].reg.subscribedNssai)
  BY SameMatching DEF NssaiGiven, Abstract!RegistrationDecides, Requested,
                      Abstract!Matched

LEMMA RegValidateInPlmnStep ==
  ASSUME TypeOK, NEW w \in Worker, WorkerInv(w), RegValidateInPlmn(w)
  PROVE  WorkerInv(w)'
<1> DEFINE matched ==
      MatchedSnssai(Requested(w), query[w].reg.subscribedNssai)
<1>1. /\ pc[w] = "registration" /\ query[w].reg # Absent
      /\ query[w] # NoQuery /\ ~problem_details[w] /\ NssaiGiven(w)
      /\ ~RegUnsupported(w) /\ ~TaiRefused(w)
      /\ auth_slice_info[w] = [EmptyInfo EXCEPT !.nsi = NsiOf(w)]
  BY DEF RegValidateInPlmn, AtRegistration, WorkerInv, PhaseOf
<1>2. Abstract!RegistrationDecides(query[w])
      /\ Abstract!Matched(query[w]) = matched
  BY <1>1, NssaiDecide
<1>3. CASE matched = {}
  <2>1. /\ query' = query /\ nssf_cfg' = nssf_cfg /\ pc'[w] = "done"
        /\ http_code'[w] = FORBIDDEN /\ problem_details'[w] = TRUE
    BY <1>1, <1>3 DEF RegValidateInPlmn, Return, AfterPart, TypeOK
  <2>2. Abstract!Decision(nssf_cfg, query[w]) = Abstract!Refused
    BY <1>2, <1>3 DEF Abstract!Decision, Abstract!Granted
  <2>3. Replied(w)' = Abstract!Refused
    <3>1. http_code'[w] # OK
      BY <2>1 DEF OK, FORBIDDEN
    <3> QED
      BY <3>1 DEF Replied, Abstract!Refused, EmptyInfo
  <2>4. RegistrationFails(w)'
    BY <1>1, <1>2, <1>3, <2>1
    DEF RegistrationFails, RegUnsupported, TaiRefused, Requested
  <2>5. StatusOf(w)' /\ ProblemOf(w)'
    BY <2>1, <2>4 DEF StatusOf, ProblemOf, FORBIDDEN, BAD_REQUEST,
                      SERVICE_UNAVAILABLE
  <2> QED
    BY <1>1, <2>1, <2>2, <2>3, <2>5 DEF WorkerInv, PhaseOf, ScanOf
<1>4. CASE matched # {}
  <2>1. /\ query' = query /\ nssf_cfg' = nssf_cfg /\ pc'[w] = "scan"
        /\ http_code'[w] = FORBIDDEN /\ problem_details' = problem_details
        /\ auth_slice_info'[w] =
             [auth_slice_info[w] EXCEPT !.allowed = matched]
        /\ scan'[w] = ScanStart
    BY <1>1, <1>4 DEF RegValidateInPlmn, TypeOK
  <2>2. auth_slice_info'[w] =
          [EmptyInfo EXCEPT !.nsi = NsiOf(w),
                            !.allowed = Abstract!Matched(query[w])]
    <3> HIDE DEF matched
    <3> QED
      BY <1>1, <1>2, <2>1 DEF EmptyInfo
  <2>3. PhaseOf(w)'
    BY <1>1, <1>2, <1>4, <2>1, <2>2
    DEF PhaseOf, NssaiGiven, RegUnsupported, TaiRefused, NsiOf
  <2>4. ScanOf(w)'
    <3>1. scan'[w].amfSet = 1 /\ scan'[w].amfList = 1
          /\ scan'[w].candidates = {}
      BY <2>1 DEF ScanStart
    <3>2. AmfSets' \in Seq(amf_info_t)
      BY <2>1 DEF TypeOK, SliceCfg, AmfSets
    <3>3. ServingBefore(w, 1)' = {}
      BY DEF ServingBefore
    <3>4. 1 <= Len(AmfSets') => Len(AmfList(w)') \in Nat
      <4> SUFFICES ASSUME 1 <= Len(AmfSets') PROVE Len(AmfList(w)') \in Nat
        OBVIOUS
      <4>1. 1 \in DOMAIN AmfSets'
        BY <3>2
      <4>2. AmfSets'[1] \in amf_info_t
        BY <3>2, <4>1, ElementOfSeq
      <4> QED
        BY <3>1, <4>2 DEF AmfList, amf_info_t
    <3> QED
      BY <3>1, <3>2, <3>3, <3>4 DEF ScanOf
  <2> QED
    BY <2>1, <2>3, <2>4 DEF WorkerInv, StatusOf, ProblemOf
<1> QED
  BY <1>3, <1>4

LEMMA ReplyStep ==
  ASSUME TypeOK, NEW w \in Worker, WorkerInv(w), Reply(w)
  PROVE  WorkerInv(w)'
<1>1. pc'[w] = "idle" /\ query'[w] = NoQuery
  BY DEF Reply, TypeOK
<1> QED
  BY <1>1 DEF WorkerInv, PhaseOf, ScanOf, StatusOf, ProblemOf

-----------------------------------------------------------------------------
(* The scan of the AMF sets. *)

\* The cursors of a thread that looks at an AMF set.
LEMMA CursorType ==
  ASSUME TypeOK, NEW w \in Worker, AtAmfSet(w)
  PROVE  /\ scan[w].amfSet \in DOMAIN AmfSets
         /\ scan[w].amfSet \in Nat /\ scan[w].amfList \in Nat \ {0}
         /\ AmfSets \in Seq(amf_info_t) /\ Len(AmfSets) \in Nat
         /\ AmfList(w) \in Seq(Amf) /\ Len(AmfList(w)) \in Nat
         /\ DOMAIN AmfList(w) = 1..Len(AmfList(w))
<1>1. scan[w].amfSet \in Nat \ {0} /\ scan[w].amfList \in Nat \ {0}
  BY DEF TypeOK, Scan
<1>2. AmfSets \in Seq(amf_info_t)
  BY DEF TypeOK, AmfSets, SliceCfg
<1>3. scan[w].amfSet \in DOMAIN AmfSets
  BY <1>1, <1>2 DEF AtAmfSet
<1>4. AmfList(w) \in Seq(Amf)
  BY <1>3, ConfigType DEF AmfList
<1> QED
  BY <1>1, <1>2, <1>3, <1>4

\* One more AMF has been looked at.
LEMMA ServingBeforeNext ==
  ASSUME TypeOK, NEW w \in Worker, AtAmfSet(w),
         scan[w].candidates = ServingBefore(w, scan[w].amfList)
  PROVE  AddCandidate(w) = ServingBefore(w, scan[w].amfList + 1)
<1> DEFINE i == scan[w].amfList
           Good(j) == Serves(AmfList(w)[j], Requested(w))
<1>1. i \in Nat \ {0}
  BY CursorType
<1>2. 1..((i + 1) - 1) = (1..(i - 1)) \cup {i}
  BY <1>1
<1>3. CASE Good(i)
  <2>1. {j \in 1..((i + 1) - 1) : Good(j)} =
          {j \in 1..(i - 1) : Good(j)} \cup {i}
    BY <1>2, <1>3
  <2> QED
    BY <1>3, <2>1 DEF ServingBefore, AddCandidate
<1>4. CASE ~Good(i)
  <2>1. {j \in 1..((i + 1) - 1) : Good(j)} = {j \in 1..(i - 1) : Good(j)}
    BY <1>2, <1>4
  <2> QED
    BY <1>4, <2>1 DEF ServingBefore, AddCandidate
<1> QED
  BY <1>3, <1>4

\* All of the AMFs of the current set have been looked at.
LEMMA ServingBeforeEnd ==
  ASSUME TypeOK, NEW w \in Worker, AtAmfSet(w),
         scan[w].amfList = Len(AmfList(w)) + 1
  PROVE  ServingBefore(w, scan[w].amfList) =
           Abstract!ServingAmfs(AmfSets[scan[w].amfSet], Requested(w))
<1>1. 1..((Len(AmfList(w)) + 1) - 1) = DOMAIN AmfList(w)
  BY CursorType
<1>2. \A j : Abstract!Serves(AmfList(w)[j], Requested(w)) <=>
             Serves(AmfList(w)[j], Requested(w))
  BY SameMatching
<1> QED
  BY <1>1, <1>2 DEF ServingBefore, Abstract!ServingAmfs, AmfList

LEMMA ExamineAmfStep ==
  ASSUME TypeOK, NEW w \in Worker, WorkerInv(w), ExamineAmf(w)
  PROVE  WorkerInv(w)'
<1>1. /\ pc[w] = "scan" /\ AtAmfSet(w)
      /\ scan[w].amfSet <= Len(AmfSets)
      /\ scan[w].amfList <= Len(AmfList(w))
  BY DEF ExamineAmf, AtAmfSet
<1>2. /\ query' = query /\ nssf_cfg' = nssf_cfg /\ pc' = pc
      /\ http_code' = http_code /\ problem_details' = problem_details
      /\ auth_slice_info' = auth_slice_info
  BY DEF ExamineAmf, results
<1>3. /\ scan'[w].amfSet = scan[w].amfSet
      /\ scan'[w].amfList = scan[w].amfList + 1
      /\ scan'[w].candidates = AddCandidate(w)
  BY DEF ExamineAmf, TypeOK, Scan
<1>4. AddCandidate(w) = ServingBefore(w, scan[w].amfList + 1)
  BY <1>1, ServingBeforeNext DEF WorkerInv, ScanOf
<1>5. AmfList(w)' = AmfList(w) /\ AmfSets' = AmfSets
  BY <1>2, <1>3 DEF AmfList, AmfSets
<1>7. \A n : {AmfList(w)'[i].nfId :
                i \in {j \in 1..(n - 1) :
                         Serves(AmfList(w)'[j], Requested(w)')}} =
             ServingBefore(w, n)
  BY <1>2, <1>5 DEF ServingBefore, Requested
<1>8. scan'[w].amfList \in 1..(Len(AmfList(w)) + 1)
  BY <1>1, <1>3, CursorType
<1>9. ScanOf(w)'
  BY <1>1, <1>2, <1>3, <1>4, <1>5, <1>7, <1>8
  DEF WorkerInv, ScanOf, ServingBefore, Requested
<1>10. PhaseOf(w)'
  BY <1>1, <1>2
  DEF WorkerInv, PhaseOf, NssaiGiven, RegUnsupported, TaiRefused, NsiOf
<1> QED
  BY <1>1, <1>2, <1>9, <1>10 DEF WorkerInv, StatusOf, ProblemOf

LEMMA NextAmfSetStep ==
  ASSUME TypeOK, NEW w \in Worker, WorkerInv(w), NextAmfSet(w)
  PROVE  WorkerInv(w)'
<1> DEFINE k == scan[w].amfSet
<1>1. /\ pc[w] = "scan" /\ AtAmfSet(w) /\ k <= Len(AmfSets)
      /\ scan[w].amfList > Len(AmfList(w)) /\ scan[w].candidates = {}
  BY DEF NextAmfSet, AtAmfSet
<1>2. /\ query' = query /\ nssf_cfg' = nssf_cfg /\ pc' = pc
      /\ http_code' = http_code /\ problem_details' = problem_details
      /\ auth_slice_info' = auth_slice_info
  BY DEF NextAmfSet, results
<1>3. /\ scan'[w].amfSet = k + 1
      /\ scan'[w].amfList = 1
      /\ scan'[w].candidates = {}
  BY <1>1 DEF NextAmfSet, TypeOK, Scan
<1>4. AmfSets' = AmfSets
  BY <1>2 DEF AmfSets
<1>5. k \in 1..Len(AmfSets) /\ Len(AmfSets) \in Nat
  BY <1>1, CursorType
<1>6. Abstract!ServingAmfs(AmfSets[k], Requested(w)) = {}
  <2>1. scan[w].amfList = Len(AmfList(w)) + 1
    BY <1>1, CursorType DEF WorkerInv, ScanOf
  <2>2. ServingBefore(w, scan[w].amfList) = {}
    BY <1>1 DEF WorkerInv, ScanOf
  <2> QED
    BY <1>1, <2>1, <2>2, ServingBeforeEnd
<1>7. \A l \in 1..((k + 1) - 1) :
        Abstract!ServingAmfs(AmfSets[l], Requested(w)) = {}
  <2>1. \A l \in 1..(k - 1) :
          Abstract!ServingAmfs(AmfSets[l], Requested(w)) = {}
    BY <1>1 DEF WorkerInv, ScanOf
  <2>2. \A l \in 1..((k + 1) - 1) : l \in 1..(k - 1) \/ l = k
    BY <1>5
  <2> QED
    BY <1>6, <2>1, <2>2
<1>8. k + 1 <= Len(AmfSets) => 1 \in 1..(Len(AmfList(w)') + 1)
  <2> SUFFICES ASSUME k + 1 <= Len(AmfSets)
               PROVE  1 \in 1..(Len(AmfList(w)') + 1)
    OBVIOUS
  <2>1. AmfSets \in Seq(amf_info_t) /\ k + 1 \in DOMAIN AmfSets
    BY <1>1, <1>5, CursorType
  <2>2. AmfSets[k + 1].amf_List \in Seq(Amf)
    BY <2>1, ConfigType
  <2>3. AmfList(w)' = AmfSets[k + 1].amf_List
    BY <1>3, <1>4 DEF AmfList
  <2> QED
    BY <2>2, <2>3
<1>9. ServingBefore(w, scan[w].amfList)' = {}
  BY <1>3 DEF ServingBefore
<1>10. ScanOf(w)'
  <2>1. k + 1 \in 1..(Len(AmfSets) + 1)
    BY <1>5
  <2> HIDE DEF k
  <2> QED
    BY <1>2, <1>3, <1>4, <1>7, <1>8, <1>9, <2>1 DEF ScanOf, Requested
<1>11. PhaseOf(w)'
  BY <1>1, <1>2
  DEF WorkerInv, PhaseOf, NssaiGiven, RegUnsupported, TaiRefused, NsiOf
<1> QED
  BY <1>1, <1>2, <1>10, <1>11 DEF WorkerInv, StatusOf, ProblemOf

\* The information that the scan completes.
LEMMA AllowedInfo ==
  ASSUME NEW n, NEW m
  PROVE  /\ [EmptyInfo EXCEPT !.nsi = n, !.allowed = m].allowed = m
         /\ [EmptyInfo EXCEPT !.nsi = n, !.allowed = m].nsi = n
  BY DEF EmptyInfo

LEMMA SelectAmfSetStep ==
  ASSUME TypeOK, NEW w \in Worker, WorkerInv(w), SelectAmfSet(w)
  PROVE  WorkerInv(w)'
<1> DEFINE k == scan[w].amfSet
           serving == Abstract!ServingSets(nssf_cfg, Requested(w))
           grant == Abstract!RegistrationGrant(nssf_cfg, query[w])
<1>1. /\ pc[w] = "scan" /\ AtAmfSet(w) /\ k <= Len(AmfSets)
      /\ scan[w].amfList > Len(AmfList(w)) /\ scan[w].candidates # {}
  BY DEF SelectAmfSet, AtAmfSet
<1>2. /\ query[w] # NoQuery /\ query[w].reg # Absent /\ NssaiGiven(w)
      /\ ~RegUnsupported(w) /\ ~TaiRefused(w) /\ ~problem_details[w]
      /\ Abstract!Matched(query[w]) # {}
      /\ auth_slice_info[w] =
           [EmptyInfo EXCEPT !.nsi = NsiOf(w),
                             !.allowed = Abstract!Matched(query[w])]
  BY <1>1 DEF WorkerInv, PhaseOf
<1>3. /\ query' = query /\ nssf_cfg' = nssf_cfg /\ pc'[w] = "done"
      /\ http_code'[w] = OK /\ problem_details'[w] = FALSE
      /\ auth_slice_info'[w] =
           [auth_slice_info[w] EXCEPT !.amfs = scan[w].candidates,
                                      !.amf_set = AmfSets[k].target_amf_set]
  BY <1>1, <1>2 DEF SelectAmfSet, Return, AfterPart, TypeOK
<1>4. scan[w].candidates = Abstract!ServingAmfs(AmfSets[k], Requested(w))
  <2>1. scan[w].amfList = Len(AmfList(w)) + 1
    BY <1>1, CursorType DEF WorkerInv, ScanOf
  <2> QED
    BY <1>1, <2>1, ServingBeforeEnd DEF WorkerInv, ScanOf
<1>5. Abstract!FirstOf(serving) = k
  <2>1. k \in serving
    BY <1>1, <1>4, CursorType DEF Abstract!ServingSets, AmfSets
  <2>2. serving \subseteq DOMAIN AmfSets /\ DOMAIN AmfSets \subseteq Nat
    BY <1>1, CursorType DEF Abstract!ServingSets, AmfSets
  <2>3. \A l \in serving : k <= l
    <3> SUFFICES ASSUME NEW l \in serving, l < k PROVE FALSE
      BY <1>1, <2>2, CursorType
    <3>1. l \in 1..(k - 1)
      BY <1>1, <2>2, CursorType
    <3>2. Abstract!ServingAmfs(AmfSets[l], Requested(w)) = {}
      BY <1>1, <3>1 DEF WorkerInv, ScanOf
    <3> QED
      BY <3>2 DEF Abstract!ServingSets, AmfSets
  <2> HIDE DEF k, serving
  <2> QED
    BY <2>1, <2>2, <2>3, FirstOfUnique, SameFirstOf
<1>6. serving # {}
  BY <1>1, <1>4, CursorType DEF Abstract!ServingSets, AmfSets
<1>7. Abstract!RegistrationDecides(query[w])
  BY <1>2, NssaiDecide
<1>8. Abstract!Decision(nssf_cfg, query[w]) = grant
  <2>1. ~Abstract!Unsupported(query[w])
    BY <1>2 DEF Abstract!Unsupported, RegUnsupported
  <2>2. ~Abstract!TaiRefused(nssf_cfg, query[w])
    BY <1>2, SameValidation DEF TaiRefused, Abstract!TaiRefused
  <2>3. Abstract!Granted(nssf_cfg, query[w])
    BY <1>2, <1>6, <1>7, <2>1, <2>2 DEF Abstract!Granted, Requested
  <2> QED
    BY <1>7, <2>3 DEF Abstract!Decision
<1>9. grant = [granted |-> TRUE,
               allowed |-> Abstract!Matched(query[w]),
               amf_set |-> AmfSets[k].target_amf_set,
               amfs |-> Abstract!ServingAmfs(AmfSets[k], Requested(w)),
               nsi |-> NsiOf(w)]
  BY <1>5 DEF Abstract!RegistrationGrant, Requested, AmfSets, NsiOf
<1>10. Replied(w)' = grant
  <2>0. auth_slice_info[w] \in AuthorizedNetworkSliceInfo
    BY WorkerType
  <2>1. /\ auth_slice_info'[w].allowed = auth_slice_info[w].allowed
        /\ auth_slice_info'[w].nsi = auth_slice_info[w].nsi
        /\ auth_slice_info'[w].amf_set = AmfSets[k].target_amf_set
        /\ auth_slice_info'[w].amfs = scan[w].candidates
    <3> DEFINE T == AmfSets[k].target_amf_set
               C == scan[w].candidates
               old == auth_slice_info[w]
               new == auth_slice_info'[w]
    <3>1. new = [old EXCEPT !.amfs = C, !.amf_set = T]
      BY <1>3
    <3> HIDE DEF T, C, new
    <3>2. /\ new.allowed = old.allowed /\ new.nsi = old.nsi
          /\ new.amf_set = T /\ new.amfs = C
      BY <2>0, <3>1 DEF AuthorizedNetworkSliceInfo
    <3> QED
      BY <3>2 DEF T, C, new
  <2>3. /\ auth_slice_info[w].allowed = Abstract!Matched(query[w])
        /\ auth_slice_info[w].nsi = NsiOf(w)
    BY <1>2, AllowedInfo
  <2>2. Replied(w)' =
          [granted |-> TRUE, allowed |-> auth_slice_info'[w].allowed,
           amf_set |-> auth_slice_info'[w].amf_set,
           amfs |-> auth_slice_info'[w].amfs,
           nsi |-> auth_slice_info'[w].nsi]
    <3>1. (http_code'[w] = OK) = TRUE
      BY <1>3
    <3> QED
      BY <3>1 DEF Replied
  <2> QED
    BY <1>4, <1>9, <2>1, <2>2, <2>3
<1>11. PhaseOf(w)'
  BY <1>2, <1>3, <1>8, <1>10 DEF PhaseOf
<1>12. ~RegistrationFails(w)'
  BY <1>2, <1>3, <1>6 DEF RegistrationFails, Requested
<1> QED
  BY <1>3, <1>11, <1>12
  DEF WorkerInv, ScanOf, StatusOf, ProblemOf, OK, FORBIDDEN, BAD_REQUEST,
      SERVICE_UNAVAILABLE

LEMMA NoValidAmfSetStep ==
  ASSUME TypeOK, NEW w \in Worker, WorkerInv(w), NoValidAmfSet(w)
  PROVE  WorkerInv(w)'
<1>1. /\ pc[w] = "scan" /\ scan[w].amfSet > Len(AmfSets)
      /\ query[w] # NoQuery /\ query[w].reg # Absent /\ NssaiGiven(w)
      /\ ~RegUnsupported(w) /\ ~TaiRefused(w) /\ ~problem_details[w]
  BY DEF NoValidAmfSet, WorkerInv, PhaseOf
<1>2. /\ query' = query /\ nssf_cfg' = nssf_cfg /\ pc'[w] = "done"
      /\ http_code'[w] = FORBIDDEN /\ problem_details'[w] = TRUE
  BY <1>1 DEF NoValidAmfSet, Return, AfterPart, TypeOK
<1>3. Abstract!ServingSets(nssf_cfg, Requested(w)) = {}
  <2>1. /\ AmfSets \in Seq(amf_info_t)
        /\ scan[w].amfSet \in 1..(Len(AmfSets) + 1)
        /\ \A k \in 1..(scan[w].amfSet - 1) :
             Abstract!ServingAmfs(AmfSets[k], Requested(w)) = {}
    BY <1>1 DEF WorkerInv, ScanOf, TypeOK, AmfSets, SliceCfg
  <2>2. DOMAIN AmfSets = 1..(scan[w].amfSet - 1)
    BY <1>1, <2>1
  <2> QED
    BY <2>1, <2>2 DEF Abstract!ServingSets, AmfSets
<1>4. Abstract!RegistrationDecides(query[w])
  BY <1>1, NssaiDecide
<1>5. Abstract!Decision(nssf_cfg, query[w]) = Abstract!Refused
  BY <1>3, <1>4 DEF Abstract!Decision, Abstract!Granted, Requested
<1>6. Replied(w)' = Abstract!Refused
  <2>1. http_code'[w] # OK
    BY <1>2 DEF OK, FORBIDDEN
  <2> QED
    BY <2>1 DEF Replied, Abstract!Refused, EmptyInfo
<1>7. RegistrationFails(w)'
  BY <1>1, <1>2, <1>3, <1>4
  DEF RegistrationFails, RegUnsupported, TaiRefused, Requested
<1> QED
  BY <1>1, <1>2, <1>5, <1>6, <1>7
  DEF WorkerInv, PhaseOf, ScanOf, StatusOf, ProblemOf, FORBIDDEN,
      BAD_REQUEST, SERVICE_UNAVAILABLE

-----------------------------------------------------------------------------
(* The inductive invariant and what follows from it. *)

LEMMA WorkerStep ==
  ASSUME TypeOK, NEW w \in Worker, WorkerInv(w),
         Serve(w) \/ \E q \in Queries : Receive(w, q)
  PROVE  WorkerInv(w)'
  BY ReceiveStep, SkipPartStep, PduStep, RegRefuseUnsupportedStep,
     RegUntouchedStep, RegValidateInPlmnStep, ExamineAmfStep, NextAmfSetStep,
     SelectAmfSetStep, NoValidAmfSetStep, ReplyStep
  DEF Serve

LEMMA IInvWorkers == IInv <=> TypeOK /\ \A w \in Worker : WorkerInv(w)
  BY DEF IInv, WorkerInv, PhaseInvariant, ScanIsExhaustive, StatusExplained,
         ProblemDetailsMean403

LEMMA IInvStep == IInv /\ [Next]_vars => IInv'
<1> SUFFICES ASSUME IInv, [Next]_vars PROVE IInv'
  OBVIOUS
<1>1. TypeOK /\ \A w \in Worker : WorkerInv(w)
  BY IInvWorkers
<1>2. TypeOK'
  BY TypeStep
<1>3. ASSUME NEW v \in Worker PROVE WorkerInv(v)'
  <2>1. CASE UNCHANGED vars
    <3>1. Untouched(v)
      BY <2>1 DEF vars, Untouched
    <3> QED
      BY <1>1, <3>1, Frame
  <2>2. CASE Next
    <3>1. PICK w \in Worker : Serve(w) \/ \E q \in Queries : Receive(w, q)
      BY <2>2 DEF Next
    <3>2. CASE v = w
      BY <1>1, <3>1, <3>2, WorkerStep
    <3>3. CASE v # w
      <4>1. Untouched(v)
        BY <1>1, <3>1, <3>3, OthersUntouched
      <4> QED
        BY <1>1, <4>1, Frame
    <3> QED
      BY <3>2, <3>3
  <2> QED
    BY <2>1, <2>2
<1> QED
  BY <1>2, <1>3
  DEF IInv, WorkerInv, PhaseInvariant, ScanIsExhaustive, StatusExplained,
      ProblemDetailsMean403

(***************************************************************************)
(* IInv is an invariant of the handlers, for every set of threads, every   *)
(* configuration and every set of queries.                                 *)
(***************************************************************************)
THEOREM IInvIsInvariant == Spec => []IInv
  BY InitIInv, IInvStep, PTL DEF Spec

\* The variables keep their types.
THEOREM TypeCorrect == Spec => []TypeOK
<1>1. IInv => TypeOK
  BY DEF IInv
<1> QED
  BY <1>1, IInvIsInvariant, PTL

\* get_valid_amfset skips no AMF set and no AMF that serves the request.
THEOREM ScanExhaustive == Spec => []ScanIsExhaustive
<1>1. IInv => ScanIsExhaustive
  BY DEF IInv
<1> QED
  BY <1>1, IInvIsInvariant, PTL

\* Every status has one of its causes, whichever part of the query set it.
THEOREM StatusHasCause == Spec => []StatusExplained
<1>1. IInv => StatusExplained
  BY DEF IInv
<1> QED
  BY <1>1, IInvIsInvariant, PTL

\* Problem details go with a 403, and a 403 with problem details.
THEOREM ProblemDetailsWith403 == Spec => []ProblemDetailsMean403
<1>1. IInv => ProblemDetailsMean403
  BY DEF IInv
<1> QED
  BY <1>1, IInvIsInvariant, PTL

\* What each phase leaves in the shared result variables.
THEOREM PhasesKeepResults == Spec => []PhaseInvariant
<1>1. IInv => PhaseInvariant
  BY DEF IInv
<1> QED
  BY <1>1, IInvIsInvariant, PTL

-----------------------------------------------------------------------------
(* The handlers implement SliceAuthorization. *)

\* A handler's step keeps the query, and moves a request that is not decided.
LEMMA ServeKinds ==
  ASSUME NEW w \in Worker, Serve(w), ~Reply(w)
  PROVE  pc[w] \notin {"idle", "done"} /\ query' = query /\ nssf_cfg' = nssf_cfg
<1>1. CASE SkipPart(w) \/ ExamineAmf(w) \/ NextAmfSet(w)
  BY <1>1 DEF SkipPart, ExamineAmf, NextAmfSet, AtAmfSet
<1>2. CASE RegValidateInPlmn(w)
  BY <1>2 DEF RegValidateInPlmn, AtRegistration, Return
<1>3. CASE \/ PduRefuseRoaming(w) \/ PduRefuseTai(w) \/ PduSelectNsi(w)
           \/ RegRefuseUnsupported(w) \/ RegRefuseTai(w) \/ RegUndecided(w)
           \/ SelectAmfSet(w) \/ NoValidAmfSet(w)
  BY <1>3 DEF PduRefuseRoaming, PduRefuseTai, PduSelectNsi, AtPdu,
              RegRefuseUnsupported, RegRefuseTai, RegUndecided, AtRegistration,
              SelectAmfSet, AtAmfSet, NoValidAmfSet, Return
<1> QED
  BY <1>1, <1>2, <1>3 DEF Serve

\* What has been decided is not Pending.
LEMMA DecidedIsReply ==
  ASSUME TypeOK, NEW w \in Worker
  PROVE  Replied(w) # Pending
<1>1. auth_slice_info[w] \in AuthorizedNetworkSliceInfo
  BY DEF TypeOK
<1>2. Replied(w) \in Replies
  <2> DEFINE info == IF http_code[w] = OK THEN auth_slice_info[w] ELSE EmptyInfo
  <2>1. info \in AuthorizedNetworkSliceInfo
    BY <1>1 DEF EmptyInfo, AuthorizedNetworkSliceInfo
  <2>2. (http_code[w] = OK) \in BOOLEAN
    OBVIOUS
  <2>3. Replied(w) = [granted |-> http_code[w] = OK, allowed |-> info.allowed,
                      amf_set |-> info.amf_set, amfs |-> info.amfs,
                      nsi |-> info.nsi]
    BY DEF Replied
  <2> HIDE DEF info
  <2>4. /\ info.allowed \in SUBSET Snssai /\ info.amfs \in SUBSET NfId
        /\ info.amf_set \in AmfSetId \cup {NoAmfSet}
        /\ info.nsi \in NsiInfo \cup {NoNsi}
    BY <2>1 DEF AuthorizedNetworkSliceInfo
  <2> QED
    BY <2>2, <2>3, <2>4 DEF Replies
<1> QED
  BY <1>2, PendingAssumption

\* The decisions of the other threads stay as they are.
LEMMA DecisionFrame ==
  ASSUME TypeOK, NEW w \in Worker, NEW d,
         Serve(w) \/ \E q \in Queries : Receive(w, q),
         (IF pc[w] = "done" THEN Replied(w) ELSE Pending)' = d
  PROVE  decision' = [decision EXCEPT ![w] = d]
<1>1. \A v \in Worker \ {w} :
        pc'[v] = pc[v] /\ Replied(v)' = Replied(v)
  <2> SUFFICES ASSUME NEW v \in Worker, v # w
               PROVE  pc'[v] = pc[v] /\ Replied(v)' = Replied(v)
    OBVIOUS
  <2>1. Untouched(v)
    BY OthersUntouched
  <2> QED
    BY <2>1 DEF Untouched, Replied
<1> QED
  BY <1>1 DEF decision

LEMMA RefinementStep ==
  IInv /\ IInv' /\ [Next]_vars =>
    [Abstract!Next]_<<nssf_cfg, query, decision>>
<1> SUFFICES ASSUME IInv, IInv', [Next]_vars
             PROVE  [Abstract!Next]_<<nssf_cfg, query, decision>>
  OBVIOUS
<1>1. TypeOK /\ \A w \in Worker : PhaseOf(w) /\ PhaseOf(w)'
  BY DEF IInv, PhaseInvariant
<1>2. CASE UNCHANGED vars
  <2>1. decision' = decision
    BY <1>2 DEF vars, decision, Replied
  <2> QED
    BY <1>2, <2>1 DEF vars
<1>3. ASSUME NEW w \in Worker, NEW q \in Queries, Receive(w, q)
      PROVE  Abstract!Ask(w)
  <2>1. /\ pc[w] = "idle" /\ pc'[w] = "pdu" /\ nssf_cfg' = nssf_cfg
        /\ query'[w] = Asked(q) /\ query' = [query EXCEPT ![w] = Asked(q)]
    BY <1>1, <1>3 DEF Receive, TypeOK
  <2>2. query[w] = NoQuery
    BY <1>1, <2>1 DEF PhaseOf
  <2>3. decision[w] = Pending
    BY <2>1 DEF decision
  <2>4. decision' = [decision EXCEPT ![w] = Pending]
    BY <1>1, <1>3, <2>1, DecisionFrame
  <2>5. decision' = decision
    BY <2>3, <2>4 DEF decision
  <2> QED
    BY <2>1, <2>2, <2>5 DEF Abstract!Ask, AskedQueries
<1>4. ASSUME NEW w \in Worker, Serve(w), ~Reply(w)
      PROVE  Abstract!Decide(w) \/ UNCHANGED <<nssf_cfg, query, decision>>
  <2>1. /\ pc[w] \notin {"idle", "done"} /\ query' = query
        /\ nssf_cfg' = nssf_cfg
    BY <1>4, ServeKinds
  <2>2. decision[w] = Pending
    BY <2>1 DEF decision
  <2>3. CASE pc'[w] = "done"
    <3>1. Replied(w)' = Abstract!Decision(nssf_cfg, query[w])
      BY <1>1, <2>1, <2>3 DEF PhaseOf
    <3>2. decision' = [decision EXCEPT
                         ![w] = Abstract!Decision(nssf_cfg, query[w])]
      BY <1>1, <1>4, <2>3, <3>1, DecisionFrame
    <3>3. query[w] # NoQuery
      BY <1>1, <2>1 DEF PhaseOf
    <3> QED
      BY <2>1, <2>2, <3>2, <3>3 DEF Abstract!Decide
  <2>4. CASE pc'[w] # "done"
    <3>1. decision' = [decision EXCEPT ![w] = Pending]
      BY <1>1, <1>4, <2>4, DecisionFrame
    <3>2. decision' = decision
      BY <2>2, <3>1 DEF decision
    <3> QED
      BY <2>1, <3>2
  <2> QED
    BY <2>3, <2>4
<1>5. ASSUME NEW w \in Worker, Reply(w)
      PROVE  Abstract!Answer(w)
  <2>1. /\ pc[w] = "done" /\ pc'[w] = "idle" /\ nssf_cfg' = nssf_cfg
        /\ query' = [query EXCEPT ![w] = NoQuery]
    BY <1>1, <1>5 DEF Reply, TypeOK
  <2>2. decision[w] # Pending
    BY <1>1, <2>1, DecidedIsReply DEF decision
  <2>3. Serve(w)
    BY <1>5 DEF Serve
  <2>4. decision' = [decision EXCEPT ![w] = Pending]
    BY <1>1, <2>1, <2>3, DecisionFrame
  <2> QED
    BY <2>1, <2>2, <2>4 DEF Abstract!Answer
<1> QED
  BY <1>2, <1>3, <1>4, <1>5 DEF Next, Abstract!Next

(***************************************************************************)
(* The two handlers, which share their result variables, scan the AMF sets *)
(* one AMF at a time and run in several threads, give every query the      *)
(* decision of SliceAuthorization.                                         *)
(***************************************************************************)
THEOREM HandlersImplementAuthorization == Spec => ImplementsAuthorization
<1>1. Init => Abstract!Init
  BY DEF Init, Abstract!Init, decision
<1>2. Spec => Abstract!Init /\ [][Abstract!Next]_<<nssf_cfg, query, decision>>
  BY <1>1, RefinementStep, IInvIsInvariant, PTL DEF Spec
<1> QED
  BY <1>2 DEF ImplementsAuthorization, Abstract!Spec

-----------------------------------------------------------------------------
(* The status of a reply is decided by the configuration and the query. *)

LEMMA SameCodes ==
  /\ Abstract!OK = OK /\ Abstract!BAD_REQUEST = BAD_REQUEST
  /\ Abstract!FORBIDDEN = FORBIDDEN
  /\ Abstract!SERVICE_UNAVAILABLE = SERVICE_UNAVAILABLE
  BY DEF OK, BAD_REQUEST, FORBIDDEN, SERVICE_UNAVAILABLE, Abstract!OK,
         Abstract!BAD_REQUEST, Abstract!FORBIDDEN, Abstract!SERVICE_UNAVAILABLE

LEMMA SamePduStatus ==
  ASSUME NEW w \in Worker
  PROVE  PduStatus(w) = Abstract!PduStatus(nssf_cfg, query[w])
  BY SameCodes DEF PduStatus, Abstract!PduStatus, PduRoaming, NsiOf

\* What is decided is a grant exactly when the query is granted.
LEMMA DecisionIsGrant ==
  \A cfg, q : Abstract!Decision(cfg, q).granted <=> Abstract!Granted(cfg, q)
  BY DEF Abstract!Decision, Abstract!Refused, Abstract!RegistrationGrant

\* What the handlers leave when the registration part decides nothing.
LEMMA UndecidedStatus ==
  ASSUME NEW w \in Worker, PhaseOf(w), pc[w] = "registration",
         query[w].reg # Absent => ~RegUnsupported(w),
         Abstract!TaiRefused(nssf_cfg, query[w])
           \/ ~Abstract!RegistrationDecides(query[w])
  PROVE  http_code[w] = Abstract!Status(nssf_cfg, query[w])
<1>1. http_code[w] = PduStatus(w)
  BY DEF PhaseOf
<1>2. query[w].reg # Absent => ~Abstract!Unsupported(query[w])
  BY DEF RegUnsupported, Abstract!Unsupported
<1> QED
  BY <1>1, <1>2, SamePduStatus DEF Abstract!Status

\* A registration that is examined has a status that says whether it is granted.
LEMMA ExaminedStatus ==
  ASSUME NEW w \in Worker, query[w].reg # Absent, NssaiGiven(w),
         ~RegUnsupported(w), ~TaiRefused(w)
  PROVE  Abstract!Status(nssf_cfg, query[w]) =
           IF Abstract!Granted(nssf_cfg, query[w]) THEN OK ELSE FORBIDDEN
<1>1. ~Abstract!Unsupported(query[w])
  BY DEF RegUnsupported, Abstract!Unsupported
<1>2. ~Abstract!TaiRefused(nssf_cfg, query[w])
  BY SameValidation DEF TaiRefused, Abstract!TaiRefused
<1>3. Abstract!RegistrationDecides(query[w])
  BY NssaiDecide
<1> QED
  BY <1>1, <1>2, <1>3, SameCodes DEF Abstract!Status

LEMMA DecidedStep ==
  ASSUME TypeOK, NEW w \in Worker, WorkerInv(w), PhaseOf(w)',
         Serve(w) \/ \E q \in Queries : Receive(w, q)
  PROVE  DecidedStatus(w)'
<1> SUFFICES ASSUME pc'[w] = "done"
             PROVE  http_code'[w] = Abstract!Status(nssf_cfg', query'[w])
  BY DEF DecidedStatus
<1>0. PhaseOf(w)
  BY DEF WorkerInv
<1>1. http_code'[w] = OK <=> Abstract!Granted(nssf_cfg', query'[w])
  <2>1. Replied(w)' = Abstract!Decision(nssf_cfg', query'[w])
    BY DEF PhaseOf
  <2>2. Replied(w)'.granted <=> http_code'[w] = OK
    BY DEF Replied
  <2> QED
    BY <2>1, <2>2, DecisionIsGrant
<1>2. CASE SkipPart(w)
  <2>1. /\ query' = query /\ nssf_cfg' = nssf_cfg /\ http_code' = http_code
        /\ pc[w] = "registration" /\ query[w].reg = Absent
    BY <1>2 DEF SkipPart, AfterPart, results, TypeOK
  <2>2. ~Abstract!RegistrationDecides(query[w])
    BY <2>1 DEF Abstract!RegistrationDecides
  <2> QED
    BY <1>0, <2>1, <2>2, UndecidedStatus
<1>3. CASE RegRefuseTai(w) \/ RegUndecided(w)
  <2>1. /\ query' = query /\ nssf_cfg' = nssf_cfg
        /\ http_code'[w] = http_code[w]
        /\ pc[w] = "registration" /\ ~RegUnsupported(w)
    BY <1>3 DEF RegRefuseTai, RegUndecided, AtRegistration, Return, TypeOK
  <2>2. CASE RegRefuseTai(w)
    <3>1. Abstract!TaiRefused(nssf_cfg, query[w])
      BY <2>2, SameValidation
      DEF RegRefuseTai, TaiRefused, Abstract!TaiRefused
    <3> QED
      BY <1>0, <2>1, <3>1, UndecidedStatus
  <2>3. CASE RegUndecided(w)
    <3>1. ~Abstract!RegistrationDecides(query[w])
      BY <2>3 DEF RegUndecided, NssaiGiven, Abstract!RegistrationDecides
    <3> QED
      BY <1>0, <2>1, <3>1, UndecidedStatus
  <2> QED
    BY <1>3, <2>2, <2>3
<1>4. CASE RegRefuseUnsupported(w)
  <2>1. /\ query' = query /\ http_code'[w] = SERVICE_UNAVAILABLE
        /\ query[w].reg # Absent /\ Abstract!Unsupported(query[w])
    BY <1>4 DEF RegRefuseUnsupported, AtRegistration, Return, TypeOK,
                RegUnsupported, Abstract!Unsupported
  <2> QED
    BY <2>1, SameCodes DEF Abstract!Status
<1>5. CASE RegValidateInPlmn(w) \/ SelectAmfSet(w) \/ NoValidAmfSet(w)
  <2>1. /\ query[w].reg # Absent /\ NssaiGiven(w)
        /\ ~RegUnsupported(w) /\ ~TaiRefused(w)
    BY <1>0, <1>5 DEF RegValidateInPlmn, AtRegistration, SelectAmfSet,
                      AtAmfSet, NoValidAmfSet, PhaseOf
  <2>2. /\ query' = query /\ nssf_cfg' = nssf_cfg
        /\ http_code'[w] \in {OK, FORBIDDEN}
    <3>1. CASE RegValidateInPlmn(w)
      BY <3>1 DEF RegValidateInPlmn, Return, TypeOK
    <3>2. CASE SelectAmfSet(w) \/ NoValidAmfSet(w)
      BY <3>2 DEF SelectAmfSet, NoValidAmfSet, Return, TypeOK
    <3> QED
      BY <1>5, <3>1, <3>2
  <2> QED
    BY <1>1, <2>1, <2>2, ExaminedStatus DEF OK, FORBIDDEN
<1>6. CASE PduRefuseRoaming(w) \/ PduRefuseTai(w) \/ PduSelectNsi(w)
  BY <1>6 DEF PduRefuseRoaming, PduRefuseTai, PduSelectNsi, AtPdu, Return,
              AfterPart, TypeOK
<1>7. CASE ExamineAmf(w) \/ NextAmfSet(w)
  BY <1>7 DEF ExamineAmf, NextAmfSet, AtAmfSet
<1>8. CASE Reply(w) \/ \E q \in Queries : Receive(w, q)
  BY <1>8 DEF Reply, Receive, TypeOK
<1> QED
  BY <1>2, <1>3, <1>4, <1>5, <1>6, <1>7, <1>8 DEF Serve

LEMMA StatusStep ==
  IInv /\ IInv' /\ StatusDecided /\ [Next]_vars => StatusDecided'
<1> SUFFICES ASSUME IInv, IInv', StatusDecided, [Next]_vars,
                    NEW v \in Worker
             PROVE  DecidedStatus(v)'
  BY DEF StatusDecided
<1>1. /\ TypeOK
      /\ \A w \in Worker : WorkerInv(w) /\ PhaseOf(w)' /\ DecidedStatus(w)
  BY IInvWorkers DEF IInv, PhaseInvariant, StatusDecided
<1>2. ASSUME Untouched(v) PROVE DecidedStatus(v)'
  BY <1>1, <1>2 DEF Untouched, DecidedStatus
<1>3. CASE UNCHANGED vars
  <2>1. Untouched(v)
    BY <1>3 DEF vars, Untouched
  <2> QED
    BY <1>2, <2>1
<1>4. CASE Next
  <2>1. PICK w \in Worker : Serve(w) \/ \E q \in Queries : Receive(w, q)
    BY <1>4 DEF Next
  <2>2. CASE v = w
    BY <1>1, <2>1, <2>2, DecidedStep
  <2>3. CASE v # w
    <3>1. Untouched(v)
      BY <1>1, <2>1, <2>3, OthersUntouched
    <3> QED
      BY <1>2, <3>1
  <2> QED
    BY <2>2, <2>3
<1> QED
  BY <1>3, <1>4

(***************************************************************************)
(* The status of every reply is a function of the configuration and the    *)
(* query, although http_code goes through both handlers.                   *)
(***************************************************************************)
THEOREM RepliesHaveDecidedStatus == Spec => []StatusDecided
<1>1. Init => StatusDecided
  BY DEF Init, StatusDecided, DecidedStatus
<1> QED
  BY <1>1, StatusStep, IInvIsInvariant, PTL DEF Spec
=============================================================================

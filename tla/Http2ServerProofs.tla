------------------------- MODULE Http2ServerProofs -------------------------
(***************************************************************************)
(* Proofs about Http2Server: what the frames that have arrived on a stream *)
(* tell of its answer, for any number of streams, whose callbacks come in  *)
(* any order and share the one nfId.                                       *)
(***************************************************************************)
EXTENDS Http2Server, SequenceTheorems, FiniteSetTheorems, TLAPS

IsPut(r) == r.method = "PUT" /\ r.nfId # EmptyNfId

IdleOf(s) == stream[s] = "idle" =>
  /\ frames[s] = <<>> /\ arrived[s] = 0
  /\ head[s] = NoHead /\ computed[s] = <<>> /\ handled[s] = <<>>

FramesOf(s) == stream[s] # "idle" =>
  request[s] \in Requests /\ frames[s] \in Framings(request[s].body)

AvailabilityOf(s) == stream[s] # "idle" /\ AtAvailability(s) =>
  /\ \A i \in DOMAIN handled[s] : handled[s][i] = request[s].nfId
  /\ Len(handled[s]) = IF IsPut(request[s]) THEN Cardinality(Parsed(s)) ELSE 0
  /\ Len(computed[s]) = Len(handled[s])
  /\ IF IsPut(request[s])
       THEN head[s] = IF arrived[s] = 0 THEN NoHead
                      ELSE IF 1 \in Parsed(s) THEN computed[s][1]
                      ELSE BAD_REQUEST
       ELSE head[s] \in IF request[s].method = "PUT" THEN {NoHead}
                                                     ELSE {NoHead, BAD_REQUEST}

SelectionOf(s) == stream[s] # "idle" =>
  /\ ~AtAvailability(s) => handled[s] = <<>>
  /\ AtSelection(s) /\ Accepts(request[s]) /\ ~Unparsable(request[s]) =>
       IF computed[s] = <<>> THEN head[s] = NoHead ELSE head[s] = computed[s][1]

StreamInv(s) ==
  IdleOf(s) /\ FramesOf(s) /\ AvailabilityOf(s) /\ SelectionOf(s)

IInv == TypeOK /\ \A s \in Stream : StreamInv(s)

-----------------------------------------------------------------------------
(* Frames *)

LEMMA StatusTypes ==
  /\ {OK, NO_CONTENT, BAD_REQUEST} \subseteq Nat /\ NO_CONTENT # BAD_REQUEST
  /\ SelectionCode \cup PutCode \subseteq Nat
  BY DEF OK, NO_CONTENT, BAD_REQUEST, FORBIDDEN, SERVICE_UNAVAILABLE,
         SelectionCode, PutCode

LEMMA FramingsType ==
  ASSUME NEW body \in Body, NEW f \in Framings(body)
  PROVE  /\ f \in Seq(Data)
         /\ \A i \in 1 .. Len(f) : f[i] # "none"
         /\ Len(f) > 0 <=> body # "none"
<1>1. CASE body = "none"
  BY <1>1 DEF Framings
<1>2. CASE body # "none"
  <2> DEFINE Given == {"good", "bad", body}
  <2>1. PICK n \in 1 .. MaxFrames : f \in [1 .. n -> Given]
    BY <1>2 DEF Framings
  <2>2. Given \subseteq Data /\ "none" \notin Given
    BY <1>2 DEF Data, Body
  <2>3. n \in Nat /\ n > 0
    BY MaxFramesAssumption
  <2> HIDE DEF Given
  <2>4. f \in Seq(Given) /\ Len(f) = n
    BY <2>1, <2>3
  <2> QED
    BY <1>2, <2>2, <2>3, <2>4
<1> QED
  BY <1>1, <1>2

LEMMA StreamType ==
  ASSUME IInv, NEW s \in Stream, stream[s] = "open"
  PROVE  /\ TypeOK /\ StreamInv(s)
         /\ request[s] \in Request /\ request[s].body \in Body
         /\ frames[s] \in Framings(request[s].body)
         /\ frames[s] \in Seq(Data) /\ arrived[s] \in 0 .. Len(frames[s])
<1>1. TypeOK /\ StreamInv(s)
  BY DEF IInv
<1>2. request[s] \in Request /\ frames[s] \in Framings(request[s].body)
  BY <1>1, RequestsAssumption DEF StreamInv, FramesOf
<1>3. request[s].body \in Body
  BY <1>2 DEF Request
<1> QED
  BY <1>1, <1>2, <1>3 DEF TypeOK

\* A callback: a frame arrives, or the stream ends.
LEMMA ArrivesStep ==
  ASSUME IInv, NEW s \in Stream, NEW d, Arrives(s, d)
  PROVE  /\ stream[s] = "open" /\ stream'[s] # "idle"
         /\ stream' \in [Stream -> {"idle", "open", "ended"}]
         /\ request' = request /\ frames' = frames
         /\ \A u \in Stream : arrived'[u] \in 0 .. Len(frames[u])
         /\ \A u \in Stream \ {s} : stream'[u] = stream[u] /\ arrived'[u] = arrived[u]
         /\ \/ /\ arrived'[s] = arrived[s] + 1 /\ arrived'[s] \in 1 .. Len(frames[s])
               /\ d = frames[s][arrived'[s]] /\ d # "none"
            \/ d = "none" /\ arrived' = arrived
<1>1. stream[s] = "open" /\ request' = request /\ frames' = frames
  BY DEF Arrives
<1>2. /\ TypeOK /\ request[s].body \in Body
      /\ frames[s] \in Framings(request[s].body)
      /\ frames[s] \in Seq(Data) /\ arrived[s] \in 0 .. Len(frames[s])
  BY <1>1, StreamType
<1>3. \A i \in 1 .. Len(frames[s]) : frames[s][i] # "none"
  BY <1>2, FramingsType
<1>4. CASE arrived[s] < Len(frames[s])
  <2>1. /\ d = frames[s][arrived[s] + 1]
        /\ arrived' = [arrived EXCEPT ![s] = @ + 1] /\ stream' = stream
    BY <1>4 DEF Arrives
  <2>2. arrived'[s] = arrived[s] + 1 /\ arrived'[s] \in 1 .. Len(frames[s])
    BY <1>2, <1>4, <2>1 DEF TypeOK
  <2> QED
    BY <1>1, <1>2, <1>3, <2>1, <2>2 DEF TypeOK
<1>5. CASE ~(arrived[s] < Len(frames[s]))
  <2>1. /\ d = "none" /\ arrived' = arrived
        /\ stream' = [stream EXCEPT ![s] = "ended"]
    BY <1>5 DEF Arrives
  <2>2. \A u \in Stream : arrived[u] \in 0 .. Len(frames[u])
    BY <1>2 DEF TypeOK
  <2> QED
    BY <1>1, <1>2, <2>1, <2>2 DEF TypeOK
<1> QED
  BY <1>4, <1>5

-----------------------------------------------------------------------------
(* Steps of a stream *)

\* Everything that is said of stream u, except that nfId may have changed.
Untouched(u) ==
  /\ stream'[u] = stream[u] /\ request'[u] = request[u]
  /\ frames'[u] = frames[u] /\ arrived'[u] = arrived[u]
  /\ head'[u] = head[u] /\ computed'[u] = computed[u]
  /\ handled'[u] = handled[u]

\* The rest of a stream's step changes that stream only.
OnlyOf(s) ==
  /\ TypeOK'
  /\ \A u \in Stream \ {s} : Untouched(u)

LEMMA AnswerType ==
  ASSUME TypeOK, NEW s \in Stream, NEW code \in Nat, Answer(s, code)
  PROVE  /\ head' \in [Stream -> Nat \cup {NoHead}]
         /\ head'[s] = IF head[s] = NoHead THEN code ELSE head[s]
         /\ \A u \in Stream \ {s} : head'[u] = head[u]
  BY DEF TypeOK, Answer

LEMMA ArrivesType ==
  ASSUME IInv, NEW s \in Stream, NEW d, Arrives(s, d)
  PROVE  /\ stream' \in [Stream -> {"idle", "open", "ended"}]
         /\ request' \in [Stream -> Request \cup {NoRequest}]
         /\ frames' \in [Stream -> Seq(Data)]
         /\ arrived' \in [Stream -> Nat]
         /\ \A u \in Stream : arrived'[u] <= Len(frames'[u])
<1>1. TypeOK
  BY DEF IInv
<1>2. request' = request /\ frames' = frames
  BY ArrivesStep
<1>3. arrived' \in [Stream -> Nat]
  BY <1>1 DEF TypeOK, Arrives
<1>4. \A u \in Stream : arrived'[u] <= Len(frames'[u])
  <2> TAKE u \in Stream
  <2>1. arrived'[u] \in 0 .. Len(frames[u]) /\ Len(frames[u]) \in Nat
    BY <1>1, ArrivesStep DEF TypeOK
  <2> QED
    BY <1>2, <2>1
<1> QED
  BY <1>1, <1>2, <1>3, <1>4, ArrivesStep DEF TypeOK

\* A callback that answers, or not, and hands nothing to the application.
LEMMA AnswersOnly ==
  ASSUME IInv, NEW s \in Stream, NEW d, Arrives(s, d),
         head' = head \/ \E code \in Nat : Answer(s, code),
         UNCHANGED <<computed, handled>>,
         nfId' \in NfInstance \cup {EmptyNfId}
  PROVE  OnlyOf(s)
<1>1. TypeOK
  BY DEF IInv
<1>2. /\ head' \in [Stream -> Nat \cup {NoHead}]
      /\ \A u \in Stream \ {s} : head'[u] = head[u]
  <2>1. CASE head' = head
    BY <1>1, <2>1 DEF TypeOK
  <2>2. CASE \E code \in Nat : Answer(s, code)
    BY <1>1, <2>2, AnswerType
  <2> QED
    BY <2>1, <2>2
<1>3. TypeOK'
  BY <1>1, <1>2, ArrivesType DEF TypeOK
<1> QED
  BY <1>2, <1>3, ArrivesStep DEF OnlyOf, Untouched

\* A callback that the application has computed a status for.
LEMMA ComputedStep ==
  ASSUME IInv, NEW s \in Stream, NEW d, Arrives(s, d),
         NEW code \in SelectionCode \cup PutCode, AnswerComputed(s, code),
         \/ UNCHANGED <<handled, nfId>>
         \/ /\ nfId' \in NfInstance
            /\ handled' = [handled EXCEPT ![s] = Append(@, nfId')]
  PROVE  /\ OnlyOf(s)
         /\ computed'[s] = Append(computed[s], code)
         /\ head'[s] = IF head[s] = NoHead THEN code ELSE head[s]
<1> DEFINE Codes == SelectionCode \cup PutCode
<1>1. TypeOK /\ code \in Nat
  BY StatusTypes DEF IInv
<1>2. /\ head' \in [Stream -> Nat \cup {NoHead}]
      /\ head'[s] = IF head[s] = NoHead THEN code ELSE head[s]
      /\ \A u \in Stream \ {s} : head'[u] = head[u]
  BY <1>1, AnswerType DEF AnswerComputed
<1>3. /\ computed' \in [Stream -> Seq(Codes)]
      /\ computed'[s] = Append(computed[s], code)
      /\ \A u \in Stream \ {s} : computed'[u] = computed[u]
  <2>1. computed \in [Stream -> Seq(Codes)] /\ code \in Codes
    BY <1>1 DEF TypeOK
  <2> HIDE DEF Codes
  <2>2. Append(computed[s], code) \in Seq(Codes)
    BY <2>1
  <2> QED
    BY <2>1, <2>2 DEF AnswerComputed
<1>4. /\ handled' \in [Stream -> Seq(NfInstance)]
      /\ nfId' \in NfInstance \cup {EmptyNfId}
      /\ \A u \in Stream \ {s} : handled'[u] = handled[u]
  <2>1. CASE UNCHANGED <<handled, nfId>>
    BY <1>1, <2>1 DEF TypeOK
  <2>2. CASE /\ nfId' \in NfInstance
             /\ handled' = [handled EXCEPT ![s] = Append(@, nfId')]
    BY <1>1, <2>2 DEF TypeOK
  <2> QED
    BY <2>1, <2>2
<1>5. TypeOK'
  BY <1>1, <1>2, <1>3, <1>4, ArrivesType DEF TypeOK
<1> QED
  BY <1>2, <1>3, <1>4, <1>5, ArrivesStep DEF OnlyOf, Untouched

\* The frames of an open stream stay as its client cut them.
LEMMA FramesStep ==
  ASSUME IInv, NEW s \in Stream, NEW d, Arrives(s, d)
  PROVE  IdleOf(s)' /\ FramesOf(s)'
<1>1. FramesOf(s)
  BY DEF IInv, StreamInv
<1> QED
  BY <1>1, ArrivesStep DEF IdleOf, FramesOf

\* A callback for a path that is not below nssai-availability.
LEMMA ElsewhereStep ==
  ASSUME IInv, NEW s \in Stream, NEW d, Arrives(s, d),
         ~AtAvailability(s), UNCHANGED handled
  PROVE  /\ AvailabilityOf(s)'
         /\ stream'[s] # "idle" /\ ~AtAvailability(s) => handled'[s] = <<>>
<1>1. SelectionOf(s) /\ stream[s] = "open" /\ request' = request
  BY ArrivesStep DEF IInv, StreamInv
<1> QED
  BY <1>1 DEF AvailabilityOf, AtAvailability, SelectionOf

LEMMA SelectionHandledStep ==
  ASSUME IInv, NEW s \in Stream, NEW code \in SelectionCode,
         SelectionHandled(s, code)
  PROVE  OnlyOf(s) /\ StreamInv(s)'
<1>1. PICK d : Arrives(s, d)
  BY DEF SelectionHandled
<1>2. /\ TypeOK /\ StreamInv(s) /\ code \in SelectionCode \cup PutCode
      /\ code \in Nat /\ NoHead \notin Nat
  BY StatusTypes, NoHeadAssumption DEF IInv
<1>3. /\ AtSelection(s) /\ ~AtAvailability(s) /\ AnswerComputed(s, code)
      /\ UNCHANGED <<handled, nfId>>
  BY DEF SelectionHandled, AtSelection, AtAvailability
<1>4. /\ OnlyOf(s) /\ computed'[s] = Append(computed[s], code)
      /\ head'[s] = IF head[s] = NoHead THEN code ELSE head[s]
  BY <1>1, <1>2, <1>3, ComputedStep
<1>5. stream[s] # "idle" /\ stream'[s] # "idle" /\ request' = request
  BY <1>1, ArrivesStep
<1>6. computed[s] \in Seq(SelectionCode \cup PutCode)
  BY <1>2 DEF TypeOK
<1>7. /\ computed'[s] # <<>>
      /\ computed'[s][1] = IF computed[s] = <<>> THEN code ELSE computed[s][1]
  <2> DEFINE Codes == SelectionCode \cup PutCode
  <2>1. computed[s] \in Seq(Codes) /\ code \in Codes
    BY <1>2, <1>6
  <2> HIDE DEF Codes
  <2>2. /\ Append(computed[s], code) # <<>>
        /\ Append(computed[s], code)[1] =
             IF Len(computed[s]) = 0 THEN code ELSE computed[s][1]
    BY <2>1, AppendProperties
  <2>3. Len(computed[s]) = 0 <=> computed[s] = <<>>
    BY <2>1, EmptySeq
  <2> QED
    BY <1>4, <2>2, <2>3
<1>8. ASSUME Accepts(request[s]), ~Unparsable(request[s])
      PROVE  head'[s] = computed'[s][1]
  <2>1. IF computed[s] = <<>> THEN head[s] = NoHead ELSE head[s] = computed[s][1]
    BY <1>2, <1>3, <1>5, <1>8 DEF StreamInv, SelectionOf
  <2>2. computed[s] # <<>> => computed[s][1] \in Nat
    <3>1. computed[s] # <<>> => computed[s][1] \in SelectionCode \cup PutCode
      <4> DEFINE Codes == SelectionCode \cup PutCode
      <4>1. computed[s] \in Seq(Codes)
        BY <1>6
      <4> HIDE DEF Codes
      <4>2. computed[s] # <<>> => computed[s][1] \in Codes
        BY <4>1
      <4> QED
        BY <4>2 DEF Codes
    <3> QED
      BY <3>1, StatusTypes
  <2> QED
    BY <1>2, <1>4, <1>7, <2>1, <2>2
<1>9. SelectionOf(s)'
  BY <1>1, <1>3, <1>5, <1>7, <1>8, ElsewhereStep
  DEF SelectionOf, AtSelection, AtAvailability
<1> QED
  BY <1>1, <1>3, <1>4, <1>9, ElsewhereStep, FramesStep DEF StreamInv

\* The callbacks of the other paths, and of selections without a decision.
LEMMA UndecidedStep ==
  ASSUME IInv, NEW s \in Stream, NEW d, Arrives(s, d), ~AtAvailability(s),
         \/ head' = head
         \/ /\ \E code \in Nat : Answer(s, code)
            /\ ~(AtSelection(s) /\ Accepts(request[s]) /\ ~Unparsable(request[s])),
         UNCHANGED <<computed, handled, nfId>>
  PROVE  OnlyOf(s) /\ StreamInv(s)'
<1>1. TypeOK /\ StreamInv(s)
  BY DEF IInv
<1>2. stream[s] # "idle" /\ stream'[s] # "idle" /\ request' = request
  BY ArrivesStep
<1>3. nfId' \in NfInstance \cup {EmptyNfId}
  BY <1>1 DEF TypeOK
<1>4. OnlyOf(s)
  BY <1>3, AnswersOnly
<1>5. SelectionOf(s)'
  BY <1>1, <1>2, ElsewhereStep
  DEF StreamInv, SelectionOf, AtSelection, AtAvailability
<1> QED
  BY <1>4, <1>5, ElsewhereStep, FramesStep DEF StreamInv

LEMMA ElsewhereSteps ==
  ASSUME IInv, NEW s \in Stream,
         \/ SelectionRefused(s) \/ SelectionUnparsable(s)
         \/ get_slice_info_default_handler(s) \/ SelectionMethodIgnored(s)
         \/ SubscriptionsIgnored(s) \/ get_slice_config(s) \/ get_api_list(s)
         \/ CustomMethodIgnored(s)
  PROVE  OnlyOf(s) /\ StreamInv(s)'
<1>1. CASE SelectionRefused(s) \/ SelectionUnparsable(s)
  <2>1. PICK d : Arrives(s, d)
    BY <1>1 DEF SelectionRefused, SelectionUnparsable
  <2>2. ~(AtSelection(s) /\ Accepts(request[s]) /\ ~Unparsable(request[s]))
    BY <1>1 DEF SelectionRefused, SelectionUnparsable, Unparsable
  <2>3. /\ ~AtAvailability(s) /\ Answer(s, BAD_REQUEST)
        /\ UNCHANGED <<computed, handled, nfId>>
    BY <1>1
    DEF SelectionRefused, SelectionUnparsable, AtSelection, AtAvailability
  <2> QED
    BY <2>1, <2>2, <2>3, UndecidedStep, StatusTypes
<1>2. CASE get_api_list(s)
  <2>1. PICK d : Arrives(s, d)
    BY <1>2 DEF get_api_list
  <2>2. /\ ~AtSelection(s) /\ ~AtAvailability(s) /\ Answer(s, OK)
        /\ UNCHANGED <<computed, handled, nfId>>
    BY <1>2 DEF get_api_list, AtSelection, AtAvailability
  <2> QED
    BY <2>1, <2>2, UndecidedStep, StatusTypes
<1>3. CASE \/ get_slice_info_default_handler(s) \/ SelectionMethodIgnored(s)
           \/ SubscriptionsIgnored(s) \/ get_slice_config(s)
           \/ CustomMethodIgnored(s)
  <2>1. PICK d : Arrives(s, d)
    BY <1>3 DEF get_slice_info_default_handler, SelectionMethodIgnored,
                SubscriptionsIgnored, get_slice_config, CustomMethodIgnored
  <2>2. /\ ~AtAvailability(s)
        /\ UNCHANGED <<head, computed, handled, nfId>>
    BY <1>3 DEF get_slice_info_default_handler, SelectionMethodIgnored,
                SubscriptionsIgnored, get_slice_config, CustomMethodIgnored,
                AtSelection, AtAvailability
  <2> QED
    BY <2>1, <2>2, UndecidedStep
<1> QED
  BY <1>1, <1>2, <1>3

-----------------------------------------------------------------------------
(* NSSAI availability *)

\* The frames that have arrived are finitely many.
LEMMA ParsedCount ==
  ASSUME NEW s \in Stream, arrived[s] \in Nat
  PROVE  /\ IsFiniteSet(Parsed(s)) /\ Cardinality(Parsed(s)) \in Nat
         /\ Cardinality(Parsed(s)) = 0 <=> Parsed(s) = {}
<1>1. IsFiniteSet(1 .. arrived[s]) /\ Parsed(s) \in SUBSET (1 .. arrived[s])
  BY FS_Interval DEF Parsed
<1>2. IsFiniteSet(Parsed(s))
  BY <1>1, FS_Subset
<1> QED
  BY <1>2, FS_CardinalityType, FS_EmptySet

\* A frame that is a document is counted when it arrives.
LEMMA DocumentArrives ==
  ASSUME IInv, NEW s \in Stream, NEW d \in {"good", "invalid"}, Arrives(s, d)
  PROVE  /\ arrived[s] \in Nat /\ arrived'[s] = arrived[s] + 1
         /\ Parsed(s)' = Parsed(s) \cup {arrived'[s]}
         /\ Cardinality(Parsed(s))' = Cardinality(Parsed(s)) + 1
<1>1. /\ stream[s] = "open" /\ frames' = frames
      /\ arrived'[s] = arrived[s] + 1 /\ d = frames[s][arrived'[s]]
  BY ArrivesStep
<1>2. arrived[s] \in Nat
  BY <1>1, StreamType
<1>3. Parsed(s)' = Parsed(s) \cup {arrived'[s]}
  <2>1. \A i : i \in 1 .. arrived'[s] <=> i \in 1 .. arrived[s] \/ i = arrived'[s]
    BY <1>1, <1>2
  <2> QED
    BY <1>1, <2>1 DEF Parsed
<1>4. arrived'[s] \notin Parsed(s)
  BY <1>1, <1>2 DEF Parsed
<1> QED
  BY <1>1, <1>2, <1>3, <1>4, ParsedCount, FS_AddElement

\* When its first frame has arrived, a PUT has its answer.
LEMMA FirstDecides ==
  ASSUME IInv, NEW s \in Stream, stream[s] # "idle", AtAvailability(s),
         IsPut(request[s]), arrived[s] # 0
  PROVE  /\ head[s] = IF 1 \in Parsed(s) THEN computed[s][1] ELSE BAD_REQUEST
         /\ 1 \in Parsed(s) => Len(computed[s]) > 0
         /\ head[s] # NoHead
<1>1. TypeOK /\ AvailabilityOf(s) /\ arrived[s] \in Nat
  BY DEF IInv, StreamInv, TypeOK
<1>2. head[s] = IF 1 \in Parsed(s) THEN computed[s][1] ELSE BAD_REQUEST
  BY <1>1 DEF AvailabilityOf
<1>3. ASSUME 1 \in Parsed(s) PROVE Len(computed[s]) > 0
  <2>1. Cardinality(Parsed(s)) \in Nat /\ Cardinality(Parsed(s)) # 0
    BY <1>1, <1>3, ParsedCount
  <2>2. Len(computed[s]) = Cardinality(Parsed(s))
    BY <1>1 DEF AvailabilityOf
  <2> QED
    BY <2>1, <2>2
<1>4. ASSUME 1 \in Parsed(s) PROVE computed[s][1] \in Nat
  <2> DEFINE Codes == SelectionCode \cup PutCode
  <2>1. computed[s] \in Seq(Codes)
    BY <1>1 DEF TypeOK
  <2> HIDE DEF Codes
  <2>2. computed[s][1] \in Codes
    BY <1>3, <1>4, <2>1, ElementOfSeq
  <2> QED
    BY <2>2, StatusTypes DEF Codes
<1> QED
  BY <1>2, <1>3, <1>4, StatusTypes, NoHeadAssumption

LEMMA PutHandledStep ==
  ASSUME IInv, NEW s \in Stream, NEW code \in PutCode, PutHandled(s, code)
  PROVE  OnlyOf(s) /\ StreamInv(s)'
<1>1. PICK d \in {"good", "invalid"} : Arrives(s, d)
  BY DEF PutHandled
<1>2. /\ TypeOK /\ StreamInv(s) /\ code \in SelectionCode \cup PutCode
      /\ BAD_REQUEST \in Nat /\ NoHead \notin Nat
  BY StatusTypes, NoHeadAssumption DEF IInv
<1>3. /\ AtAvailability(s) /\ ~AtSelection(s) /\ AnswerComputed(s, code)
      /\ nfId' = request[s].nfId /\ IsPut(request[s])
      /\ handled' = [handled EXCEPT ![s] = Append(@, nfId')]
  BY DEF PutHandled, SetNfId, IsPut, AtSelection, AtAvailability
<1>4. stream[s] = "open" /\ stream'[s] # "idle" /\ request' = request
  BY <1>1, ArrivesStep
<1>5. request[s].nfId \in NfInstance
  <2>1. request[s] \in Request
    BY <1>4, StreamType
  <2> QED
    BY <1>3, <2>1 DEF Request, IsPut
<1>6. /\ OnlyOf(s) /\ computed'[s] = Append(computed[s], code)
      /\ head'[s] = IF head[s] = NoHead THEN code ELSE head[s]
  BY <1>1, <1>2, <1>3, <1>5, ComputedStep
<1>7. /\ arrived'[s] = arrived[s] + 1 /\ arrived[s] \in Nat
      /\ Parsed(s)' = Parsed(s) \cup {arrived'[s]}
      /\ Cardinality(Parsed(s))' = Cardinality(Parsed(s)) + 1
  BY <1>1, DocumentArrives
<1>8. /\ AvailabilityOf(s) /\ Len(handled[s]) = Cardinality(Parsed(s))
      /\ Len(computed[s]) = Len(handled[s])
  BY <1>2, <1>3, <1>4 DEF StreamInv, AvailabilityOf
<1>9. /\ Len(computed'[s]) = Len(computed[s]) + 1
      /\ computed'[s][1] = IF Len(computed[s]) = 0 THEN code ELSE computed[s][1]
  <2> DEFINE Codes == SelectionCode \cup PutCode
  <2>1. computed[s] \in Seq(Codes) /\ code \in Codes
    BY <1>2 DEF TypeOK
  <2> HIDE DEF Codes
  <2> QED
    BY <1>6, <2>1, AppendProperties
<1>10. /\ Len(handled'[s]) = Len(handled[s]) + 1
       /\ \A i \in DOMAIN handled'[s] : handled'[s][i] = request[s].nfId
  <2>1. handled[s] \in Seq(NfInstance)
    BY <1>2 DEF TypeOK
  <2>2. handled'[s] = Append(handled[s], request[s].nfId)
    BY <1>2, <1>3 DEF TypeOK
  <2>3. \A i \in 1 .. Len(handled[s]) : handled[s][i] = request[s].nfId
    BY <1>3, <1>4, <1>8, <2>1 DEF AvailabilityOf
  <2> QED
    BY <1>5, <2>1, <2>2, <2>3, AppendProperties
<1>11. head'[s] = IF 1 \in Parsed(s)' THEN computed'[s][1] ELSE BAD_REQUEST
  <2>1. CASE arrived[s] = 0
    <3>1. Parsed(s) = {} /\ 1 \in Parsed(s)'
      BY <1>7, <2>1 DEF Parsed
    <3>2. Len(computed[s]) = 0 /\ head[s] = NoHead
      BY <1>3, <1>4, <1>7, <1>8, <2>1, <3>1, ParsedCount DEF AvailabilityOf
    <3> QED
      BY <1>6, <1>9, <3>1, <3>2
  <2>2. CASE arrived[s] # 0
    <3>1. 1 \in Parsed(s)' <=> 1 \in Parsed(s)
      BY <1>7, <2>2
    <3>2. /\ head[s] = IF 1 \in Parsed(s) THEN computed[s][1] ELSE BAD_REQUEST
          /\ 1 \in Parsed(s) => Len(computed[s]) > 0
          /\ head[s] # NoHead
      BY <1>3, <1>4, <2>2, FirstDecides
    <3> QED
      BY <1>6, <1>9, <3>1, <3>2
  <2> QED
    BY <2>1, <2>2
<1>12. AvailabilityOf(s)'
  <2>1. arrived'[s] # 0 /\ IsPut(request'[s]) /\ AtAvailability(s)'
    BY <1>3, <1>4, <1>7 DEF AtAvailability
  <2>2. /\ Len(handled'[s]) = Cardinality(Parsed(s))'
        /\ Len(computed'[s]) = Len(handled'[s])
    BY <1>7, <1>8, <1>9, <1>10
  <2> QED
    BY <1>4, <1>10, <1>11, <2>1, <2>2 DEF AvailabilityOf
<1>13. SelectionOf(s)'
  BY <1>3, <1>4 DEF SelectionOf, AtAvailability, AtSelection
<1> QED
  BY <1>1, <1>6, <1>12, <1>13, FramesStep DEF StreamInv

\* A frame that is no document, or the end of the stream.
LEMMA NothingParsed ==
  ASSUME IInv, NEW s \in Stream, NEW d, Arrives(s, d), d \notin {"good", "invalid"}
  PROVE  Parsed(s)' = Parsed(s)
<1>1. stream[s] = "open" /\ frames' = frames
  BY ArrivesStep
<1>2. arrived[s] \in Nat
  BY <1>1, StreamType
<1>3. CASE arrived' = arrived
  BY <1>1, <1>3 DEF Parsed
<1>4. CASE arrived'[s] = arrived[s] + 1 /\ d = frames[s][arrived'[s]]
  <2>1. \A i : i \in 1 .. arrived'[s] <=> i \in 1 .. arrived[s] \/ i = arrived'[s]
    BY <1>2, <1>4
  <2> QED
    BY <1>1, <1>4, <2>1 DEF Parsed
<1> QED
  BY <1>3, <1>4, ArrivesStep

LEMMA BodyUnparsableStep ==
  ASSUME IInv, NEW s \in Stream, BodyUnparsable(s)
  PROVE  OnlyOf(s) /\ StreamInv(s)'
<1>1. /\ Arrives(s, "bad") /\ AtAvailability(s) /\ ~AtSelection(s)
      /\ nfId' = request[s].nfId /\ Answer(s, BAD_REQUEST)
      /\ request[s].method = "PUT" => IsPut(request[s])
      /\ UNCHANGED <<computed, handled>>
  BY DEF BodyUnparsable, SetNfId, AtAvailability, AtSelection, IsPut
<1>2. /\ TypeOK /\ StreamInv(s) /\ BAD_REQUEST \in Nat
  BY StatusTypes DEF IInv
<1>3. /\ stream[s] = "open" /\ stream'[s] # "idle" /\ request' = request
      /\ arrived'[s] = arrived[s] + 1 /\ frames' = frames
      /\ frames[s][arrived'[s]] = "bad"
  BY <1>1, ArrivesStep
<1>4. request[s].nfId \in NfInstance \cup {EmptyNfId} /\ arrived[s] \in Nat
  <2>1. request[s] \in Request
    BY <1>3, StreamType
  <2> QED
    BY <1>3, <2>1, StreamType DEF Request
<1>5. OnlyOf(s)
  BY <1>1, <1>2, <1>4, AnswersOnly
<1>6. head'[s] = IF head[s] = NoHead THEN BAD_REQUEST ELSE head[s]
  BY <1>1, <1>2, AnswerType
<1>7. Parsed(s)' = Parsed(s)
  BY <1>1, NothingParsed
<1>8. AvailabilityOf(s)
  BY <1>2 DEF StreamInv
<1>9. AvailabilityOf(s)'
  <2>1. CASE IsPut(request[s])
    <3>1. CASE arrived[s] = 0
      <4>1. Parsed(s) = {} /\ head[s] = NoHead /\ arrived'[s] # 0
        BY <1>1, <1>3, <1>8, <2>1, <3>1 DEF Parsed, AvailabilityOf
      <4> QED
        BY <1>1, <1>3, <1>6, <1>7, <1>8, <2>1, <4>1
        DEF AvailabilityOf, AtAvailability
    <3>2. CASE arrived[s] # 0
      <4>1. /\ head[s] = IF 1 \in Parsed(s) THEN computed[s][1] ELSE BAD_REQUEST
            /\ head[s] # NoHead /\ arrived'[s] # 0
        BY <1>1, <1>3, <1>4, <2>1, <3>2, FirstDecides
      <4> QED
        BY <1>1, <1>3, <1>6, <1>7, <1>8, <2>1, <4>1
        DEF AvailabilityOf, AtAvailability
    <3> QED
      BY <3>1, <3>2
  <2>2. CASE ~IsPut(request[s])
    BY <1>1, <1>3, <1>6, <1>7, <1>8, <2>2 DEF AvailabilityOf, AtAvailability
  <2> QED
    BY <2>1, <2>2
<1>10. SelectionOf(s)'
  BY <1>1, <1>3 DEF SelectionOf, AtAvailability, AtSelection
<1> QED
  BY <1>1, <1>5, <1>9, <1>10, FramesStep DEF StreamInv

LEMMA AvailabilityIgnoredStep ==
  ASSUME IInv, NEW s \in Stream, AvailabilityIgnored(s)
  PROVE  OnlyOf(s) /\ StreamInv(s)'
<1>1. PICK d : Arrives(s, d) /\ (IsPut(request[s]) => d = "none")
  BY DEF AvailabilityIgnored, IsPut
<1>2. /\ AtAvailability(s) /\ ~AtSelection(s)
      /\ nfId' = request[s].nfId
      /\ UNCHANGED <<head, computed, handled>>
  BY DEF AvailabilityIgnored, SetNfId, AtAvailability, AtSelection
<1>3. /\ stream[s] = "open" /\ stream'[s] # "idle" /\ request' = request
      /\ d = "none" => arrived' = arrived
  BY <1>1, ArrivesStep
<1>4. request[s].nfId \in NfInstance \cup {EmptyNfId}
  <2>1. request[s] \in Request
    BY <1>3, StreamType
  <2> QED
    BY <2>1 DEF Request
<1>5. OnlyOf(s)
  BY <1>1, <1>2, <1>4, AnswersOnly
<1>6. AvailabilityOf(s)
  BY DEF IInv, StreamInv
<1>7. AvailabilityOf(s)'
  <2>1. CASE IsPut(request[s])
    <3>1. Parsed(s)' = Parsed(s)
      BY <1>1, <2>1, NothingParsed
    <3> QED
      BY <1>1, <1>2, <1>3, <1>6, <2>1, <3>1 DEF AvailabilityOf, AtAvailability
  <2>2. CASE ~IsPut(request[s])
    BY <1>2, <1>3, <1>6, <2>2 DEF AvailabilityOf, AtAvailability
  <2> QED
    BY <2>1, <2>2
<1>8. SelectionOf(s)'
  BY <1>2, <1>3 DEF SelectionOf, AtAvailability, AtSelection
<1> QED
  BY <1>1, <1>5, <1>7, <1>8, FramesStep DEF StreamInv

LEMMA CallbackStep ==
  ASSUME IInv, NEW s \in Stream, Callback(s)
  PROVE  OnlyOf(s) /\ StreamInv(s)'
<1>1. CASE \E code \in SelectionCode : SelectionHandled(s, code)
  BY <1>1, SelectionHandledStep
<1>2. CASE \E code \in PutCode : PutHandled(s, code)
  BY <1>2, PutHandledStep
<1>3. CASE BodyUnparsable(s)
  BY <1>3, BodyUnparsableStep
<1>4. CASE AvailabilityIgnored(s)
  BY <1>4, AvailabilityIgnoredStep
<1>5. CASE ~ (\/ \E code \in SelectionCode : SelectionHandled(s, code)
              \/ \E code \in PutCode : PutHandled(s, code)
              \/ BodyUnparsable(s) \/ AvailabilityIgnored(s))
  BY <1>5, ElsewhereSteps DEF Callback
<1> QED
  BY <1>1, <1>2, <1>3, <1>4, <1>5

-----------------------------------------------------------------------------
(* Streams open and close *)

LEMMA HeadersStep ==
  ASSUME IInv, NEW s \in Stream, NEW r \in Requests,
         NEW f \in Framings(r.body), Headers(s, r, f)
  PROVE  OnlyOf(s) /\ StreamInv(s)'
<1>1. TypeOK /\ IdleOf(s)
  BY DEF IInv, StreamInv
<1>2. r \in Request /\ f \in Seq(Data) /\ Len(f) \in Nat
  <2>1. r \in Request
    BY RequestsAssumption
  <2>2. r.body \in Body
    BY <2>1 DEF Request
  <2> QED
    BY <2>1, <2>2, FramingsType
<1>3. /\ stream[s] = "idle"
      /\ stream'  = [stream EXCEPT ![s] = "open"]
      /\ request' = [request EXCEPT ![s] = r]
      /\ frames'  = [frames EXCEPT ![s] = f]
      /\ UNCHANGED <<arrived, head, computed, handled, nfId>>
  BY DEF Headers
<1>4. /\ frames[s] = <<>> /\ arrived[s] = 0
      /\ head[s] = NoHead /\ computed[s] = <<>> /\ handled[s] = <<>>
  BY <1>1, <1>3 DEF IdleOf
<1>5. /\ stream'[s] = "open" /\ request'[s] = r /\ frames'[s] = f
      /\ arrived'[s] = 0 /\ head'[s] = NoHead
      /\ computed'[s] = <<>> /\ handled'[s] = <<>>
  BY <1>1, <1>3, <1>4 DEF TypeOK
<1>6. \A u \in Stream \ {s} : Untouched(u)
  BY <1>1, <1>3 DEF TypeOK, Untouched
<1>7. TypeOK'
  <2>1. \A u \in Stream : arrived'[u] <= Len(frames'[u])
    <3> TAKE u \in Stream
    <3>1. CASE u = s
      <4>1. arrived'[u] = 0 /\ frames'[u] = f /\ Len(f) \in Nat
        BY <1>2, <1>5, <3>1
      <4> QED
        BY <4>1
    <3>2. CASE u # s
      <4>1. arrived'[u] = arrived[u] /\ frames'[u] = frames[u]
        BY <1>6, <3>2 DEF Untouched
      <4>2. arrived[u] <= Len(frames[u])
        BY <1>1 DEF TypeOK
      <4> QED
        BY <4>1, <4>2
    <3> QED
      BY <3>1, <3>2
  <2> QED
    BY <1>1, <1>2, <1>3, <2>1 DEF TypeOK
<1>8. Parsed(s)' = {} /\ Cardinality(Parsed(s))' = 0
  BY <1>5, FS_EmptySet DEF Parsed
<1>9. StreamInv(s)'
  <2>1. IdleOf(s)' /\ FramesOf(s)' /\ SelectionOf(s)'
    BY <1>5 DEF IdleOf, FramesOf, SelectionOf
  <2>2. AvailabilityOf(s)'
    BY <1>5, <1>8 DEF AvailabilityOf
  <2> QED
    BY <2>1, <2>2 DEF StreamInv
<1> QED
  BY <1>6, <1>7, <1>9 DEF OnlyOf

LEMMA CloseStep ==
  ASSUME IInv, NEW s \in Stream, Close(s)
  PROVE  OnlyOf(s) /\ StreamInv(s)'
<1>1. TypeOK
  BY DEF IInv
<1>2. /\ stream'  = [stream EXCEPT ![s] = "idle"]
      /\ request' = [request EXCEPT ![s] = NoRequest]
      /\ head'    = [head EXCEPT ![s] = NoHead]
      /\ frames'  = [frames EXCEPT ![s] = <<>>]
      /\ arrived' = [arrived EXCEPT ![s] = 0]
      /\ computed' = [computed EXCEPT ![s] = <<>>]
      /\ handled' = [handled EXCEPT ![s] = <<>>]
      /\ UNCHANGED nfId
  BY DEF Close
<1>3. /\ stream'[s] = "idle" /\ frames'[s] = <<>> /\ arrived'[s] = 0
      /\ head'[s] = NoHead /\ computed'[s] = <<>> /\ handled'[s] = <<>>
  BY <1>1, <1>2 DEF TypeOK
<1>4. \A u \in Stream \ {s} : Untouched(u)
  BY <1>1, <1>2 DEF TypeOK, Untouched
<1>5. TypeOK'
  <2>1. \A u \in Stream : arrived'[u] <= Len(frames'[u])
    <3> TAKE u \in Stream
    <3>1. CASE u = s
      <4>1. arrived'[u] = 0 /\ frames'[u] = <<>> /\ Len(<<>>) \in Nat
        BY <1>3, <3>1
      <4> QED
        BY <4>1
    <3>2. CASE u # s
      <4>1. arrived'[u] = arrived[u] /\ frames'[u] = frames[u]
        BY <1>4, <3>2 DEF Untouched
      <4>2. arrived[u] <= Len(frames[u])
        BY <1>1 DEF TypeOK
      <4> QED
        BY <4>1, <4>2
    <3> QED
      BY <3>1, <3>2
  <2>2. computed' \in [Stream -> Seq(SelectionCode \cup PutCode)]
    <3> DEFINE Codes == SelectionCode \cup PutCode
    <3>1. computed \in [Stream -> Seq(Codes)]
      BY <1>1 DEF TypeOK
    <3> HIDE DEF Codes
    <3>2. computed' \in [Stream -> Seq(Codes)]
      BY <1>2, <3>1
    <3> QED
      BY <3>2 DEF Codes
  <2> QED
    BY <1>1, <1>2, <2>1, <2>2 DEF TypeOK
<1>6. StreamInv(s)'
  BY <1>3 DEF StreamInv, IdleOf, FramesOf, AvailabilityOf, SelectionOf
<1> QED
  BY <1>4, <1>5, <1>6 DEF OnlyOf

-----------------------------------------------------------------------------
(* The invariant *)

\* What is said of a stream says nothing of nfId, nor of other streams.
LEMMA UntouchedKeeps ==
  ASSUME NEW u \in Stream, StreamInv(u), Untouched(u)
  PROVE  StreamInv(u)'
<1>1. Parsed(u)' = Parsed(u)
  BY DEF Parsed, Untouched
<1> QED
  BY <1>1 DEF StreamInv, Untouched, IdleOf, FramesOf, AvailabilityOf, SelectionOf,
              AtAvailability, AtSelection

LEMMA InitIInv == Init => IInv
<1> SUFFICES ASSUME Init PROVE IInv
  OBVIOUS
<1>1. TypeOK
  <2> DEFINE Codes == SelectionCode \cup PutCode
  <2>1. computed \in [Stream -> Seq(Codes)]
    <3> HIDE DEF Codes
    <3> QED
      BY DEF Init
  <2>2. /\ stream \in [Stream -> {"idle", "open", "ended"}]
        /\ request \in [Stream -> Request \cup {NoRequest}]
        /\ frames \in [Stream -> Seq(Data)]
        /\ head \in [Stream -> Nat \cup {NoHead}]
        /\ handled \in [Stream -> Seq(NfInstance)]
        /\ nfId \in NfInstance \cup {EmptyNfId}
    BY DEF Init
  <2>3. arrived \in [Stream -> Nat] /\ \A s \in Stream : arrived[s] <= Len(frames[s])
    BY DEF Init
  <2> QED
    BY <2>1, <2>2, <2>3 DEF TypeOK
<1>2. ASSUME NEW s \in Stream PROVE StreamInv(s)
  BY DEF Init, StreamInv, IdleOf, FramesOf, AvailabilityOf, SelectionOf
<1> QED
  BY <1>1, <1>2 DEF IInv

LEMMA NextIInv == IInv /\ [Next]_http2_vars => IInv'
<1> SUFFICES ASSUME IInv, [Next]_http2_vars PROVE IInv'
  OBVIOUS
<1>1. ASSUME NEW s \in Stream, OnlyOf(s), StreamInv(s)'
      PROVE  IInv'
  <2>1. ASSUME NEW u \in Stream PROVE StreamInv(u)'
    <3>1. CASE u = s
      BY <1>1, <3>1
    <3>2. CASE u # s
      BY <1>1, <3>2, UntouchedKeeps DEF OnlyOf, IInv
    <3> QED
      BY <3>1, <3>2
  <2> QED
    BY <1>1, <2>1 DEF OnlyOf, IInv
<1>2. CASE Next
  <2>1. PICK s \in Stream :
          \/ \E r \in Requests : \E f \in Framings(r.body) : Headers(s, r, f)
          \/ Callback(s)
          \/ Close(s)
    BY <1>2 DEF Next
  <2>2. OnlyOf(s) /\ StreamInv(s)'
    BY <2>1, HeadersStep, CallbackStep, CloseStep
  <2> QED
    BY <1>1, <2>2
<1>3. CASE UNCHANGED http2_vars
  <2>1. TypeOK'
    BY <1>3 DEF IInv, TypeOK, http2_vars
  <2>2. ASSUME NEW u \in Stream PROVE StreamInv(u)'
    BY <1>3, UntouchedKeeps DEF IInv, Untouched, http2_vars
  <2> QED
    BY <2>1, <2>2 DEF IInv
<1> QED
  BY <1>2, <1>3

THEOREM IInvIsInvariant == Spec => []IInv
  BY InitIInv, NextIInv, PTL DEF Spec

\* The variables keep their types.
THEOREM TypeCorrect == Spec => []TypeOK
  BY IInvIsInvariant, PTL DEF IInv

(***************************************************************************)
(* A PUT is handled for the NF of its own path, although the callbacks of  *)
(* all streams set and read the one nfId of start().                       *)
(***************************************************************************)
THEOREM PutHandledForItsNf == Spec => []HandledForOwnNf
<1>1. IInv => HandledForOwnNf
  <2> SUFFICES ASSUME IInv, NEW s \in Stream, NEW i \in DOMAIN handled[s]
               PROVE  handled[s][i] = request[s].nfId
    BY DEF HandledForOwnNf
  <2>1. StreamInv(s)
    BY DEF IInv
  <2> QED
    BY <2>1 DEF StreamInv, IdleOf, AvailabilityOf, SelectionOf
<1> QED
  BY <1>1, IInvIsInvariant, PTL

(***************************************************************************)
(* The application is called once for every frame of a PUT that is a       *)
(* document by itself, and for nothing else: a document that is cut is     *)
(* never handled, and two that come in frames of their own both are.       *)
(***************************************************************************)
THEOREM OneCallPerDocument == Spec => []HandledPerDocument
<1>1. IInv => HandledPerDocument
  <2> SUFFICES ASSUME IInv, NEW s \in Stream
               PROVE  Len(handled[s]) =
                        IF stream[s] # "idle" /\ PutsAvailability(request[s])
                          THEN Cardinality(Parsed(s)) ELSE 0
    BY DEF HandledPerDocument
  <2>1. TypeOK /\ StreamInv(s) /\ Len(<<>>) = 0
    BY DEF IInv
  <2>2. CASE stream[s] = "idle" \/ ~AtAvailability(s)
    BY <2>1, <2>2
    DEF StreamInv, IdleOf, SelectionOf, AtAvailability, PutsAvailability
  <2>3. CASE stream[s] # "idle" /\ AtAvailability(s)
    <3>1. Len(handled[s]) = IF IsPut(request[s]) THEN Cardinality(Parsed(s)) ELSE 0
      BY <2>1, <2>3 DEF StreamInv, AvailabilityOf
    <3>2. CASE request[s].body # "none"
      BY <2>3, <3>1, <3>2 DEF IsPut, AtAvailability, PutsAvailability
    <3>3. CASE request[s].body = "none"
      <4>1. frames[s] = <<>>
        BY <2>1, <2>3, <3>3 DEF StreamInv, FramesOf, Framings
      <4>2. arrived[s] = 0
        BY <2>1, <4>1 DEF TypeOK
      <4>3. Cardinality(Parsed(s)) = 0
        BY <4>2, FS_EmptySet DEF Parsed
      <4> QED
        BY <3>1, <3>3, <4>3 DEF PutsAvailability
    <3> QED
      BY <3>2, <3>3
  <2> QED
    BY <2>2, <2>3
<1> QED
  BY <1>1, IInvIsInvariant, PTL

(***************************************************************************)
(* What other streams do and what frames come later does not change the    *)
(* answer: it is the status that was computed for the stream, or 400.      *)
(***************************************************************************)
THEOREM AnswerIsComputed == Spec => []StatusIsComputed
<1>1. IInv => StatusIsComputed
  <2> SUFFICES ASSUME IInv, NEW s \in Stream, stream[s] # "idle", head[s] # NoHead
               PROVE  /\ AtSelection(s) /\ Accepts(request[s])
                           /\ ~Unparsable(request[s])
                         => head[s] = computed[s][1]
                      /\ AtAvailability(s) =>
                           head[s] = IF /\ request[s].method = "PUT"
                                        /\ frames[s][1] \in {"good", "invalid"}
                                     THEN computed[s][1] ELSE BAD_REQUEST
    BY DEF StatusIsComputed
  <2>1. StreamInv(s) /\ TypeOK /\ arrived[s] \in Nat
    BY DEF IInv, TypeOK
  <2>2. AtSelection(s) /\ Accepts(request[s]) /\ ~Unparsable(request[s])
          => head[s] = computed[s][1]
    BY <2>1 DEF StreamInv, SelectionOf
  <2>3. ASSUME AtAvailability(s)
        PROVE  head[s] = IF /\ request[s].method = "PUT"
                            /\ frames[s][1] \in {"good", "invalid"}
                         THEN computed[s][1] ELSE BAD_REQUEST
    <3>1. AvailabilityOf(s)
      BY <2>1 DEF StreamInv
    <3>2. CASE IsPut(request[s])
      <4>1. /\ arrived[s] # 0
            /\ head[s] = IF 1 \in Parsed(s) THEN computed[s][1] ELSE BAD_REQUEST
        BY <2>3, <3>1, <3>2 DEF AvailabilityOf
      <4>2. 1 \in Parsed(s) <=> frames[s][1] \in {"good", "invalid"}
        BY <2>1, <4>1 DEF Parsed
      <4> QED
        BY <3>2, <4>1, <4>2 DEF IsPut
    <3>3. CASE ~IsPut(request[s])
      BY <2>3, <3>1, <3>3 DEF AvailabilityOf
    <3> QED
      BY <3>2, <3>3
  <2> QED
    BY <2>2, <2>3
<1> QED
  BY <1>1, IInvIsInvariant, PTL

-----------------------------------------------------------------------------
(* Which streams are answered *)

Called(s) == arrived[s] > 0 \/ stream[s] = "ended"

BadArrived(s) == \E i \in 1 .. arrived[s] : frames[s][i] = "bad"

IsPatch(r) == r.method = "PATCH" /\ r.nfId # EmptyNfId

\* What a stream's answer takes: a callback that decides, and what it reads.
Decided(s) ==
  \/ /\ AtSelection(s) /\ Called(s)
     /\ Unparsable(request[s]) \/ HandlesSelection(request[s])
  \/ request[s].resource = "/" /\ request[s].method = "GET" /\ Called(s)
  \/ AtAvailability(s) /\ IsPut(request[s]) /\ arrived[s] > 0
  \/ AtAvailability(s) /\ IsPatch(request[s]) /\ BadArrived(s)

AnswerOf(s) == stream[s] # "idle" => (head[s] # NoHead <=> Decided(s))

EndedOf(s) == stream[s] = "ended" => arrived[s] = Len(frames[s])

AnswerInv == \A s \in Stream : AnswerOf(s) /\ EndedOf(s)

LEMMA CalledStep ==
  ASSUME IInv, NEW s \in Stream, NEW d, Arrives(s, d)
  PROVE  /\ stream[s] = "open" /\ stream'[s] # "idle"
         /\ request' = request /\ frames' = frames
         /\ Called(s)' /\ EndedOf(s)'
         /\ arrived'[s] > 0 <=> arrived[s] > 0 \/ d # "none"
         /\ BadArrived(s)' <=> BadArrived(s) \/ d = "bad"
<1>1. /\ stream[s] = "open" /\ stream'[s] # "idle"
      /\ request' = request /\ frames' = frames
  BY ArrivesStep
<1>2. TypeOK /\ arrived[s] \in Nat /\ Len(frames[s]) \in Nat
  BY <1>1, StreamType
<1>3. CASE /\ arrived'[s] = arrived[s] + 1 /\ arrived'[s] \in 1 .. Len(frames[s])
           /\ d = frames[s][arrived'[s]] /\ d # "none"
  <2>1. Called(s)' /\ arrived'[s] > 0
    BY <1>2, <1>3 DEF Called
  <2>2. BadArrived(s)' <=> BadArrived(s) \/ d = "bad"
    <3>1. \A i : i \in 1 .. arrived'[s] <=> i \in 1 .. arrived[s] \/ i = arrived'[s]
      BY <1>2, <1>3
    <3> QED
      BY <1>1, <1>3, <3>1 DEF BadArrived
  <2>3. EndedOf(s)'
    <3>1. stream' = stream
      BY <1>2, <1>3 DEF Arrives
    <3> QED
      BY <1>1, <3>1 DEF EndedOf
  <2> QED
    BY <1>1, <1>3, <2>1, <2>2, <2>3
<1>4. CASE d = "none" /\ arrived' = arrived
  <2>1. ~(arrived[s] < Len(frames[s]))
    BY <1>2, <1>4 DEF Arrives, TypeOK
  <2>2. stream'[s] = "ended" /\ arrived[s] = Len(frames[s])
    BY <1>2, <2>1 DEF Arrives, TypeOK
  <2> QED
    BY <1>1, <1>4, <2>2 DEF Called, EndedOf, BadArrived
<1> QED
  BY <1>3, <1>4, ArrivesStep

\* The callback answers.
LEMMA AnswersStep ==
  ASSUME IInv, NEW s \in Stream, NEW d, Arrives(s, d),
         NEW code \in Nat, Answer(s, code), Decided(s)'
  PROVE  AnswerOf(s)' /\ EndedOf(s)'
<1>1. head'[s] # NoHead
  BY AnswerType, NoHeadAssumption DEF IInv
<1> QED
  BY <1>1, CalledStep DEF AnswerOf

\* The callback does not, and gives no other one a reason to.
LEMMA IgnoresStep ==
  ASSUME IInv, NEW s \in Stream, NEW d, Arrives(s, d), AnswerOf(s),
         head' = head, Decided(s)' <=> Decided(s)
  PROVE  AnswerOf(s)' /\ EndedOf(s)'
  BY CalledStep DEF AnswerOf

LEMMA CallbackAnswers ==
  ASSUME IInv, NEW s \in Stream, AnswerOf(s), Callback(s)
  PROVE  AnswerOf(s)' /\ EndedOf(s)'
<1>1. CASE \E code \in SelectionCode : SelectionHandled(s, code)
  <2>1. PICK code \in SelectionCode : SelectionHandled(s, code)
    BY <1>1
  <2>2. PICK d : Arrives(s, d)
    BY <2>1 DEF SelectionHandled
  <2>3. code \in Nat /\ Answer(s, code)
    BY <2>1, StatusTypes DEF SelectionHandled, AnswerComputed
  <2>4. Decided(s)'
    BY <2>1, <2>2, CalledStep DEF SelectionHandled, AtSelection, Decided
  <2> QED
    BY <2>2, <2>3, <2>4, AnswersStep
<1>2. CASE SelectionRefused(s) \/ SelectionUnparsable(s)
  <2>1. PICK d : Arrives(s, d)
    BY <1>2 DEF SelectionRefused, SelectionUnparsable
  <2>2. BAD_REQUEST \in Nat /\ Answer(s, BAD_REQUEST)
    BY <1>2, StatusTypes DEF SelectionRefused, SelectionUnparsable
  <2>3. Decided(s)'
    BY <1>2, <2>1, CalledStep
    DEF SelectionRefused, SelectionUnparsable, AtSelection, Decided
  <2> QED
    BY <2>1, <2>2, <2>3, AnswersStep
<1>3. CASE get_api_list(s)
  <2>1. PICK d : Arrives(s, d)
    BY <1>3 DEF get_api_list
  <2>2. OK \in Nat /\ Answer(s, OK)
    BY <1>3, StatusTypes DEF get_api_list
  <2>3. Decided(s)'
    BY <1>3, <2>1, CalledStep DEF get_api_list, Decided
  <2> QED
    BY <2>1, <2>2, <2>3, AnswersStep
<1>4. CASE \E code \in PutCode : PutHandled(s, code)
  <2>1. PICK code \in PutCode : PutHandled(s, code)
    BY <1>4
  <2>2. PICK d \in {"good", "invalid"} : Arrives(s, d)
    BY <2>1 DEF PutHandled
  <2>3. code \in Nat /\ Answer(s, code)
    BY <2>1, StatusTypes DEF PutHandled, AnswerComputed
  <2>4. Decided(s)'
    BY <2>1, <2>2, CalledStep DEF PutHandled, SetNfId, AtAvailability, IsPut, Decided
  <2> QED
    BY <2>2, <2>3, <2>4, AnswersStep
<1>5. CASE BodyUnparsable(s)
  <2>1. Arrives(s, "bad") /\ BAD_REQUEST \in Nat /\ Answer(s, BAD_REQUEST)
    BY <1>5, StatusTypes DEF BodyUnparsable
  <2>2. Decided(s)'
    BY <1>5, <2>1, CalledStep
    DEF BodyUnparsable, SetNfId, AtAvailability, IsPut, IsPatch, Decided
  <2> QED
    BY <2>1, <2>2, AnswersStep
<1>6. CASE AvailabilityIgnored(s)
  <2>1. PICK d : /\ Arrives(s, d)
                 /\ \/ d = "none"
                    \/ request[s].nfId = EmptyNfId
                    \/ request[s].method = "PATCH" /\ d # "bad"
                    \/ request[s].method \notin {"PUT", "PATCH"}
    BY <1>6 DEF AvailabilityIgnored
  <2>2. head' = head /\ AtAvailability(s)
    BY <1>6 DEF AvailabilityIgnored
  <2>3. Decided(s)' <=> Decided(s)
    BY <2>1, <2>2, CalledStep DEF AtAvailability, AtSelection, IsPut, IsPatch, Decided
  <2> QED
    BY <2>1, <2>2, <2>3, IgnoresStep
<1>7. CASE \/ get_slice_info_default_handler(s) \/ SelectionMethodIgnored(s)
           \/ SubscriptionsIgnored(s) \/ get_slice_config(s)
           \/ CustomMethodIgnored(s)
  <2>1. PICK d : Arrives(s, d)
    BY <1>7 DEF get_slice_info_default_handler, SelectionMethodIgnored,
                SubscriptionsIgnored, get_slice_config, CustomMethodIgnored
  <2>2. head' = head
    BY <1>7 DEF get_slice_info_default_handler, SelectionMethodIgnored,
                SubscriptionsIgnored, get_slice_config, CustomMethodIgnored
  <2>3. ~Decided(s)' /\ ~Decided(s)
    BY <1>7, <2>1, CalledStep
    DEF get_slice_info_default_handler, SelectionMethodIgnored,
        SubscriptionsIgnored, get_slice_config, CustomMethodIgnored,
        AtSelection, AtAvailability, Decided
  <2> QED
    BY <2>1, <2>2, <2>3, IgnoresStep
<1> QED
  BY <1>1, <1>2, <1>3, <1>4, <1>5, <1>6, <1>7 DEF Callback

\* A stream that opens is not answered yet, and one that closes is forgotten.
LEMMA OpensUndecided ==
  ASSUME IInv, NEW s \in Stream,
         \/ \E r \in Requests : \E f \in Framings(r.body) : Headers(s, r, f)
         \/ Close(s)
  PROVE  AnswerOf(s)' /\ EndedOf(s)'
<1>1. TypeOK /\ IdleOf(s)
  BY DEF IInv, StreamInv
<1>2. CASE Close(s)
  <2>1. stream'[s] = "idle"
    BY <1>1, <1>2 DEF Close, TypeOK
  <2> QED
    BY <2>1 DEF AnswerOf, EndedOf
<1>3. CASE \E r \in Requests : \E f \in Framings(r.body) : Headers(s, r, f)
  <2>1. stream'[s] = "open" /\ head'[s] = NoHead /\ arrived'[s] = 0
    BY <1>1, <1>3 DEF Headers, TypeOK, IdleOf
  <2>2. ~Called(s)' /\ ~BadArrived(s)' /\ ~(arrived'[s] > 0)
    BY <2>1 DEF Called, BadArrived
  <2> QED
    BY <2>1, <2>2 DEF AnswerOf, EndedOf, Decided
<1> QED
  BY <1>2, <1>3

LEMMA NextAnswerInv == IInv /\ AnswerInv /\ [Next]_http2_vars => AnswerInv'
<1> SUFFICES ASSUME IInv, AnswerInv, [Next]_http2_vars, NEW u \in Stream
             PROVE  AnswerOf(u)' /\ EndedOf(u)'
  BY DEF AnswerInv
<1>1. AnswerOf(u) /\ EndedOf(u)
  BY DEF AnswerInv
<1>2. ASSUME Untouched(u) PROVE AnswerOf(u)' /\ EndedOf(u)'
  BY <1>1, <1>2
  DEF Untouched, AnswerOf, EndedOf, Decided, Called, BadArrived, AtSelection,
      AtAvailability
<1>3. CASE Next
  <2>1. PICK s \in Stream :
          \/ \E r \in Requests : \E f \in Framings(r.body) : Headers(s, r, f)
          \/ Callback(s)
          \/ Close(s)
    BY <1>3 DEF Next
  <2>2. OnlyOf(s)
    BY <2>1, HeadersStep, CallbackStep, CloseStep
  <2>3. CASE u = s
    BY <1>1, <2>1, <2>3, CallbackAnswers, OpensUndecided
  <2> QED
    BY <1>2, <2>2, <2>3 DEF OnlyOf
<1>4. CASE UNCHANGED http2_vars
  BY <1>2, <1>4 DEF Untouched, http2_vars
<1> QED
  BY <1>3, <1>4

LEMMA AnswerInvIsInvariant == Spec => []AnswerInv
<1>1. Init => AnswerInv
  BY DEF Init, AnswerInv, AnswerOf, EndedOf
<1> QED
  BY <1>1, NextAnswerInv, IInvIsInvariant, PTL DEF Spec

(***************************************************************************)
(* A client that has ended a stream waits for nothing, or for ever: the    *)
(* safety part of RequestsAnswered, for every request and framing.         *)
(***************************************************************************)
THEOREM AnsweredOrNever == Spec => []AnsweredAtEnd
<1>1. IInv /\ AnswerInv => AnsweredAtEnd
  <2> SUFFICES ASSUME IInv, AnswerInv, NEW s \in Stream, stream[s] = "ended"
               PROVE  head[s] # NoHead <=> Answerable(request[s], frames[s])
    BY DEF AnsweredAtEnd
  <2>1. /\ TypeOK /\ FramesOf(s) /\ AnswerOf(s) /\ arrived[s] = Len(frames[s])
    BY DEF IInv, StreamInv, AnswerInv, EndedOf
  <2>2. request[s] \in Request /\ frames[s] \in Framings(request[s].body)
    BY <2>1, RequestsAssumption DEF FramesOf
  <2>3. /\ request[s].reg \in Parameter /\ request[s].pdu \in Parameter
        /\ request[s].home \in Parameter /\ request[s].tai \in Parameter
    BY <2>2 DEF Request
  <2>4. arrived[s] > 0 <=> request[s].body # "none"
    <3>1. request[s].body \in Body
      BY <2>2 DEF Request
    <3> QED
      BY <2>1, <2>2, <3>1, FramingsType
  <2>5. Unparsable(request[s]) \/ HandlesSelection(request[s])
          <=> \/ request[s].reg # "none" \/ request[s].pdu # "none"
              \/ "bad" \in {request[s].home, request[s].tai}
    BY <2>3 DEF Unparsable, HandlesSelection, Parameter
  <2>6. Called(s)
    BY DEF Called
  <2> QED
    BY <2>1, <2>4, <2>5, <2>6
    DEF AnswerOf, Decided, Answerable, AsksSelection, PutsAvailability,
        AtSelection, AtAvailability, IsPut, IsPatch, BadArrived
<1> QED
  BY <1>1, IInvIsInvariant, AnswerInvIsInvariant, PTL

\* The parameter of a UE configuration update, and none that decides.
AsksUeCuAlone(r) ==
  /\ r.resource = "network-slice-information" /\ r.method = "GET"
  /\ r.ue_cu = "good" /\ r.reg = "none" /\ r.pdu = "none"
  /\ "bad" \notin {r.home, r.tai}

(***************************************************************************)
(* What refutes UeCuAnswered: a client that asks for a UE configuration    *)
(* update alone is never answered, in whatever company its stream is.      *)
(***************************************************************************)
THEOREM UeCuNeverAnswered ==
  Spec => [](\A s \in Stream :
               stream[s] # "idle" /\ AsksUeCuAlone(request[s]) => head[s] = NoHead)
<1>1. AnswerInv =>
        \A s \in Stream :
          stream[s] # "idle" /\ AsksUeCuAlone(request[s]) => head[s] = NoHead
  BY DEF AnswerInv, AnswerOf, Decided, AsksUeCuAlone, AtSelection, AtAvailability,
         Unparsable, HandlesSelection
<1> QED
  BY <1>1, AnswerInvIsInvariant, PTL
=============================================================================

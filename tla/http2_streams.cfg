SPECIFICATION FairSpec
CONSTANTS
  NfInstance = {amf1, amf2}
  EmptyNfId = EmptyNfId
  Requests <- MCRequests
  Stream = {s1, s2}
  NoRequest = NoRequest
  NoHead = NoHead
  MaxFrames = 2
  amf1 = amf1
  amf2 = amf2
INVARIANTS
  TypeOK
  StatusIsComputed
  HandledForOwnNf
  HandledPerDocument
  AnsweredAtEnd
PROPERTIES
  RequestsAnswered

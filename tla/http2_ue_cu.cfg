SPECIFICATION FairSpec
CONSTANTS
  NfInstance = {amf1, amf2}
  EmptyNfId = EmptyNfId
  Requests <- MCRequests
  Stream = {s1}
  NoRequest = NoRequest
  NoHead = NoHead
  MaxFrames = 3
  amf1 = amf1
  amf2 = amf2
PROPERTIES
  UeCuAnswered

SPECIFICATION FrontFairSpec
CONSTANTS
  NfInstance = {amf1}
  EmptyNfId = EmptyNfId
  Requests <- MCRequests
  Thread = {t1}
  NoRequest = NoRequest
  NoHead = NoHead
  MaxFrames = 3
  amf1 = amf1
INVARIANTS
  TypeOK
  OneResponse
  HandledIsParsed
  AgreeWhereSupported
PROPERTIES
  RequestsAnswered

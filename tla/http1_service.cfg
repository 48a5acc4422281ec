SPECIFICATION Http1ServiceFairSpec
CONSTANTS
  Sst <- MCSst
  Sd = {a}
  NoSd = NoSd
  SST_MAX_STANDARDIZED_VALUE = 127
  Tai = {tai1}
  NoTai = NoTai
  NfId = {amf1, amf2, amf3}
  AmfSetId = {set1, set2, set3}
  NsiInfo = {nsi1}
  NoNsi = NoNsi
  Absent = Absent
  NotSet = NotSet
  Worker = {w1, w2}
  Configs <- MCConfigs
  Queries <- MCQueries
  Puts <- MCPuts
  EmptyId = EmptyId
  Requests <- MCRequests
  EmptyNfId = EmptyNfId
  NoRequest = NoRequest
  NoPut = NoPut
  NoAmfInfo = NoAmfInfo
  http_version = 1
  NoAmfSet = NoAmfSet
  NoQuery = NoQuery
  Pending = Pending
  a = a
  amf1 = amf1
  amf2 = amf2
  amf3 = amf3
  set1 = set1
  set2 = set2
  set3 = set3
  nsi1 = nsi1
  tai1 = tai1
INVARIANTS
  SentIsDecided
  PutTypeOK
  PutStatusExplained
  OneEntryPerAmf
PROPERTIES
  ServiceImplementsAuthorization
  ImplementsHttp1
  HandlersAdvance

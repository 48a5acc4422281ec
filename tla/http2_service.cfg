SPECIFICATION Http2ServiceFairSpec
CONSTANTS
  Sst <- MCSst
  Sd = {a}
  NoSd = NoSd
  SST_MAX_STANDARDIZED_VALUE = 127
  Tai = {tai1}
  NoTai = NoTai
  NfId = {amf1, amf2}
  AmfSetId = {set1, set2}
  NsiInfo = {nsi1}
  NoNsi = NoNsi
  Absent = Absent
  NotSet = NotSet
  Worker = {io1}
  Configs <- MCConfigs
  Queries <- MCQueries
  Puts <- MCPuts
  EmptyId = EmptyId
  NoPut = NoPut
  NoAmfInfo = NoAmfInfo
  http_version = 2
  NoAmfSet = NoAmfSet
  NoQuery = NoQuery
  Pending = Pending
  Stream = {s1, s2}
  Requests <- MCRequests
  EmptyNfId = EmptyNfId
  NoRequest = NoRequest
  NoHead = NoHead
  MaxFrames = 2
  NoStream = NoStream
  a = a
  amf1 = amf1
  amf2 = amf2
  set1 = set1
  set2 = set2
  nsi1 = nsi1
  tai1 = tai1
  io1 = io1
INVARIANTS
  HeadIsDecided
PROPERTIES
  AnswersAreDecided
  ImplementsHttp2

SPECIFICATION Spec
CONSTANTS
  Sst <- MCSst
  Sd = {a, b}
  NoSd = NoSd
  SST_MAX_STANDARDIZED_VALUE = 127
  Tai = {tai1, tai2}
  NoTai = NoTai
  NfId = {amf1, amf2, amf3}
  AmfSetId = {set1, set2, set3}
  NsiInfo = {nsi1, nsi2}
  NoNsi = NoNsi
  Absent = Absent
  NotSet = NotSet
  Worker = {w1}
  Configs <- MCConfigs
  Queries <- MCQueries
  http_version = 1
  NoAmfSet = NoAmfSet
  NoQuery = NoQuery
  Pending = Pending
  a = a
  b = b
  amf1 = amf1
  amf2 = amf2
  amf3 = amf3
  set1 = set1
  set2 = set2
  set3 = set3
  nsi1 = nsi1
  nsi2 = nsi2
  tai1 = tai1
  tai2 = tai2
INVARIANTS
  TypeOK
  ScanIsExhaustive
  StatusExplained
  StatusDecided
  ProblemDetailsMean403
  PhaseInvariant
PROPERTIES
  ImplementsAuthorization

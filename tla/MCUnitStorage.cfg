\* Scopes that succeed, fail and are flushed, by a client that goes on.
CONSTANTS
  k1 = k1
  k2 = k2
  o1 = o1
  Keys <- MCKeys
  Prefixed <- MCPrefixed
  Conf <- MCConf
  Pattern = Pattern
  Values = {v1, v2}
  Absent = Absent
  Deleted = Deleted
  MaxVersion = 2
  Client <- MCClient
SPECIFICATION HookSpec
INVARIANTS TypeOK HistoryAgrees NothingHeldOver  ReportedOnce
PROPERTIES PastIsKept ImplementsStorage
CHECK_DEADLOCK FALSE

\* Hooks that succeed, fail and are killed, and an operator between them.
CONSTANTS
  o1 = o1
  o2 = o2
  k1 = k1
  Options <- MCOptions
  Extra <- MCExtra
  Values = {v1, v2}
  None = None
  Torn = Torn
  Unread = Unread
SPECIFICATION Spec
INVARIANTS TypeOK ChangesReported StoredKept ChangesSent ContextStays

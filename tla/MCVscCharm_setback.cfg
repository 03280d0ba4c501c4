\* The operator edits, and nothing fails.
CONSTANTS
  VmOptions <- MCAllVmOptions
  SvcOptions <- MCAllSvcOptions
  Required <- MCAllRequired
  Values <- MCAllValues
  Defaults <- MCAllDefaults
  None = None
  Torn = Torn
  Contents <- MCWhole
  DirOf <- MCOneDir
  VrsRels = {}
  VrsgRels = {}
  VsdName = "x2"
  Others = {}
  BytesOutput = FALSE
  Env = {"back", "upgrade"}
  MaxTries = 0
  MaxEdits = 3
SPECIFICATION Spec
INVARIANTS AddressIsTheParameter
CHECK_DEADLOCK FALSE

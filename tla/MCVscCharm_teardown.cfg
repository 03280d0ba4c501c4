\* Upgrades and an operator that edits nothing.
CONSTANTS
  VmOptions <- MCAllVmOptions
  SvcOptions <- MCAllSvcOptions
  Required <- MCAllRequired
  Values <- MCAllValues
  Defaults <- MCAllDefaults
  None = None
  Torn = Torn
  Contents <- MCWhole
  DirOf <- MCOneDir
  VrsRels = {}
  VrsgRels = {}
  VsdName = "x2"
  Others = {}
  BytesOutput = FALSE
  Env = {"upgrade"}
  MaxTries = 1
  MaxEdits = 0
SPECIFICATION Spec
INVARIANTS StopsForAChange
CHECK_DEADLOCK FALSE

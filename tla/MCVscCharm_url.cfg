\* The operator changes the URL of the repository.
CONSTANTS
  VmOptions <- MCAllVmOptions
  SvcOptions <- MCAllSvcOptions
  Required <- MCAllRequired
  Values <- MCAllValues
  Defaults <- MCAllDefaults
  None = None
  Torn = Torn
  Contents <- MCWhole
  DirOf <- MCTwoDirs
  VrsRels = {}
  VrsgRels = {}
  VsdName = "x2"
  Others = {}
  BytesOutput = FALSE
  Env = {"upgrade"}
  MaxTries = 1
  MaxEdits = 1
SPECIFICATION Spec
INVARIANTS ImageFromRepository
CHECK_DEADLOCK FALSE

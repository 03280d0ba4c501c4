\* The interpreter of the hooks is Python 3, nothing else goes wrong.
CONSTANTS
  VmOptions <- MCAllVmOptions
  SvcOptions <- MCAllSvcOptions
  Required <- MCAllRequired
  Values <- MCAllValues
  Defaults <- MCAllDefaults
  None = None
  Torn = Torn
  Contents <- MCWhole
  DirOf <- MCOneDir
  VrsRels = {}
  VrsgRels = {}
  VsdName = "x2"
  Others = {}
  BytesOutput = TRUE
  Env = {}
  MaxTries = 1
  MaxEdits = 1
SPECIFICATION FairSpec
PROPERTIES EventuallyDeployed
CHECK_DEADLOCK FALSE

\* Everything that may go wrong, with an archive that has no bof.cfg.
CONSTANTS
  VmOptions <- MCVmOptions
  SvcOptions <- MCSvcOptions
  Required <- MCRequired
  Values <- MCFewValues
  Defaults <- MCDefaults
  None = None
  Torn = Torn
  Contents <- MCNoBof
  DirOf <- MCOneDir
  VrsRels = {"vrs:1"}
  VrsgRels = {}
  VsdName = "x2"
  Others = {}
  BytesOutput = FALSE
  Env <- MCFaults
  MaxTries = 1
  MaxEdits = 1
SPECIFICATION Spec
INVARIANTS TypeOK DetectionSound ToolsThere GuestsAreAddressed
PROPERTIES ImplementsVspVm
CHECK_DEADLOCK FALSE

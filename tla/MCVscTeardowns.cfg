\* Edits, joins, upgrades and the VSD around hooks that fail now and then.
CONSTANTS
  VmOptions <- MCVmOptions
  SvcOptions <- MCSvcOptions
  Required <- MCRequired
  Values <- MCGivenValues
  Defaults <- MCWithDomain
  None = None
  Torn = Torn
  Contents <- MCWhole
  DirOf <- MCOneDir
  VrsRels = {"vrs:1"}
  VrsgRels = {}
  VsdName = "x2"
  Others = {}
  BytesOutput = FALSE
  Env <- MCMild
  MaxTries = 2
  MaxEdits = 3
SPECIFICATION FairCountSpec
INVARIANTS AddressApplied AddressPublished DomainApplied TeardownsBounded
PROPERTIES TeardownsEnd HooksEnd HooksProceed BootsAsConfigured
CHECK_DEADLOCK FALSE

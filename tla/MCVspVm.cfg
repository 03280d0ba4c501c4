\* The host of an unrelated, shut off domain; commands fail, guests stop.
CONSTANTS
  Images = {i1, i2}
  Definitions = {d1, d2}
  Absent = Absent
  Torn = Torn
  Others <- MCUnrelated
  CommandsFail = TRUE
  GuestStops = TRUE
SPECIFICATION Spec
INVARIANTS TypeOK GuestKeepsItsDisk DefinedOverWholeDisk
PROPERTIES CreatesOnlyWhatIsMissing ImplementsPersistentDomain

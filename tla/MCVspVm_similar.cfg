\* A host with one shut off domain whose name contains "vsc".
CONSTANTS
  Images = {i1, i2}
  Definitions = {d1, d2}
  Absent = Absent
  Torn = Torn
  Others <- MCSimilarOff
  CommandsFail = FALSE
  GuestStops = FALSE
SPECIFICATION Spec
PROPERTIES CreateReportsTheDomain

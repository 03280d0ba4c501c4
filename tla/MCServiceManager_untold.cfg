\* open-port and close-port that fail.
CONSTANTS
  Services = {"web", "db"}
  Available = {"web", "db"}
  Units = {"u1", "u2"}
  Required <- MCRequired
  Offers <- MCOffers
  Ports = {80, 443}
  Revisions <- MCRevisions
  Missing = Missing
  Torn = Torn
  Env = {"ports"}
SPECIFICATION Spec
INVARIANT LostIsAlwaysTold
CHECK_DEADLOCK FALSE

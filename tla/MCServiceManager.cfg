\* Callbacks that raise, hooks that are killed, data that comes at any time.
CONSTANTS
  Services = {"web", "db"}
  Available = {"web", "db"}
  Units = {"u1", "u2"}
  Required <- MCRequired
  Offers <- MCOffers
  Ports = {80, 443}
  Revisions <- MCRevisions
  Missing = Missing
  Torn = Torn
  Env = {"callback", "kill", "ports"}
SPECIFICATION Spec
INVARIANTS TypeOK PortsFollow ServicesFollow TargetsFollow LostIsTold
PROPERTIES StartsRendered
CHECK_DEADLOCK FALSE

SPECIFICATION ViewSpec
CONSTANTS
  mqtt = mqtt
  infrastructure = infrastructure
  mqttPage = mqttPage
  overviewPage = overviewPage
  f1 = f1
  f2 = f2
  ViewScopes = {mqtt, infrastructure}
  ListPages = {mqttPage}
  VaultPages = {overviewPage}
  ScopeOf <- PageScope
  Reveals = {1, 2}
  Fetches = {f1, f2}
  MaxHides = 2
INVARIANT HiddenMeansCleared
CHECK_DEADLOCK FALSE

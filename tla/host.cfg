SPECIFICATION Spec
CONSTANTS
  d1 = d1
  d2 = d2
  k1 = k1
  k2 = k2
  click = click
  command = command
  Env <- Envs
  Clicks = {click}
  Commands = {command}
  MaxRenders = 2
  Days = {0, 1, 3}
  MaxAge = 5
  MaxLines = 4
  Images = {"admin-api", "caddy"}
  MaxRelease = 2
  Parts <- PartsOf
  Services = {"admin-api", "caddy"}
  Checked = {"caddy"}
  Shown = {"caddy"}
  AdminApi = "admin-api"
  Caddy = "caddy"
  MaxProbes = 2
INVARIANTS
  TypeOK
  DeployAgrees
  HealthSeen
PROPERTIES
  PruneFollowsConfig
  EnvSettles
  KeepsPromise
CHECK_DEADLOCK FALSE

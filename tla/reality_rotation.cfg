SPECIFICATION Spec
CONSTANTS
  d1 = d1
  d2 = d2
  k1 = k1
  k2 = k2
  click = click
  command = command
  Env <- Envs
  Clicks = {}
  Commands = {}
  MaxRenders = 1
  Days = {0, 1}
  MaxAge = 3
  MaxLines = 1
  Images = {"admin-api", "caddy"}
  MaxRelease = 2
  Parts <- PartsOf
  Services = {"admin-api", "caddy"}
  Checked = {"caddy"}
  Shown = {"caddy"}
  AdminApi = "admin-api"
  Caddy = "caddy"
  MaxProbes = 2
INVARIANT ReimportWorks
CHECK_DEADLOCK FALSE

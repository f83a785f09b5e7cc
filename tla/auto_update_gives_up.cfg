SPECIFICATION Spec
CONSTANTS
  Images = {"admin-api", "caddy"}
  Services <- MCServices
  ImageOf <- MCImageOf
  Terminals = {t1}
  Child = child
  MaxVersion = 2
INVARIANT PicksUpWhereItLeft

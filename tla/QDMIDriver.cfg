CONSTANTS
  Ids = {a, b, c}
  Payloads = {p, q}
  Handles = {h1, h2, h3}
  Sessions = {s1, s2}
  None = None
SPECIFICATION Spec
SYMMETRY Symmetry
INVARIANTS RegistryConsistent OpenedMatchesDefinition CatalogOfConfiguration
CHECK_DEADLOCK FALSE

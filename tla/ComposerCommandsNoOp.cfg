SPECIFICATION Spec
CONSTANTS
  Nil = Nil
  Installed = 10
  Catalog <- KnownCatalog
  Packages = {p1}
  Upstream = {u1}
  Torn = Torn
  MaxCommands = 3
CHECK_DEADLOCK FALSE
INVARIANT NoOpIsComplete

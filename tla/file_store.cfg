SPECIFICATION Spec
CONSTANTS
  Keys = {provider, mode}
  Documents = {d1, d2, d3}
  Nothing = Nothing
  Clients = {c1}
  CrashPoints = {"idle", "open", "remove"}
PROPERTIES
  ImplementsKeyedStore

CONSTANTS
  MaxQueue = 3
SPECIFICATION Spec
INVARIANTS
  IInv
  PluginCallsAreSafe
  DownLeavesNothing
PROPERTIES
  MainReturns

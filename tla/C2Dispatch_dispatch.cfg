SPECIFICATION FairSpec
CONSTANTS
  Agents <- MCAgents
  Targets <- MCTargets
  Injected <- MCInjected
  InjectTier = "tier2"
  Selector <- MCSelector
  Handlers = {h1, h2}
  MaxCommands = 2
INVARIANTS ExecutesOwn CommandsInOrder DispatchedIsKept
PROPERTIES DispatchedIsDelivered
CHECK_DEADLOCK FALSE

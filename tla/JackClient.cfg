SPECIFICATION FairSpec
CONSTANTS
  Runner = {r1}
  MaxSessions = 2
  MaxPorts = 1
  CallbackAsks = TRUE
  ListenerAsks = FALSE
INVARIANTS
  NativeInLiveChain
  WorkerInLiveChain
  NullCallIsOvertaken
  FaultIsNotSilent
  ReadyToOpen
PROPERTIES
  KeepsChainLife
  FacadeReturns
CHECK_DEADLOCK FALSE

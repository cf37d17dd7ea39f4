\* One client that connects twice.
SPECIFICATION Spec
CONSTANTS
  Turns <- MCTurns
  Agents = {"a1"}
  SubEvents <- MCSubEvents
  Clients = {c1}
  MaxLen = 2
  ReadCount = 2
  ChannelSize = 1
  FirstId = 100
  MaxFaults = 1
  MaxConnects = 2
INVARIANTS
  DeliveryTypeOK
  ShownInOrder
  OnlyLostIsMissed
PROPERTY EverythingIsShown
CHECK_DEADLOCK FALSE

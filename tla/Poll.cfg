SPECIFICATION FairSpec
CONSTANTS
  Fds = {1, 2}
  Timeouts = {1, 3}
  MaxTime = 2
  MaxRequests = 5
INVARIANT CountsOpen
PROPERTIES
  ImplementsSocket
  EventsServed
CHECK_DEADLOCK FALSE

\* Two connections; a number is free again for the second when the first closes.
CONSTANTS
  Clients = {c1, c2}
  NoConn = NoConn
  Fds = {4, 5}
SPECIFICATION FairSpec
INVARIANTS NoCrossTalk OpenWhileServing StopLeavesNothing
PROPERTY StopUnlessBlocked

\* The same instance: can stop() wait for ever?
CONSTANTS
  Clients = {c1, c2}
  NoConn = NoConn
  Fds = {4, 5}
SPECIFICATION FairSpec
PROPERTY StopTerminates

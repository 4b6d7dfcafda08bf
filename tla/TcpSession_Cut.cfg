CONSTANTS
  HdrLen = 2
  MaxPayload = 2
  Sizes = {1}
  NumRequests = 2
  Cap = 2
SPECIFICATION Spec
INVARIANT EchoAlways

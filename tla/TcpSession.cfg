\* Sizes 0, 1, 2 and one above the limit; buffers smaller than a message.
CONSTANTS
  HdrLen = 2
  MaxPayload = 2
  Sizes = {0, 1, 2, 3}
  NumRequests = 3
  Cap = 2
SPECIFICATION FairSpec
INVARIANTS EchoUnlessCut CountsAgree FailureIsForGood
PROPERTY RequestReturns

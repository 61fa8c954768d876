SPECIFICATION Spec
CONSTANTS
  Requests = {r1}
  Served = {q1}
INVARIANTS
  AwaitingOpen
  NoStrandedRequest
  NoStrandedBuffer
  ClosedIsLast
  WireOrder

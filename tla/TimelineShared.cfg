\* A shared fence is signalled while something else is submitted.
CONSTANTS
  A = A
  B = B
  None = None
  Queues = {A, B}
  MaxCalls <- SharedCalls
  MaxTotal = 2
  MayTimeOut = FALSE
SPECIFICATION Spec
INVARIANT
  SubmissionFound
CHECK_DEADLOCK FALSE

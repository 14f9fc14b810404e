\* One thread acquires the VkQueue, again and again, with staggered submissions.
CONSTANTS
  u1 = u1
  u2 = u2
  Worker = Worker
  None = None
  Users = {u1}
  MayStagger = {TRUE, FALSE}
  MaxExecutes = 3
  MaxAcquires = 4
SPECIFICATION FairSpec
INVARIANT
  AcquireIsSafe
PROPERTIES
  AcquireReturns
  SubmissionsAreTaken
CHECK_DEADLOCK FALSE

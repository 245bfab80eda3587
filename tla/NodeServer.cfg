SPECIFICATION Spec
CONSTANTS
  Clients = {c1, c2}
  Replaceable = {c2}
  MaxJobs = 3
  None = None
INVARIANT AnswersHaveAllAcked

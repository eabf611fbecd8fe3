SPECIFICATION Spec
CONSTANTS
  Items <- AllItems
  Offers <- EventsOnly
  MaxRedirects = 2
  FirstPolls = {"200"}
  Invocations = {}
  Retries = 2
INVARIANT StartedMeansConnected
CHECK_DEADLOCK FALSE

SPECIFICATION FairSpec
CONSTANTS
  Items <- AllItems
  Offers <- AllOffers
  MaxRedirects = 2
  FirstPolls = {"200", "other2xx"}
  Invocations = {i1}
  Retries = 2
INVARIANTS
  TypeOK
  LayersAgree
  CallsSettle
  StopIsFinal
  LiveIsConnected
PROPERTIES
  NeverBackFromStop
  PromisesSettle
  ReconnectSettles
  SilenceNoticed
CHECK_DEADLOCK FALSE

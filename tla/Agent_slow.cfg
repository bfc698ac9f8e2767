SPECIFICATION FairSpec
CONSTANTS
  v1 = v1
  v2 = v2
  none = none
  Calls <- ThreeCalls
  Goroutines <- ThreeCalls
  Contexts = {"NGINX handleUnexpected", "NGINX handleRequest", "NGINX handleResonse",
              "NGINX handleResponse", "parse HTTP", "unparsable body"}
  Duration = 1
  MaxClock = 1
  Profiles = {"rejected", "halves", "bodies"}
  MessagesOf <- MessagesOfAll
  CallsOf <- CallsOfAll
  Captured <- CapturedBodies
  Versions = {v1, v2}
  NoVersion = none
  MaxRuns = 2
  MaxRetries = 1
  Commands = {"lookup"}
PROPERTY UserAPITimesOut
CHECK_DEADLOCK FALSE

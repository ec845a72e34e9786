SPECIFICATION Spec
CONSTANTS
  UrlSeq <- MCUrlSeq
  Facts <- MCFacts
  Cap <- MCCap
  Home = "page"
  Root = "open"
  Login = "login"
  Servers <- MCServers
  Other <- MCOther
  Refusing = {"unauthorized", "redirect", "form"}
  MaxAdverse = 2
INVARIANTS ReportedIsSo ExposureIsReported 
PROPERTY GateKnowsTheSession
CHECK_DEADLOCK FALSE

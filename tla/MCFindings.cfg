SPECIFICATION Spec
CONSTANTS
  Words <- MCWords
  Detected <- MCDetected
  Later <- MCLater
  FromZap <- MCFromZap
  Path <- MCPath
  Urls = {"a", "b"}
  Pages <- MCPages
  NeedsHtml = {"x-frame-options"}
  PresenceFixes = {"x-frame-options", "x-content-type-options", "referrer-policy"}
  Varying = Varying
  FullCapture = TRUE
  Disclosing = TRUE
INVARIANTS ShippedWithProof NothingIsLost NativeProofSurvives
PROPERTIES ProvenStaysProven
CHECK_DEADLOCK FALSE

SPECIFICATION Spec
CONSTANTS
  r1 = r1
  r2 = r2
  r3 = r3
  m1 = m1
  Request <- MCRequest
  NoRequest = NoRequest
  Steps <- MCSteps
  OnFailure <- MCOnFailure
  Legacy <- MCLegacy
  MaxCrash = 2
  MaxFault = 2
INVARIANTS
  DbTypeOK
  AnsweredSurvives
  DropsOnlyAfterCut
  AheadOnlyByFailedSaves
  MigratedOnce
PROPERTY ComesBackUnlessTorn
CHECK_DEADLOCK FALSE

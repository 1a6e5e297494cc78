CONSTANTS
  a1 = a1
  a2 = a2
  Artifact <- TwoArtifacts
  Integrity <- OneIntegrity
  Evidence <- AnyEvidence
  Exceptions <- SomeExceptions
  None = None
  MinimumAge = 2
  MaxTime = 5
  MaxItems = 4
SPECIFICATION SecondCompleteSpec
INVARIANTS
  AllowIsEarned
  AllowedWithoutGap
  ExceptionRelaxesAge
PROPERTY DenialIsFinal
CHECK_DEADLOCK FALSE

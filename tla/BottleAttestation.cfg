CONSTANTS
  c1 = c1
  c2 = c2
  g1 = g1
  g2 = g2
  x1 = x1
  None = None
  Content <- Contents
  Candidate = c1
  Genuine <- GenuineContents
  Version <- Versions
  Accepted <- Names
  Attestations <- SomeAttestations
  Now = 5
  Limit = 3
  MaxRewrites = 2
SPECIFICATION Spec
INVARIANTS
  VerifiedWhatWasHashed
  AgeIsFirstPublication

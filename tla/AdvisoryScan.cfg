CONSTANTS
  f1 = f1
  f2 = f2
  a1 = a1
  i1 = i1
  i2 = i2
  i3 = i3
  Formula <- Formulae
  Advisory <- OneAdvisory
  Id <- Identifiers
  Names <- AdvisoryNames
  Record <- Records
  MaxChanges = 1
SPECIFICATION Spec
SYMMETRY Symmetry
INVARIANTS
  StandingFindingDenies
  StandingRecordDenies

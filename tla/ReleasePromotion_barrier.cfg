SPECIFICATION FairSpec
CONSTANTS
  a1 = a1
  a2 = a2
  o1 = o1
  o2 = o2
  Attachments = {a1, a2}
  Objects = {o1, o2}
  NoObject = NoObject
  MaxUploads = 2
  MaxFaults = 1
INVARIANT TypeOK
INVARIANT RecordsAgree
INVARIANT PlacementsExist
PROPERTY IsBarrier
PROPERTY CrashesAreHarmless

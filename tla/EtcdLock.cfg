SPECIFICATION FairSpec
CONSTANTS
  Client = {c1, c2}
  Session = {s1, s2, s3}
  NoClient = NoClient
  NoSession = NoSession
INVARIANTS
  TypeOK
  AtMostOneHonoured
PROPERTIES
  ImplementsLeaseLock
  ContenderLeavesNoKey
  KeysDoNotOutliveTheirUsers

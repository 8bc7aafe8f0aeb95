SPECIFICATION Spec
CONSTANTS
  Pieces <- MCPieces
  MinBits = 16
  Topics <- MCTopics
  Kinds <- MCKinds
  Now = 20600
INVARIANTS NamesMatchExactly MailboxesAgree ProfilesAreConsistent
CHECK_DEADLOCK FALSE

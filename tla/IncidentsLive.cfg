SPECIFICATION FairSpec
CONSTANTS
  Requests = {r1, r2, r3}
  Incidents = {i1, i2}
  None = None
  ClientVersions <- MCClientVersions
INVARIANTS
  AnswerMatchesLog
  NoRequestStuck
PROPERTIES
  EveryRequestAnswered

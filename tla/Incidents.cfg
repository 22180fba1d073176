SPECIFICATION Spec
CONSTANTS
  Requests = {r1, r2, r3, r4, r5}
  Incidents = {i1}
  None = None
  ClientVersions = {2}
SYMMETRY MCSymmetry
INVARIANTS
  TypeOK
  ResolvedHasNoMitigation
  NoLostUpdate
  ErrorOnlyIfCleared
  RowUntilDeletionLogged
  TimelineTellsStatus
  VersionsAccounted
PROPERTIES
  ResolvedIsFinal
  ConflictsAreReal
  LedgerSpec

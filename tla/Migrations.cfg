SPECIFICATION Spec
CONSTANTS
  Migrators = {m1, m2, m3, m4}
  Rows = {x1}
  RowTables <- MCRowTables
  Tenants = {a1}
  Legacy = legacy
  None = None
SYMMETRY MCSymmetry
INVARIANTS
  TypeOK
  SchemaFitsRevision
PROPERTIES
  FailsOnlyIfOvertaken
  RowsSurvive
  PromiseSpec

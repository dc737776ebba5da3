SPECIFICATION Spec
CHECK_DEADLOCK FALSE
CONSTANTS
  Stages = {"PAID"}
  Values = {"v1"}
  Kinds = {"STEP"}
  MaxChanges = 2
  MaxEntries = 3
  MaxTasks = 4
INVARIANTS
  MetaOnlyBySetMeta
  AuditedBeforeGoingOn
  OccurredAtRecoversOrder
PROPERTIES
  UpdatedAtShowsChanges

SPECIFICATION Spec
CONSTANTS
  FaultyClasses <- TopLevel
  ErrorStatuses <- OnePerException
  MaxAssignments = 1
  MaxCalls = 2
PROPERTIES
  WritesOnlyAssigned
  ReadsBackWhatWasWritten
  SuccessIsTheStoredObject
  EveryObjectParses
CHECK_DEADLOCK FALSE

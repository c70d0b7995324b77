SPECIFICATION Spec
CONSTANTS
  Runners <- MCRunners
  Setups <- MCSetups
  Plans <- MCPlans
  Objects <- MCObjects
  Fields <- MCFields
  Values <- MCValues
  Default = 0
  MaxOutside = 1
  MaxFailures = 1
INVARIANTS
  RerunIsUnchanged
  PreviewPredictsSuccess
  IssuedOnce
  SecretsNeverOverwrittenBlind
PROPERTIES
  ConvergedOnOk
  OverridesSurvive
  ReportedStateHolds
CHECK_DEADLOCK FALSE

SPECIFICATION PowerSpec
CONSTANTS
  Top = {"top"}
  Deep = {"deep"}
  MaxAttempts = 2
INVARIANT PublishedIsWhole
PROPERTY ProvisionedSurvives

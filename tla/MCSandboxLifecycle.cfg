CONSTANTS
  Configs <- AllConfigs
  SignalBuffer = 1
  InitBuffer = 1
  MaxSignals = 2
SPECIFICATION FairSpec
INVARIANTS TypeOK ConfinedFirst StatusPreserved CleanReturn ReleaseOrder
PROPERTIES EveryRunEnds SignalReachesPayload

CONSTANTS
  Paths <- MCPaths
  HostPaths = {"in", "out"}
  Configs <- MCConfigs
  Trees <- MCTrees
  NestedPath <- Nested
  SourceKinds = {"dir"}
  MaxReplacements = 2
SPECIFICATION Spec
INVARIANTS TypeOK ViewAsConfigured HostChangesDeclared StagingRemoved
CHECK_DEADLOCK FALSE

CONSTANTS
  Procs = {p1, p2}
  Names = {n1, n2}
  Requests <- MCRequests
  Inherited <- MCInherited
  UnitBytes = 16
  MaxWord = 63
  MaxCleanups = 2
  Absent = Absent
SYMMETRY Symmetry
SPECIFICATION Spec
INVARIANTS
  LimitsHold
  CgroupsAccounted

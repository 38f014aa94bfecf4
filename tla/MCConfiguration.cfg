SPECIFICATION ConfigSpec
CONSTANTS
  Inputs <- MCInputs
  Commands <- MCCommands
  Hosts <- MCHosts
  BadNames = {"1X"}
  NotUTF8 = {"latin1"}
  TerminalNames = {"xterm", "vt100"}
  UnitBytes = 4
  MaxWord = 63
  DefaultTotal = 8
  DefaultFile = 2
INVARIANTS AsConfigured ChildAgrees

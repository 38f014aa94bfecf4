SPECIFICATION FairSpec
CONSTANTS
  Sizes = {s1, s2}
  Zero = zero
  DefaultSize = d
  CanFail = FALSE
  PtyBuffer = 1
  MaxResizes = 2
  MaxTyped = 0
  MaxPrinted = 0
PROPERTY TracksResizing

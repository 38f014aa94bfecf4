SPECIFICATION FairSpec
CONSTANTS
  Sizes = {s1, s2}
  Zero = zero
  DefaultSize = d
  CanFail = TRUE
  PtyBuffer = 1
  MaxResizes = 2
  MaxTyped = 2
  MaxPrinted = 2
INVARIANT SessionIntact
PROPERTIES OutputDrains SizeFollows

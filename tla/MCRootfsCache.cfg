CONSTANTS
  p1 = p1
  p2 = p2
  p3 = p3
  k1 = k1
  Procs = {p1, p2, p3}
  Keys = {k1}
  KeyOf <- MCKeyOf
  Size <- MCSize
  Limit <- MCLimit
  NoProc = NoProc
  Absent = Absent
SPECIFICATION FairSpec
INVARIANTS TypeOK ManifestMeansVerified NoTempLeft InUseNotReplaced NoNeedlessDownload
PROPERTIES ServedVerified ImplementsCache EveryRequestAnswered

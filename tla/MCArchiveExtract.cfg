CONSTANTS
  Entries <- MCEntries
  Devices <- MCDevices
  MaxTotalBytes = 3
  MaxFileBytes = 2
  MaxEntries = 5
  NoEntry = NoEntry
SPECIFICATION Spec
INVARIANTS
  EntriesSound
  ExtractedAsArchived
  WithinLimits

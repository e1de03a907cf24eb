\* Either kind of page, with a restart, and a lost connection, a failed fetch
\* or a new token.
CONSTANTS
  Pages = {FALSE, TRUE}
  ChannelCap = 1
  WireCap = 2
  None = None
  MaxRevision = 3
  MaxRestarts = 1
  MaxFaults = 1
SPECIFICATION Spec
INVARIANTS TypeOK NothingMissed
PROPERTIES PageNeverGoesBack PageConverges

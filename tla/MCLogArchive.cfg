\* /logs: two logs that grow while they are copied, and a reader.
CONSTANTS
  sip = sip
  http = http
  Log = {sip, http}
  NoLog = NoLog
  Order <- TwoLogs
  Word = 65536
  Lengths = {0, 700, 1024}
  Growths = {324, 700}
  MaxLength = 1400
  Pieces = {324, 376}
SPECIFICATION Spec
INVARIANTS
  Framed
  NeverMixed
  FoundUnlessPushed
  ReadsTheLog
CHECK_DEADLOCK FALSE

SPECIFICATION LiveSpec
CONSTANTS
  Subscribers = {c1, c2}
  Maxlen = 2
  ReadCount = 2
  MaxEvents = 3
  Faults = {"expiry", "command", "ttl"}
INVARIANT Ordered
PROPERTY EndIsLast
PROPERTY LogSpec
PROPERTY EveryStoredEndIsHeard

SPECIFICATION LiveSpec
CONSTANTS
  Subscribers = {c1, c2}
  QueueMaxsize = 2
  MaxEvents = 5
PROPERTY DeliversNext
PROPERTY LogSpec
PROPERTY EveryReaderEnds

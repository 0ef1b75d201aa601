SPECIFICATION FairSpec
CONSTANTS
  HeaderSizes = {2, 9}
  Totals = {0, 1, 9}
  MaxHeader = 3
  MaxChunk = 3
  HighWater = 5
  MaxExtra = 1
INVARIANTS TypeOK FileIsBody TakesExactlyBody BufferBounded PausedForDrain
PROPERTY TransferEnds
CHECK_DEADLOCK FALSE

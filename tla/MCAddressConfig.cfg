SPECIFICATION AddressSpec
CONSTANTS
  dram_channels = 32
  Rows <- MCRows
  Headers <- MCHeaders
  AccessNumbers <- MCBlocks
INVARIANTS
  RequestUnderstood
  BlocksSpread

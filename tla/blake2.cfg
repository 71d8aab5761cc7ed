SPECIFICATION MCSpec
CONSTANTS
  BLOCKBYTES <- MCBLOCKBYTES
  OUTBYTES <- MCOUTBYTES
  KEYBYTES <- MCKEYBYTES
  DEGREE <- MCDEGREE
  WORD <- MCWORD
  XOFUNKNOWN <- MCXOFUNKNOWN
  Keys <- MCKeys
  Tests <- MCTests
  Lengths = {0, 1, 2, 3, 4, 5, 6, 7}
  Pieces = {0, 1, 2, 4, 5, 7, 12}
  MaxInput = 12
  MaxLate = 1
INVARIANT BytesAccounted
INVARIANT OneShotAgrees
INVARIANT KnownDigests
PROPERTY Streams
CHECK_DEADLOCK FALSE

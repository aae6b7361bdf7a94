SPECIFICATION DefaultSpec
CONSTANTS
  UserKeys <- MCUserKeys
  SizesAre64Bits = TRUE
  Max8 = 1
  Max16 = 5
  Max32 = 13
  MaxLong = 29
  FloatMax = 60
  DoubleMax = 62
  FloatExact = 12
  DoubleExact = 28
  Strings = {"s", "t"}
  Rows <- MCRows
  Lists <- MCLists
  Memory <- MCMemory
INVARIANT LoadedIsWhole

SPECIFICATION MemorySpec
CONSTANTS
  FieldBits = 2
  Touched = {0, 2, 3, 6, 14}
  Lengths = {0, 1, 2, 5, 6, 7, 8, 64, 508, 509, 510, 511, 512}
  CacheLines = {8, 16}
INVARIANTS HeaderDecodes MasksFindSlots LinksDecode WithinBuffer SlotsAligned PointersTracked
CHECK_DEADLOCK FALSE

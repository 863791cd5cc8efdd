CONSTANTS
  Programs = {"sc", "libc", "memmap", "async", "fifo"}
  Sizes = {0, 1, 3, 4, 9}
  Arguments <- Ints
  IntMax = 3
  Writers = {w1, w2}
  Lines <- EmptyShortLong
  MaxLines = 4
  Capacity = 5
  ReadSize = 3
  MaxFaults = 1
SPECIFICATION Spec
INVARIANTS CopiesRight BufferStays MessagesKept
CHECK_DEADLOCK FALSE

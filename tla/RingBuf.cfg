\* Two buffers, of one and two bytes, and calls of up to four bytes.
SPECIFICATION Spec
CONSTANTS
  small = small
  large = large
  Buffers <- MCBuffers
  Capacity <- MCCapacity
  Byte = {0, 1}
  MaxCount = 4
INVARIANTS Accounting FindchrFindsFirst
PROPERTIES FullAfterOverflow CallReturns ImplementsFifo

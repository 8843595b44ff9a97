\* A file that ends in the middle of a request, a ring buffer with just the
\* room it needs, and errors of every library.
SPECIFICATION Spec
CONSTANTS
  File <- MCFile
  FileBytes = 5
  MaxPacket = 2
  Capacity = 4
  Requests = {1,2}
  Faults = TRUE
INVARIANTS AnswerIsFresh Gapless
PROPERTY Answered

SPECIFICATION FairSpec
\* A request can be shorter than, equal to and longer than what remains, and can wrap around several times.
CONSTANTS
  BufferSizes = {1, 2, 3, 4}
  RequestSizes = {0, 1, 2, 3, 4, 5, 6}
  SizeMod = 16
PROPERTIES
  CyclicSpec
  RequestsEnd

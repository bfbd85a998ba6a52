\* Three URLs answer in every way and redirect to each other in every way;
\* bodies below, at and past every limit.
SPECIFICATION FairSpec
CONSTANTS
  Urls = {u1, u2, u3}
  None = None
  TooLong = TooLong
  Bytes = {1, 2, 3, 4, 5}
  Lengths = {0, 1, 3, 5}
  Bodies <- BodiesOf
  BufferSize = 2
  MaxRespLen = 1
  DefaultLength = 5
  Limit = 3
INVARIANTS TypeOK NoPanic
PROPERTIES ImplementsFetch Terminates

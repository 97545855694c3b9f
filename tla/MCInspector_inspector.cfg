\* Two requests that end together and a page; the buffer, the page and the
\* channel of the stream overflow.
SPECIFICATION FairSpec
CONSTANTS
  Recorders = {r1, r2}
  Pages = {p1}
  MaxEntries = 2
  Backlog = 2
  MaxID = 4
INVARIANTS BufferInOrder StreamedOnce
PROPERTIES RecordReturns QueuedShown

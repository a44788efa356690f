CONSTANTS
  s1 = s1
  s2 = s2
  c1 = c1
  c2 = c2
  NoBuffer = NoBuffer
  Calls <- MCCalls
  Clients <- MCOneClient
  Chunk = 2
  RecordSizes = {1, 2}
  MaxRecords = 1

SPECIFICATION Spec

INVARIANT StreamCarriesOwnJobOnly

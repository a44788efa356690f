CONSTANTS
  s1 = s1
  s2 = s2
  c1 = c1
  c2 = c2
  NoBuffer = NoBuffer
  Calls <- MCOneCall
  Clients <- MCClients
  Chunk = 2
  RecordSizes = {1, 2}
  MaxRecords = 2

SPECIFICATION Spec

INVARIANT ReadersSeeSameData

SPECIFICATION FairSpec
CONSTANTS
  ada = ada
  bob = bob
  w1 = w1
  w2 = w2
  None = None
  Names = {ada, bob}
  Headers <- AllHeaders
  Files <- EmptyOrTricky
  Workers = {w1, w2}
  ChannelCap = 1
  ChunkSize = 2
  Databases = {"sound", "failing", "lossy"}
  Others = {bob}
  MaxErrors = 1
INVARIANTS
  TypeOK
  Accounted
  EachRowOnce
  GoodRowsLand
  InsertedCoversStored
PROPERTIES
  ImportAnswers
  ImplementsLedger

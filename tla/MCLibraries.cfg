INIT Init
NEXT Next
CONSTANTS
  Documents <- MCDocuments
  Abbreviations <- MCAbbreviations
  Numeral <- MCNumeral
  Readings <- MCReadings
  IntBits = 2
  MaxRounds = 2
  Announced <- MCAnnounced
  BucketOf <- MCBucketOf
  Searches <- MCSearches
  MaxRecords = 3
  Requests <- MCRequests
  OwnRequest <- MCOwnRequest
  OwnAppName = "app"
  Register2 = TRUE
  Files = {"f"}
  Queries <- MCQueries
  SelfUri = "self"
  Layers <- MCLayers
  HostName = "h"
  Bucket <- MCBucket
  Claimed <- MCClaimed
  DefaultPort = 1
  Interval = 3
  FirstDelay = 1
  Second = 1
  Timeout = 3
  MaxTime = 5
  MaxJobs = 3
  Structs <- MCStructs
  Items <- MCItems
  Samples <- MCSamples
  JsonTexts <- MCJsonTexts
  MaxDepth = 3
  Keys <- MCKeys
  TableSize = 2
  ArraySize = 2
  MaxIndex = 2
  MaxHeld = 2
  MaxObjects = 5
  MaxBlocks = 8
  MaxSteps = 5
  Conversations <- MCConversations
  Cap = 130
  MaxPolls = 4
  Filters <- MCFilters
  Names <- MCTopicNames
  MaxHandlers = 2
  MAX_PACKET_ID = 3
  CommandTimeout = 2
  KeepAlive = 1
  MaxCalls = 4
  MaxMessages = 1
  MaxPending = 2
INVARIANTS
  RecordsOwn PublishesConfigured
  RegistrationsExact NetworkExact
  RoundTrip ChunksJoin
  JsonRoundTrip ObjectsExact
  ReadsWhatWasSent AnswerIsOwn MessagesReach
CHECK_DEADLOCK FALSE

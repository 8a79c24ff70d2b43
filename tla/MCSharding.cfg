SPECIFICATION ShardSpec
CONSTANTS
  d1 = d1
  d2 = d2
  ShardDevices <- MCDevices
  ListOn <- Alike
  MaxShards = 4
INVARIANTS NoneTwice NoneMissed
CHECK_DEADLOCK FALSE

CONSTANTS
  Keys = {k1, k2}
  Addrs = {a1}
  Words = {w1}
  NoWord = NoWord
  Builds = {TRUE, FALSE}
  MaxQueue = 2
SPECIFICATION FairSpec
INVARIANTS TypeOK NoBlockLost OnlyInFlightMissing NoLostWakeup
PROPERTIES SyncGetReflectsPuts ImplementsWriteBehind EventuallyStored

\* One instance; it, the consumer and the registry die, messages are lost.
CONSTANTS
  i1 = i1
  i2 = i2
  Instances = {i1}
  Consumer = Consumer
  Timeout = 5
  BeatEvery = 1
  LoopEvery = 2
  MaxDeaths = 2
  MaxRestarts = 1
  MaxLostBeats = 1
  MaxLostPushes = 1
  Mortal = {i1, Consumer}
  Absent = Absent
SPECIFICATION FairSpec
INVARIANTS
  TypeOK
  GoneIsForgottenByRunning
PROPERTIES
  LiveIsKept
  FoundStaysUsable
  Rediscovered

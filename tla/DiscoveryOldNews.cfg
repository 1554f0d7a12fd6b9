\* The consumer dies and finds old messages when it is started again.
CONSTANTS
  i1 = i1
  i2 = i2
  Instances = {i1}
  Consumer = Consumer
  Timeout = 5
  BeatEvery = 1
  LoopEvery = 2
  MaxDeaths = 2
  MaxRestarts = 0
  MaxLostBeats = 0
  MaxLostPushes = 0
  Mortal = {i1, Consumer}
  Absent = Absent
SPECIFICATION Spec
INVARIANT GoneIsForgotten

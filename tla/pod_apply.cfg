SPECIFICATION PodSpec
CONSTANTS
  LastApply = 2
  Argvs = {"a", "b"}
  Passes = 2
  HeadRead = 4
  HeadCap = 7
  PeekCap = 12
  Talks <- PodTalks
  CallSet <- PodCalls
INVARIANTS OneServer BytesDecide PerformsWhatItRead CommandIsAnswered
PROPERTIES DeathIsWitnessed PodLives

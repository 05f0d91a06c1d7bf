SPECIFICATION Spec
CONSTANTS
  Files = {f1}
  Targets = {t1}
  Scores = {1, 2}
  Confidence = 2
  Patience = 2
  Window = 3
  Cycles = 2
  Attempts = 2
  MaxBuilds = 2
  MaxEdits = 1
  MaxKills = 1
  Commands = {"build", "other", "direct"}
  Absent = Absent
CHECK_DEADLOCK FALSE
INVARIANTS CycleIsOfItself
PROPERTIES LearningIsHonest LoopEnds

CONSTANTS
  Fd = {f1, f2}
  Listener = {f2}
  MaxEvents = 1
  Masks = {{"rdhup"}, {"in", "rdhup"}, {"out", "rdhup"}, {"in"}, {"out"}, {}}
SPECIFICATION FairSpec
INVARIANTS
  NeverDeaf
PROPERTIES
  ImplementsEpoll
  EveryoneHeard
CHECK_DEADLOCK FALSE

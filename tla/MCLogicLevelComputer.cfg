SPECIFICATION Spec
CONSTANTS
  w1 = w1
  w2 = w2
  Workers = {w1, w2}
  Netlists <- SmallNetlists
  NoDriver = NoDriver
INVARIANT LevelsExact
PROPERTY Terminates
CHECK_DEADLOCK FALSE

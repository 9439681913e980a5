\* Two waiters share two tokens per second, two thirds of a token per tick.
CONSTANTS
  Waiters = {w1, w2}
  Rate = 2
  Unit = 3
  TicksPerSecond = 3
  Horizon <- MCHorizon
  Window <- MCWindow
SPECIFICATION FairSpec
INVARIANTS TypeOK RateBound NothingWasted NoOversleep
PROPERTY KeepsGranting

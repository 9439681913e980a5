\* A rate of less than one send per second: three quarters of a token fit.
CONSTANTS
  Waiters = {w1}
  Rate = 1
  Unit = 4
  TicksPerSecond = 3
  Horizon <- MCHorizon
  Window = 0
SPECIFICATION FairSpec
PROPERTY WaitEnds
